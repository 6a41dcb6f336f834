---------------------- MODULE GoTokenValidation_proofs ----------------------
(***************************************************************************)
(* GoTokenValidation: the cache inside it keeps what GoKeyCache_proofs     *)
(* proves of a cache; a withdrawn key is not accepted for long, a new one  *)
(* is picked up, and an outage is tolerated.                               *)
(***************************************************************************)
EXTENDS GoTokenValidation, TLAPS

(* The cache of GoTokenValidation again, with its theorems. *)
Proved == INSTANCE GoKeyCache_proofs WITH
            Key <- {Uri}, Caller <- Request, StaleOption <- 0, MayPanic <- FALSE

LEMMA CacheConstants == Proved!GoCacheAssumption
  BY GoValidationAssumption DEF Proved!GoCacheAssumption, Proved!Proc
-----------------------------------------------------------------------------
(* Every step of GoTokenValidation is a step of its cache, or leaves it.   *)

LEMMA CacheInit == Init => Proved!Init
  BY DEF Init, Proved!Init, Cache!Init, Proved!Idle, Cache!Idle, Proved!Proc, Cache!Proc

LEMMA GetSame == ASSUME NEW p, Cache!Get(p, Uri) PROVE Proved!Get(p, Uri)
  BY DEF Proved!Get, Cache!Get, Proved!Fresh, Cache!Fresh, Proved!Idle, Cache!Idle

LEMMA SectionSame ==
  ASSUME NEW p, NEW force, NEW floor, Cache!LoadSection(p, Uri, force, floor)
  PROVE  Proved!LoadSection(p, Uri, force, floor)
  BY DEF Proved!LoadSection, Cache!LoadSection, Proved!Fresh, Cache!Fresh, Proved!Idle,
         Cache!Idle, Proved!Joinable, Cache!Joinable, Proved!Waits, Cache!Waits,
         Proved!Starts, Cache!Starts

(* A goroutine that is busy is busy with the one key. *)
KeyKnown == \A p \in Cache!Proc : proc[p].pc # "idle" => proc[p].key = Uri

LEMMA RunsSame ==
  ASSUME KeyKnown, NEW p \in Cache!Proc, Runs(p)
  PROVE  Proved!Runs(p)
<1>1. Cache!LoadAfterMiss(p) => Proved!LoadAfterMiss(p)
  <2> SUFFICES ASSUME Cache!LoadAfterMiss(p) PROVE Proved!LoadAfterMiss(p) OBVIOUS
  <2>1. proc[p].pc = "missed" /\ proc[p].key = Uri BY DEF KeyKnown, Cache!LoadAfterMiss
  <2> QED BY <2>1, SectionSame DEF Proved!LoadAfterMiss, Cache!LoadAfterMiss
<1>2. Cache!LoaderAnswers(p) => Proved!LoaderAnswers(p)
  BY DEF Proved!LoaderAnswers, Cache!LoaderAnswers
<1>3. Cache!LoaderFails(p) => Proved!LoaderFails(p)
  BY DEF Proved!LoaderFails, Cache!LoaderFails
<1>4. Cache!Publish(p) => Proved!Publish(p)
  BY DEF Proved!Publish, Cache!Publish, Proved!Landing, Cache!Landing, Proved!StandIn,
         Cache!StandIn, Proved!InGrace, Cache!InGrace, Proved!Grace, Cache!Grace,
         Proved!Deregistered, Cache!Deregistered
<1>5. Cache!Done(p) => Proved!Done(p)
  BY DEF Proved!Done, Cache!Done, Proved!Idle, Cache!Idle, Proved!Proc, Cache!Proc
<1> QED BY <1>1, <1>2, <1>3, <1>4, <1>5
        DEF Runs, FetchAnswers, FetchFails, LoadGoesOn, Proved!Runs

LEMMA RoundSame == Cache!RoundGoesOn => Proved!RoundGoesOn
  BY SectionSame
     DEF Proved!RoundGoesOn, Cache!RoundGoesOn, Proved!RoundRefresh, Cache!RoundRefresh,
         Proved!RoundEnds, Cache!RoundEnds

LEMMA CacheStep == KeyKnown /\ [Next]_vars => [Proved!Next]_(Proved!vars)
<1> SUFFICES ASSUME KeyKnown, [Next]_vars PROVE [Proved!Next]_(Proved!vars) OBVIOUS
<1>a. ASSUME UNCHANGED cacheVars PROVE [Proved!Next]_(Proved!vars)
  BY <1>a DEF cacheVars, Proved!vars
<1>b. ASSUME NEW r \in Request, Cache!Get(r, Uri) \/ Cache!Refresh(r, Uri) PROVE Proved!Next
  <2>1. Cache!Refresh(r, Uri) => Proved!Refresh(r, Uri)
    BY SectionSame DEF Proved!Refresh, Cache!Refresh
  <2> QED BY <1>b, <2>1, GetSame DEF Proved!Next
<1>1. ASSUME NEW r \in Request,
             Prime(r) \/ (\E kid \in Kid : Authenticate(r, kid)) \/ Handles(r)
      PROVE  [Proved!Next]_(Proved!vars)
  BY <1>1, <1>a, <1>b
     DEF Prime, Authenticate, Handles, Primed, CheckFirst, CheckRetry, RetryAfterRefresh
<1>2. ASSUME NEW p \in Cache!Proc, Runs(p) PROVE Proved!Next
  BY <1>2, RunsSame DEF Proved!Next, Proved!Proc, Cache!Proc
<1>3. CASE LoopGoesOn BY <1>3, RoundSame DEF LoopGoesOn, Proved!Next
<1>4. CASE LoopTurns
  BY <1>4 DEF LoopTurns, Proved!Next, Proved!RoundStarts, Cache!RoundStarts,
              Proved!Tracked, Cache!Tracked, Proved!LoopStops, Cache!LoopStops
<1>5. CASE Dispose BY <1>5 DEF Dispose, Cache!Dispose, Proved!Dispose, Proved!Next
<1>6. CASE CloseStop BY <1>6 DEF CloseStop, Cache!CloseStop, Proved!CloseStop, Proved!Next
<1>7. CASE RotateKeys BY <1>7 DEF RotateKeys, Cache!Rotate, Proved!Rotate, Proved!Next
<1>8. CASE Tick BY <1>8 DEF Tick, Cache!Tick, Proved!Tick, Proved!Next
<1>9. CASE UNCHANGED vars BY <1>9, <1>a DEF vars
<1> QED BY <1>1, <1>2, <1>3, <1>4, <1>5, <1>6, <1>7, <1>8, <1>9 DEF Next

LEMMA KeyKnownSame == Proved!TypeInv => KeyKnown
  BY DEF Proved!TypeInv, Proved!KeyKnown, KeyKnown, Proved!Proc, Cache!Proc

(* The cache of a running client behaves like the cache on its own, so that*)
(* each theorem of GoKeyCache_proofs holds of it.                          *)
THEOREM CacheBehaves == Spec => Proved!Spec
<1>1. Init => Proved!TypeInv BY CacheConstants, CacheInit, Proved!TypeInvInit
<1>2. Proved!TypeInv /\ [Next]_vars => [Proved!Next]_(Proved!vars) /\ Proved!TypeInv'
  BY CacheConstants, CacheStep, KeyKnownSame, Proved!TypeInvStep
<1> QED BY <1>1, <1>2, CacheInit, PTL DEF Spec, Proved!Spec

(* What the proofs below need of the cache: a load that can be joined is   *)
(* the only one and has no outcome yet, whoever waits, waits for a         *)
(* goroutine, and an answer on its way is no older than the set held.      *)
(* Whatever requests, retries and the background goroutine do to the       *)
(* client's cache, it keeps what KeyCache promises its callers.            *)
THEOREM ClientKeepsKeyCache == Spec => Proved!ImplementsKeyCache
<1>1. Proved!Spec => Proved!ImplementsKeyCache BY CacheConstants, Proved!Refinement
<1> QED BY CacheBehaves, <1>1, PTL

CacheInv ==
  /\ Cache!TypeOK
  /\ \A p \in Cache!Proc : proc[p].pc = "waiting" => proc[p].on \in Cache!Proc
  /\ inflight[Uri] # None => proc[inflight[Uri]].pc \in Cache!Leading
  /\ \A p \in Cache!Proc : proc[p].pc \in Cache!Leading => inflight[Uri] = p
  /\ entries[Uri] # None => entries[Uri].ver <= origin
  /\ \A p \in Cache!Proc : proc[p].pc = "answered" =>
       proc[p].ver <= origin /\ (entries[Uri] # None => entries[Uri].ver <= proc[p].ver)

LEMMA CacheInvHolds == Spec => []CacheInv
<1>1. Proved!Spec => []Proved!TypeOK BY CacheConstants, Proved!TypeCorrect, PTL
<1>2. Proved!Spec => []Proved!FlightInv BY CacheConstants, Proved!FlightInvHolds, PTL
<1>3. Proved!TypeOK => Cache!TypeOK
  BY DEF Proved!TypeOK, Cache!TypeOK, Proved!Entry, Cache!Entry, Proved!Outcome,
         Cache!Outcome, Proved!Goroutine, Cache!Goroutine, Proved!PC, Cache!PC,
         Proved!Leading, Cache!Leading, Proved!Proc, Cache!Proc
<1>4. Proved!FlightInv =>
        /\ \A p \in Cache!Proc : proc[p].pc = "waiting" => proc[p].on \in Cache!Proc
        /\ inflight[Uri] # None => proc[inflight[Uri]].pc \in Cache!Leading
  BY DEF Proved!FlightInv, Proved!RegisteredLead, Proved!WaitersAttended, Proved!Leads,
         Proved!Leading, Cache!Leading, Proved!Proc, Cache!Proc
<1>5. Proved!Spec => []KeyKnown
  BY CacheConstants, Proved!TypeInvHolds, KeyKnownSame, PTL
<1>6. KeyKnown /\ Proved!FlightInv =>
        \A p \in Cache!Proc : proc[p].pc \in Cache!Leading => inflight[Uri] = p
  BY DEF KeyKnown, Proved!FlightInv, Proved!LeadersRegistered, Proved!Leads,
         Proved!Leading, Cache!Leading, Proved!Proc, Cache!Proc
<1>7. Proved!Spec => []Proved!VersionInv BY CacheConstants, Proved!VersionInvHolds, PTL
<1>8. KeyKnown /\ Proved!VersionInv =>
        /\ entries[Uri] # None => entries[Uri].ver <= origin
        /\ \A p \in Cache!Proc : proc[p].pc = "answered" =>
             proc[p].ver <= origin /\ (entries[Uri] # None => entries[Uri].ver <= proc[p].ver)
  BY DEF KeyKnown, Proved!VersionInv, Proved!NewestIsOld, Proved!EntriesAreNewest,
         Proved!AllSound, Proved!Sound, Proved!Proc, Cache!Proc
<1> QED BY CacheBehaves, <1>1, <1>2, <1>3, <1>4, <1>5, <1>6, <1>7, <1>8, PTL DEF CacheInv
-----------------------------------------------------------------------------
(* Types of what the client adds. *)

AuthInv ==
  /\ auth \in [Request -> Auth]
  /\ retired \in [Kid -> Nat \cup {None}]
  /\ origin \in 1 .. MaxVersion

LEMMA BecomesType ==
  ASSUME auth \in [Request -> Auth], NEW r \in Request, NEW stage \in Stage, Becomes(r, stage)
  PROVE  auth' \in [Request -> Auth]
<1>1. At(stage) \in Auth BY DEF At, Auth
<1>2. [auth[r] EXCEPT !.stage = stage] \in Auth BY DEF Auth
<1> QED BY <1>1, <1>2 DEF Becomes

LEMMA StandsInType == ASSUME CacheInv, NEW kid PROVE StandsInUntil(kid) \in Nat \cup {None}
<1>1. Cache!Grace \in Nat BY GoValidationAssumption DEF Cache!Grace
<1> QED BY <1>1 DEF StandsInUntil, CacheInv, Cache!TypeOK, Cache!Entry

(* How a step moves the world.                                             *)
WorldStays == now' = now /\ origin' = origin /\ retired' = retired
WorldMoves == WorldStays \/ Tick \/ RotateKeys

LEMMA CallStays ==
  ASSUME NEW p, Cache!Get(p, Uri) \/ Cache!Refresh(p, Uri)
  PROVE  UNCHANGED <<now, origin, entries, disposed>>
  BY DEF Cache!Get, Cache!Refresh, Cache!LoadSection

(* The steps that neither the world nor a request takes.                   *)
CacheWorks == (\E p \in Cache!Proc : Runs(p)) \/ LoopGoesOn \/ LoopTurns \/ CloseStop

LEMMA WorksStay == CacheWorks => WorldStays /\ disposed' = disposed
  BY DEF CacheWorks, Runs, FetchAnswers, FetchFails, LoadGoesOn, LoopGoesOn, LoopTurns,
         CloseStop, WorldStays, Cache!LoaderAnswers, Cache!LoaderFails, Cache!LoadAfterMiss,
         Cache!LoadSection, Cache!Publish, Cache!Done, Cache!RoundGoesOn,
         Cache!RoundRefresh, Cache!RoundEnds, Cache!RoundStarts, Cache!LoopStops,
         Cache!CloseStop

Asks(r) == Prime(r) \/ (\E kid \in Kid : Authenticate(r, kid)) \/ Handles(r)

LEMMA AsksStay == ASSUME NEW r, Asks(r) PROVE WorldStays /\ entries' = entries
  BY CallStays DEF Asks, Prime, Authenticate, Handles, Primed, CheckFirst, CheckRetry,
                   RetryAfterRefresh, WorldStays, cacheVars

LEMMA Steps ==
  Next <=> \/ \E r \in Request : Asks(r)
           \/ CacheWorks \/ Dispose \/ RotateKeys \/ Tick
  BY DEF Next, Asks, CacheWorks

LEMMA WorldStep == [Next]_vars => WorldMoves
  BY Steps, WorksStay, AsksStay
     DEF WorldMoves, WorldStays, Dispose, Cache!Dispose, vars, cacheVars

LEMMA AuthInvStep == CacheInv /\ AuthInv /\ [Next]_vars => AuthInv'
<1> SUFFICES ASSUME CacheInv, AuthInv, [Next]_vars PROVE AuthInv' OBVIOUS
<1>0. now \in Nat /\ None \notin Nat BY GoValidationAssumption DEF CacheInv, Cache!TypeOK
<1>a. ASSUME WorldStays, auth' \in [Request -> Auth] PROVE AuthInv'
  BY <1>a DEF AuthInv, WorldStays
<1>1. ASSUME NEW r \in Request, Prime(r) PROVE auth' \in [Request -> Auth]
  BY <1>1, BecomesType DEF Prime, AuthInv, Stage
<1>2. ASSUME NEW r \in Request, NEW kid \in Kid, Authenticate(r, kid)
      PROVE  auth' \in [Request -> Auth]
  <2>1. [stage |-> "first", kid |-> kid, began |-> now,
         due |-> Published(kid) /\ ~disposed /\ inflight[Uri] = None,
         until |-> StandsInUntil(kid)] \in Auth
    BY <1>0, StandsInType DEF Auth, Stage
  <2> QED BY <1>2, <2>1 DEF Authenticate, AuthInv
<1>3. ASSUME NEW r \in Request, Handles(r) PROVE auth' \in [Request -> Auth]
  <2>1. \E stage \in Stage : Becomes(r, stage)
    BY <1>3 DEF Handles, Primed, CheckFirst, CheckRetry, Stage
  <2> QED BY <2>1, BecomesType DEF AuthInv
<1>4. ASSUME NEW r \in Request, Asks(r) PROVE AuthInv'
  BY <1>1, <1>2, <1>3, <1>4, <1>a, AsksStay DEF Asks
<1>5. CASE CacheWorks
  <2>1. auth' = auth \/ auth' = [r \in Request |-> [auth[r] EXCEPT !.due = FALSE]]
    BY <1>5 DEF CacheWorks, Runs, FetchAnswers, FetchFails, LoadGoesOn, LoopGoesOn,
                LoopTurns, CloseStop
  <2>2. \A r \in Request : [auth[r] EXCEPT !.due = FALSE] \in Auth BY DEF AuthInv, Auth
  <2>3. auth' \in [Request -> Auth] BY <2>1, <2>2 DEF AuthInv
  <2> QED BY <1>5, <2>3, <1>a, WorksStay
<1>6. CASE Dispose
  <2>1. auth' \in [Request -> Auth] BY <1>6 DEF Dispose, AuthInv, Auth
  <2> QED BY <1>6, <1>a, <2>1 DEF Dispose, Cache!Dispose, WorldStays
<1>7. CASE RotateKeys
  <2>1. auth' \in [Request -> Auth]
    <3>1. ASSUME NEW r \in Request, NEW d \in BOOLEAN, NEW u \in {auth[r].until, None}
          PROVE  [auth[r] EXCEPT !.due = d, !.until = u] \in Auth
      BY DEF AuthInv, Auth
    <3>2. \A r \in Request : auth[r].due \in BOOLEAN BY DEF AuthInv, Auth
    <3>3. auth' = [r \in Request |->
            [auth[r] EXCEPT
              !.due = auth[r].due /\ auth[r].kid \notin KeysOf[origin] \ KeysOf[origin + 1],
              !.until = IF Withdraws(origin + 1, auth[r].kid) THEN None ELSE auth[r].until]]
      BY <1>7 DEF RotateKeys
    <3> QED BY <3>1, <3>2, <3>3
  <2>2. retired' \in [Kid -> Nat \cup {None}] BY <1>7, <1>0 DEF RotateKeys, AuthInv
  <2>a. origin < MaxVersion /\ origin' = origin + 1
    BY <1>7 DEF RotateKeys, Cache!Rotate
  <2>b. origin \in 1 .. MaxVersion /\ MaxVersion \in Nat
    BY GoValidationAssumption DEF AuthInv
  <2>3. origin' \in 1 .. MaxVersion BY ONLY <2>a, <2>b
  <2> QED BY <2>1, <2>2, <2>3 DEF AuthInv
<1>8. CASE Tick BY <1>8 DEF Tick, AuthInv, Cache!Tick
<1>9. CASE UNCHANGED vars BY <1>9 DEF vars, cacheVars, AuthInv
<1> QED BY <1>4, <1>5, <1>6, <1>7, <1>8, <1>9, Steps

LEMMA AuthInvHolds == Spec => []AuthInv
<1>1. Init => AuthInv
  BY GoValidationAssumption DEF Init, AuthInv, Cache!Init, At, Auth, Stage
<1> QED BY <1>1, AuthInvStep, CacheInvHolds, PTL DEF Spec
-----------------------------------------------------------------------------
(* The revocation bound.  What was read of the endpoint stays tied to the  *)
(* withdrawals that came after the reading: an entry to its expiry, a load *)
(* to its start, a call to when its authentication began.  The predicates  *)
(* take the clock t, the endpoint's version v and the withdrawals gone.    *)

(* Whatever version ver had and v has not was withdrawn, at most slack     *)
(* before w.                                                               *)
Trails(ver, w, slack, v, gone) ==
  \A kid \in Kid : kid \in KeysOf[ver] /\ kid \notin KeysOf[v] =>
    gone[kid] # None /\ w <= gone[kid] + slack

Lawful(e, t, v, gone) ==
  /\ KeysOf[e.ver] # {}
  /\ e.expiresAt <= t + TTL
  /\ Trails(e.ver, e.expiresAt, TTL + Latency, v, gone)

InTime(g, t, v, gone) ==
  /\ g.startedAt <= t
  /\ t <= g.startedAt + Latency
  /\ g.pc = "answered" => KeysOf[g.ver] # {} /\ Trails(g.ver, g.startedAt, 0, v, gone)

(* The call a goroutine has made is decided once its load is, and what it  *)
(* is then going to return, or has returned.                               *)
Settled(p) ==
  \/ proc[p].pc \in {"idle", "published"}
  \/ proc[p].pc = "waiting" /\ proc[proc[p].on].pc = "published"
Result(p) == IF proc[p].pc = "waiting" THEN proc[proc[p].on].out ELSE proc[p].out

Asking(r) == auth[r].stage \in {"first", "retry"}

EntryLawful == entries[Uri] # None => Lawful(entries[Uri], now, origin, retired)
OutsLawful  == \A p \in Cache!Proc : Cache!IsValue(proc[p].out) =>
                 Lawful(proc[p].out, now, origin, retired)
LoadsInTime == \A p \in Cache!Proc : proc[p].pc \in Cache!Leading =>
                 InTime(proc[p], now, origin, retired)
CallsInTime == \A r \in Request : Asking(r) =>
                 /\ auth[r].kid \in Kid
                 /\ auth[r].began <= now
                 /\ Settled(r) /\ Cache!IsValue(Result(r)) =>
                      auth[r].began < Result(r).expiresAt + TTL

RevocationInv == EntryLawful /\ OutsLawful /\ LoadsInTime /\ CallsInTime

LEMMA TrailsOn ==
  ASSUME CacheInv, AuthInv, WorldMoves, NEW ver, NEW w \in Nat, NEW slack \in Nat,
         w <= now + slack, Trails(ver, w, slack, origin, retired)
  PROVE  Trails(ver, w, slack, origin', retired')
<1>0. now \in Nat BY DEF CacheInv, Cache!TypeOK
<1>1. CASE WorldStays BY <1>1 DEF WorldStays
<1>2. CASE Tick BY <1>2 DEF Tick, Cache!Tick
<1>3. CASE RotateKeys
  <2>1. /\ origin' = origin + 1
        /\ retired' = [kid \in Kid |-> IF kid \in KeysOf[origin] \ KeysOf[origin + 1]
                                       THEN now ELSE retired[kid]]
    BY <1>3 DEF RotateKeys, Cache!Rotate
  <2> SUFFICES ASSUME NEW kid \in Kid, kid \in KeysOf[ver], kid \notin KeysOf[origin + 1]
               PROVE  retired'[kid] # None /\ w <= retired'[kid] + slack
    BY <2>1 DEF Trails
  <2>2. CASE kid \in KeysOf[origin] BY <2>2, <2>1, <1>0, GoValidationAssumption
  <2>3. CASE kid \notin KeysOf[origin] BY <2>3, <2>1 DEF Trails
  <2> QED BY <2>2, <2>3
<1> QED BY <1>1, <1>2, <1>3 DEF WorldMoves

LEMMA LawfulOn ==
  ASSUME CacheInv, AuthInv, WorldMoves, NEW e \in Cache!Entry,
         Lawful(e, now, origin, retired)
  PROVE  Lawful(e, now', origin', retired')
<1>0. now \in Nat /\ TTL \in Nat /\ Latency \in Nat
  BY GoValidationAssumption DEF CacheInv, Cache!TypeOK
<1>1. e.expiresAt \in Nat BY DEF Cache!Entry
<1>2. now' = now \/ now' = now + 1
  BY DEF WorldMoves, WorldStays, Tick, Cache!Tick, RotateKeys, Cache!Rotate
<1>3. e.expiresAt <= now + (TTL + Latency) BY <1>0, <1>1 DEF Lawful
<1>4. Trails(e.ver, e.expiresAt, TTL + Latency, origin', retired')
  BY <1>0, <1>1, <1>3, TrailsOn DEF Lawful
<1>5. e.expiresAt <= now' + TTL BY <1>0, <1>1, <1>2 DEF Lawful
<1> QED BY <1>4, <1>5 DEF Lawful

LEMMA ValueIsEntry ==
  ASSUME NEW o \in Cache!Outcome, Cache!IsValue(o)
  PROVE  o \in Cache!Entry
  BY DEF Cache!Outcome, Cache!IsValue

(* While the clock or the endpoint moves, nothing else does.               *)
LEMMA WorldAlone ==
  ASSUME Tick \/ RotateKeys
  PROVE  UNCHANGED <<entries, inflight, disposed, proc, newest>>
  BY DEF Tick, Cache!Tick, RotateKeys, Cache!Rotate
-----------------------------------------------------------------------------
(* What can be supplied to a goroutine g: a refusal, the entry held, fresh *)
(* or standing in for a load that failed, or the value that lands.         *)
Supplied(g, o) ==
  \/ disposed /\ o = Refused
  \/ g.pc \in {"idle", "missed"} /\ Cache!Fresh(Uri) /\ o = entries[Uri]
  \/ (\E q \in Cache!Proc : proc[q].pc = "failed") /\ o = Cache!StandIn(Uri)
  \/ \E q \in Cache!Proc : proc[q].pc = "answered" /\ o = Cache!Landing(q)

(* How the leader of a load comes to be.                                   *)
LeadMoves(g, h) ==
  h.pc \in Cache!Leading =>
    \/ h = g
    \/ h.pc = "loading" /\ h.startedAt = now
    \/ /\ g.pc = "loading" /\ h.pc \in {"answered", "failed"} /\ h.startedAt = g.startedAt
       /\ h.pc = "answered" => h.ver = origin /\ HasKeys(origin)
       /\ h.pc = "failed" => \E q \in Cache!Proc : FetchFails(q)

Moves(p) ==
  /\ \/ \E q \in Cache!Proc : proc'[p].out = proc[q].out
     \/ proc'[p].out = None \/ Supplied(proc[p], proc'[p].out)
  /\ Settled(p)' => \/ Settled(p) /\ Result(p)' = Result(p)
                    \/ Supplied(proc[p], Result(p)')
  /\ proc'[p].pc = "missed" => proc[p].pc \in {"idle", "missed"}
  /\ LeadMoves(proc[p], proc'[p])

LEMMA Valueless == ~Cache!IsValue(None) /\ ~Cache!IsValue(Failed) /\ ~Cache!IsValue(Refused)
  BY DEF Cache!IsValue

(* A goroutine becomes x, and nobody waits for what it publishes. *)
LEMMA OneMoves ==
  ASSUME CacheInv, NEW q \in Cache!Proc, NEW x, proc' = [proc EXCEPT ![q] = x],
         proc[q].pc # "published", x.pc # "published",
         x.out \in {proc[q].out, None} \/ Supplied(proc[q], x.out),
         x.pc = "idle" => Supplied(proc[q], x.out),
         x.pc = "waiting" => x.on \in Cache!Proc /\ x.on # q /\ proc[x.on].pc # "published",
         x.pc = "missed" => proc[q].pc \in {"idle", "missed"},
         LeadMoves(proc[q], x)
  PROVE  \A p \in Cache!Proc : Moves(p)
<1>0. proc \in [Cache!Proc -> Cache!Goroutine] BY DEF CacheInv, Cache!TypeOK
<1>1. proc'[q] = x /\ \A p \in Cache!Proc : p # q => proc'[p] = proc[p] BY <1>0
<1>2. Moves(q)
  <2>1. Settled(q)' => Supplied(proc[q], Result(q)') BY <1>0, <1>1 DEF Settled, Result
  <2> QED BY <1>1, <2>1 DEF Moves
<1>3. ASSUME NEW p \in Cache!Proc, p # q PROVE Moves(p)
  <2>1. proc'[p] = proc[p] BY <1>1, <1>3
  <2>2. Settled(p)' => Settled(p) /\ Result(p)' = Result(p)
    <3>1. CASE proc[p].pc = "waiting"
      <4>1. proc[p].on \in Cache!Proc BY <3>1 DEF CacheInv
      <4> QED BY <1>1, <2>1, <3>1, <4>1 DEF Settled, Result
    <3>2. CASE proc[p].pc # "waiting" BY <2>1, <3>2 DEF Settled, Result
    <3> QED BY <3>1, <3>2
  <2> QED BY <2>1, <2>2 DEF Moves, LeadMoves
<1> QED BY <1>2, <1>3

LEMMA NoneMoves ==
  ASSUME CacheInv, UNCHANGED proc
  PROVE  \A p \in Cache!Proc : Moves(p)
  BY DEF Moves, Settled, Result, LeadMoves

(* A goroutine that has asked the cache does not hold an old answer.       *)
Asked(q) == Settled(q)' => Supplied(proc[q], Result(q)')

LEMMA SectionMoves ==
  ASSUME CacheInv, NEW q \in Cache!Proc, NEW force \in BOOLEAN, NEW floor,
         proc[q].pc \in {"idle", "missed"}, Cache!LoadSection(q, Uri, force, floor)
  PROVE  /\ Asked(q) /\ \A p \in Cache!Proc : Moves(p)
         /\ proc'[q].pc # "missed"
<1> DEFINE Goal == /\ Asked(q) /\ \A p \in Cache!Proc : Moves(p)
                   /\ proc'[q].pc # "missed"
<1>0. proc \in [Cache!Proc -> Cache!Goroutine] BY DEF CacheInv, Cache!TypeOK
<1>1. ASSUME NEW x, proc' = [proc EXCEPT ![q] = x], x.pc # "published", x.pc # "missed",
             x.pc = "idle" => Supplied(proc[q], x.out),
             x.pc # "idle" => x.out = None,
             x.pc = "waiting" => x.on \in Cache!Proc /\ x.on # q /\ proc[x.on].pc # "published",
             x.pc \in Cache!Leading => x.pc = "loading" /\ x.startedAt = now
      PROVE  Goal
  <2>1. LeadMoves(proc[q], x) BY <1>1 DEF LeadMoves
  <2>2. proc[q].pc # "published" OBVIOUS
  <2>3. \A p \in Cache!Proc : Moves(p) BY <1>1, <2>1, <2>2, OneMoves
  <2>4. proc'[q] = x /\ \A p \in Cache!Proc : p # q => proc'[p] = proc[p] BY <1>0, <1>1
  <2>5. Settled(q)' => x.pc = "idle" /\ Result(q)' = x.out
    BY <1>1, <2>4 DEF Settled, Result
  <2> QED BY <1>1, <2>3, <2>4, <2>5 DEF Asked
<1>2. ASSUME disposed /\ proc' = [proc EXCEPT ![q] = Cache!Idle(floor, Refused)] PROVE Goal
  <2> DEFINE x == Cache!Idle(floor, Refused)
  <2>1. x.pc = "idle" /\ x.out = Refused BY DEF Cache!Idle
  <2>2. Supplied(proc[q], Refused) BY <1>2 DEF Supplied
  <2> HIDE DEF x, Goal
  <2> QED BY <1>1, <1>2, <2>1, <2>2 DEF Cache!Leading, x
<1>3. ASSUME ~force /\ Cache!Fresh(Uri)
             /\ proc' = [proc EXCEPT ![q] = Cache!Idle(floor, entries[Uri])]
      PROVE  Goal
  <2> DEFINE x == Cache!Idle(floor, entries[Uri])
  <2>1. x.pc = "idle" /\ x.out = entries[Uri] BY DEF Cache!Idle
  <2>2. Supplied(proc[q], entries[Uri]) BY <1>3 DEF Supplied
  <2> HIDE DEF x, Goal
  <2> QED BY <1>1, <1>3, <2>1, <2>2 DEF Cache!Leading, x
<1>4. ASSUME Cache!Joinable(Uri) /\ proc' = [proc EXCEPT ![q] = Cache!Waits(q, Uri, floor)]
      PROVE  Goal
  <2> DEFINE x == Cache!Waits(q, Uri, floor)
  <2>1. x.pc = "waiting" /\ x.on = inflight[Uri] /\ x.out = None
    BY DEF Cache!Waits, Cache!Idle
  <2>2. inflight[Uri] \in Cache!Proc /\ proc[inflight[Uri]].pc \in Cache!Leading
    BY <1>4 DEF Cache!Joinable, CacheInv, Cache!TypeOK
  <2>3. inflight[Uri] # q BY <2>2 DEF Cache!Leading
  <2> HIDE DEF x, Goal
  <2> QED BY <1>1, <1>4, <2>1, <2>2, <2>3 DEF Cache!Leading, x
<1>5. ASSUME proc' = [proc EXCEPT ![q] = Cache!Starts(Uri, floor)] PROVE Goal
  <2> DEFINE x == Cache!Starts(Uri, floor)
  <2>1. x.pc = "loading" /\ x.startedAt = now /\ x.out = None
    BY DEF Cache!Starts, Cache!Idle
  <2> HIDE DEF x, Goal
  <2> QED BY <1>1, <1>5, <2>1 DEF x
<1> HIDE DEF Goal
<1>6. Goal BY <1>2, <1>3, <1>4, <1>5 DEF Cache!LoadSection
<1> QED BY <1>6 DEF Goal

LEMMA GetMoves ==
  ASSUME CacheInv, NEW q \in Request, Cache!Get(q, Uri)
  PROVE  Asked(q) /\ \A p \in Cache!Proc : Moves(p)
<1>0. /\ proc \in [Cache!Proc -> Cache!Goroutine] /\ q \in Cache!Proc
      /\ proc[q].pc = "idle"
  BY DEF CacheInv, Cache!TypeOK, Cache!Proc, Cache!Get
<1>1. CASE Cache!Fresh(Uri)
  <2> DEFINE x == Cache!Idle(newest[Uri], entries[Uri])
  <2>1. x.pc = "idle" /\ x.out = entries[Uri] BY DEF Cache!Idle
  <2>2. Supplied(proc[q], x.out) BY <1>0, <1>1, <2>1 DEF Supplied
  <2>3. proc' = [proc EXCEPT ![q] = x] BY <1>1 DEF Cache!Get
  <2>4. LeadMoves(proc[q], x) BY <2>1 DEF LeadMoves, Cache!Leading
  <2> HIDE DEF x
  <2>5. \A p \in Cache!Proc : Moves(p) BY <1>0, <2>1, <2>2, <2>3, <2>4, OneMoves
  <2> QED BY <1>0, <2>1, <2>2, <2>3, <2>5 DEF Asked, Settled, Result
<1>2. CASE ~Cache!Fresh(Uri)
  <2> DEFINE x == [Cache!Idle(newest[Uri], proc[q].out) EXCEPT !.pc = "missed", !.key = Uri]
  <2>1. x.pc = "missed" /\ x.out = proc[q].out BY DEF Cache!Idle
  <2>2. proc' = [proc EXCEPT ![q] = x] BY <1>0, <1>2 DEF Cache!Get
  <2>3. LeadMoves(proc[q], x) BY <2>1 DEF LeadMoves, Cache!Leading
  <2> HIDE DEF x
  <2>4. \A p \in Cache!Proc : Moves(p) BY <1>0, <2>1, <2>2, <2>3, OneMoves
  <2> QED BY <1>0, <2>1, <2>2, <2>4 DEF Asked, Settled
<1> QED BY <1>1, <1>2

LEMMA RefreshMoves ==
  ASSUME CacheInv, NEW q \in Request, Cache!Refresh(q, Uri)
  PROVE  /\ Asked(q) /\ \A p \in Cache!Proc : Moves(p)
         /\ (Settled(q)' => disposed) /\ proc'[q].pc # "missed"
<1>1. q \in Cache!Proc BY DEF Cache!Proc
<1>2. PICK force \in BOOLEAN : Cache!LoadSection(q, Uri, force, newest[Uri])
  BY DEF Cache!Refresh, Cache!LoadSection
<1>3. proc[q].pc \in {"idle", "missed"} BY DEF Cache!Refresh
<1>4. Asked(q) /\ (\A p \in Cache!Proc : Moves(p)) /\ proc'[q].pc # "missed"
  BY <1>1, <1>2, <1>3, SectionMoves
<1>5. Settled(q)' => disposed
  <2> SUFFICES ASSUME ~disposed PROVE ~Settled(q)' OBVIOUS
  <2>0. proc \in [Cache!Proc -> Cache!Goroutine] BY DEF CacheInv, Cache!TypeOK
  <2>1. CASE Cache!Joinable(Uri)
    <3>1. proc' = [proc EXCEPT ![q] = Cache!Waits(q, Uri, newest[Uri])]
      BY <2>1 DEF Cache!Refresh, Cache!LoadSection
    <3>2. inflight[Uri] \in Cache!Proc /\ proc[inflight[Uri]].pc \in Cache!Leading
      BY <2>1 DEF Cache!Joinable, CacheInv, Cache!TypeOK
    <3> QED BY <1>1, <1>3, <2>0, <3>1, <3>2
            DEF Settled, Cache!Waits, Cache!Idle, Cache!Leading
  <2>2. CASE ~Cache!Joinable(Uri)
    <3>1. proc' = [proc EXCEPT ![q] = Cache!Starts(Uri, newest[Uri])]
      BY <2>2 DEF Cache!Refresh, Cache!LoadSection
    <3> QED BY <1>1, <2>0, <3>1 DEF Settled, Cache!Starts, Cache!Idle
  <2> QED BY <2>1, <2>2
<1> QED BY <1>4, <1>5

LEMMA CallMoves ==
  ASSUME CacheInv, NEW q \in Request, Cache!Get(q, Uri) \/ Cache!Refresh(q, Uri)
  PROVE  Asked(q) /\ \A p \in Cache!Proc : Moves(p)
  BY GetMoves, RefreshMoves

LEMMA LoaderMoves ==
  ASSUME CacheInv, NEW q \in Cache!Proc, FetchAnswers(q) \/ FetchFails(q)
  PROVE  \A p \in Cache!Proc : Moves(p)
<1>0. proc \in [Cache!Proc -> Cache!Goroutine] /\ proc[q].pc = "loading"
  BY DEF CacheInv, Cache!TypeOK, FetchAnswers, FetchFails, Cache!LoaderAnswers,
         Cache!LoaderFails
<1>1. PICK x : /\ proc' = [proc EXCEPT ![q] = x]
               /\ x.pc \in {"answered", "failed"} /\ x.startedAt = proc[q].startedAt
               /\ x.out = proc[q].out
               /\ x.pc = "answered" => x.ver = origin /\ HasKeys(origin)
               /\ x.pc = "failed" => FetchFails(q)
  <2>1. CASE FetchAnswers(q)
    <3> DEFINE x == [proc[q] EXCEPT !.pc = "answered", !.ver = origin]
    <3>1. proc' = [proc EXCEPT ![q] = x]
      BY <1>0, <2>1 DEF FetchAnswers, Cache!LoaderAnswers
    <3>2. /\ x.pc = "answered" /\ x.startedAt = proc[q].startedAt
          /\ x.out = proc[q].out /\ x.ver = origin
      BY <1>0 DEF Cache!Goroutine
    <3> QED BY <2>1, <3>1, <3>2 DEF FetchAnswers
  <2>2. CASE FetchFails(q)
    <3> DEFINE x == [proc[q] EXCEPT !.pc = "failed"]
    <3>1. proc' = [proc EXCEPT ![q] = x]
      BY <1>0, <2>2 DEF FetchFails, Cache!LoaderFails
    <3>2. x.pc = "failed" /\ x.startedAt = proc[q].startedAt /\ x.out = proc[q].out
      BY <1>0 DEF Cache!Goroutine
    <3> QED BY <2>2, <3>1, <3>2
  <2> QED BY <2>1, <2>2
<1>2. LeadMoves(proc[q], x) BY <1>0, <1>1 DEF LeadMoves
<1> QED BY <1>0, <1>1, <1>2, OneMoves

(* What is published goes to the leader and to all who wait for it.        *)
LEMMA PublishMoves ==
  ASSUME CacheInv, KeyKnown, NEW q \in Cache!Proc, Cache!Publish(q)
  PROVE  \A p \in Cache!Proc : Moves(p)
<1>0. proc \in [Cache!Proc -> Cache!Goroutine] /\ proc[q].pc \in {"answered", "failed"}
  BY DEF CacheInv, Cache!TypeOK, Cache!Publish
<1>1. proc[q].key = Uri BY <1>0 DEF KeyKnown
<1>2. PICK o : /\ proc' = [proc EXCEPT ![q].pc = "published", ![q].out = o]
               /\ \A g : Supplied(g, o)
  <2>1. CASE proc[q].pc = "answered"
             /\ proc' = [proc EXCEPT ![q].pc = "published", ![q].out = Cache!Landing(q)]
    BY <2>1 DEF Supplied
  <2>2. CASE proc[q].pc = "failed"
             /\ proc' = [proc EXCEPT ![q].pc = "published", ![q].out = Cache!StandIn(Uri)]
    BY <2>2 DEF Supplied
  <2> QED BY <1>1, <2>1, <2>2 DEF Cache!Publish
<1>3. /\ proc'[q].pc = "published" /\ proc'[q].out = o
      /\ \A p \in Cache!Proc : p # q => proc'[p] = proc[p]
  BY <1>0, <1>2 DEF Cache!Goroutine
<1>4. Moves(q) BY <1>2, <1>3 DEF Moves, Result, LeadMoves, Cache!Leading
<1>5. ASSUME NEW p \in Cache!Proc, p # q PROVE Moves(p)
  <2>1. proc'[p] = proc[p] BY <1>3, <1>5
  <2>2. Settled(p)' => (Settled(p) /\ Result(p)' = Result(p)) \/ Result(p)' = o
    <3>1. CASE proc[p].pc = "waiting"
      <4>1. proc[p].on \in Cache!Proc BY <3>1 DEF CacheInv
      <4> QED BY <1>3, <2>1, <3>1, <4>1 DEF Settled, Result
    <3>2. CASE proc[p].pc # "waiting" BY <2>1, <3>2 DEF Settled, Result
    <3> QED BY <3>1, <3>2
  <2> QED BY <1>2, <2>1, <2>2 DEF Moves, LeadMoves
<1> QED BY <1>4, <1>5

LEMMA DoneMoves ==
  ASSUME CacheInv, NEW q \in Cache!Proc, Cache!Done(q)
  PROVE  \A p \in Cache!Proc : Moves(p)
<1>0. proc \in [Cache!Proc -> Cache!Goroutine] /\ proc[q].pc = "published"
  BY DEF CacheInv, Cache!TypeOK, Cache!Done
<1> SUFFICES ASSUME NEW p \in Cache!Proc PROVE Moves(p) OBVIOUS
<1>1. CASE p = q \/ (proc[p].pc = "waiting" /\ proc[p].on = q)
  <2>1. proc'[p] = Cache!Idle(proc[p].floor, proc[q].out) BY <1>1 DEF Cache!Done
  <2>2. proc'[p].pc = "idle" /\ proc'[p].out = proc[q].out BY <2>1 DEF Cache!Idle
  <2>3. Settled(p) /\ Result(p) = proc[q].out /\ Result(p)' = proc[q].out
    BY <1>0, <1>1, <2>2 DEF Settled, Result
  <2> QED BY <2>2, <2>3 DEF Moves, LeadMoves, Cache!Leading
<1>2. CASE ~(p = q \/ (proc[p].pc = "waiting" /\ proc[p].on = q))
  <2>1. proc'[p] = proc[p] BY <1>2 DEF Cache!Done
  <2>2. ASSUME NEW l \in Cache!Proc, l # q
        PROVE  proc'[l].pc = "published" <=> proc[l].pc = "published"
    BY <2>2 DEF Cache!Done, Cache!Idle
  <2>3. ASSUME NEW l \in Cache!Proc, l # q, proc[l].pc = "published"
        PROVE  proc'[l] = proc[l]
    BY <2>3 DEF Cache!Done
  <2>4. Settled(p)' => Settled(p) /\ Result(p)' = Result(p)
    <3>1. CASE proc[p].pc = "waiting"
      <4>1. proc[p].on \in Cache!Proc /\ proc[p].on # q BY <1>2, <3>1 DEF CacheInv
      <4> QED BY <2>1, <2>2, <2>3, <3>1, <4>1 DEF Settled, Result
    <3>2. CASE proc[p].pc # "waiting" BY <2>1, <3>2 DEF Settled, Result
    <3> QED BY <3>1, <3>2
  <2> QED BY <2>1, <2>4 DEF Moves, LeadMoves
<1> QED BY <1>1, <1>2

LEMMA ProcStep ==
  ASSUME CacheInv, KeyKnown, [Next]_vars
  PROVE  \A p \in Cache!Proc : Moves(p)
<1>1. ASSUME NEW r \in Request, Asks(r) PROVE \A p \in Cache!Proc : Moves(p)
  BY <1>1, CallMoves, NoneMoves
     DEF Asks, Prime, Authenticate, Handles, Primed, CheckFirst, CheckRetry,
         RetryAfterRefresh, cacheVars
<1>2. ASSUME NEW q \in Cache!Proc, Runs(q) PROVE \A p \in Cache!Proc : Moves(p)
  <2>1. CASE Cache!LoadAfterMiss(q)
    <3>1. proc[q].pc = "missed" /\ proc[q].key = Uri
      BY <2>1 DEF Cache!LoadAfterMiss, KeyKnown
    <3>2. PICK force \in BOOLEAN : Cache!LoadSection(q, Uri, force, proc[q].floor)
      BY <2>1, <3>1 DEF Cache!LoadAfterMiss, Cache!LoadSection
    <3> QED BY <3>1, <3>2, SectionMoves
  <2> QED BY <1>2, <2>1, LoaderMoves, PublishMoves, DoneMoves DEF Runs, LoadGoesOn
<1>3. CASE LoopGoesOn
  <2>1. Refresher \in Cache!Proc BY DEF Cache!Proc
  <2>2. CASE Cache!RoundRefresh(Uri)
    <3>1. PICK force \in BOOLEAN : Cache!LoadSection(Refresher, Uri, force, newest[Uri])
      BY <2>2 DEF Cache!RoundRefresh, Cache!LoadSection
    <3>2. proc[Refresher].pc \in {"idle", "missed"} BY <2>2 DEF Cache!RoundRefresh
    <3> QED BY <2>1, <3>1, <3>2, SectionMoves
  <2>3. CASE Cache!RoundEnds BY <2>3, NoneMoves DEF Cache!RoundEnds
  <2> QED BY <1>3, <2>2, <2>3 DEF LoopGoesOn, Cache!RoundGoesOn
<1>4. CASE LoopTurns \/ CloseStop
  BY <1>4, NoneMoves DEF LoopTurns, CloseStop, Cache!RoundStarts, Cache!LoopStops,
                         Cache!CloseStop
<1>5. CASE Dispose \/ RotateKeys \/ Tick
  BY <1>5, NoneMoves, WorldAlone DEF Dispose, Cache!Dispose
<1>6. CASE UNCHANGED vars BY <1>6, NoneMoves DEF vars, cacheVars
<1> QED BY <1>1, <1>2, <1>3, <1>4, <1>5, <1>6, Steps DEF CacheWorks
-----------------------------------------------------------------------------
(* What lands was read while the load ran, so it is lawful, and so is      *)
(* whatever else is supplied.                                              *)
LEMMA LandingLawful ==
  ASSUME CacheInv, AuthInv, LoadsInTime, NEW q \in Cache!Proc, proc[q].pc = "answered"
  PROVE  Lawful(Cache!Landing(q), now, origin, retired)
<1> DEFINE g == proc[q]
<1>0. /\ now \in Nat /\ TTL \in Nat \ {0} /\ Latency \in Nat
      /\ proc \in [Cache!Proc -> Cache!Goroutine]
      /\ None \notin Nat /\ retired \in [Kid -> Nat \cup {None}]
  BY GoValidationAssumption DEF CacheInv, Cache!TypeOK, AuthInv
<1>1. InTime(g, now, origin, retired) BY DEF LoadsInTime, Cache!Leading
<1>2. /\ g.startedAt <= now /\ now <= g.startedAt + Latency
      /\ KeysOf[g.ver] # {} /\ Trails(g.ver, g.startedAt, 0, origin, retired)
  BY <1>1 DEF InTime
<1>3. Cache!Landing(q).ver = g.ver /\ Cache!Landing(q).expiresAt = now + TTL
  BY DEF Cache!Landing
<1>4. g.startedAt \in Nat BY <1>0 DEF Cache!Goroutine
<1>5. Trails(g.ver, now + TTL, TTL + Latency, origin, retired)
  <2> SUFFICES ASSUME NEW kid \in Kid, kid \in KeysOf[g.ver], kid \notin KeysOf[origin]
               PROVE  retired[kid] # None /\ now + TTL <= retired[kid] + (TTL + Latency)
    BY DEF Trails
  <2>1. retired[kid] # None /\ g.startedAt <= retired[kid] + 0 BY <1>2 DEF Trails
  <2>2. retired[kid] \in Nat BY <1>0, <2>1
  <2> HIDE DEF g
  <2> QED BY <1>0, <1>2, <1>4, <2>1, <2>2
<1> HIDE DEF g
<1> QED BY <1>0, <1>2, <1>3, <1>5 DEF Lawful

LEMMA SuppliedValue ==
  ASSUME CacheInv, NEW g, NEW o, Supplied(g, o), Cache!IsValue(o)
  PROVE  /\ \/ entries[Uri] # None /\ o = entries[Uri]
            \/ \E q \in Cache!Proc : proc[q].pc = "answered" /\ o = Cache!Landing(q)
         /\ o \in Cache!Entry /\ now < o.expiresAt + TTL
<1>0. /\ now \in Nat /\ TTL \in Nat \ {0} /\ Cache!Grace = TTL
      /\ entries[Uri] \in Cache!Entry \cup {None}
  BY GoValidationAssumption DEF CacheInv, Cache!TypeOK, Cache!Grace
<1>1. CASE Cache!Fresh(Uri) /\ o = entries[Uri]
  <2>1. o \in Cache!Entry /\ now < o.expiresAt BY <1>0, <1>1 DEF Cache!Fresh
  <2>2. o.expiresAt \in Nat BY <2>1 DEF Cache!Entry
  <2>3. now < o.expiresAt + TTL BY <1>0, <2>1, <2>2
  <2> QED BY <1>1, <2>1, <2>3 DEF Cache!Fresh
<1>2. CASE o = Cache!StandIn(Uri)
  BY <1>0, <1>2, Valueless DEF Cache!StandIn, Cache!InGrace
<1>3. ASSUME NEW q \in Cache!Proc, proc[q].pc = "answered", o = Cache!Landing(q)
      PROVE  o \in Cache!Entry /\ now < o.expiresAt + TTL
  <2>1. proc[q].ver \in Nat BY DEF CacheInv, Cache!TypeOK, Cache!Goroutine
  <2> QED BY <1>0, <1>3, <2>1 DEF Cache!Landing, Cache!Entry
<1> QED BY <1>1, <1>2, <1>3, Valueless DEF Supplied

LEMMA SuppliedLawful ==
  ASSUME CacheInv, AuthInv, EntryLawful, LoadsInTime, NEW g, NEW o, Supplied(g, o),
         Cache!IsValue(o)
  PROVE  Lawful(o, now, origin, retired)
  BY SuppliedValue, LandingLawful DEF EntryLawful

(* The entry stays, is dropped, or is the one that lands. *)
LEMMA EntryStep ==
  ASSUME CacheInv, KeyKnown, [Next]_vars
  PROVE  \/ entries'[Uri] = entries[Uri]
         \/ entries'[Uri] = None /\ Dispose
         \/ \E q \in Cache!Proc : proc[q].pc = "answered" /\ entries'[Uri] = Cache!Landing(q)
<1>0. entries \in [{Uri} -> Cache!Entry \cup {None}] BY DEF CacheInv, Cache!TypeOK
<1>1. ASSUME NEW q \in Cache!Proc, Cache!Publish(q)
      PROVE  \/ entries'[Uri] = entries[Uri]
             \/ proc[q].pc = "answered" /\ entries'[Uri] = Cache!Landing(q)
  <2>1. proc[q].pc # "idle" BY <1>1 DEF Cache!Publish
  <2>2. proc[q].key = Uri BY <2>1 DEF KeyKnown
  <2> QED BY <1>0, <1>1, <2>2 DEF Cache!Publish
<1>2. ASSUME CacheWorks, \A q \in Cache!Proc : ~Cache!Publish(q) PROVE entries' = entries
  BY <1>2 DEF CacheWorks, Runs, FetchAnswers, FetchFails, LoadGoesOn, LoopGoesOn, LoopTurns,
              CloseStop, Cache!LoaderAnswers, Cache!LoaderFails, Cache!LoadAfterMiss,
              Cache!LoadSection, Cache!Done, Cache!RoundGoesOn, Cache!RoundRefresh,
              Cache!RoundEnds, Cache!RoundStarts, Cache!LoopStops, Cache!CloseStop
<1>3. CASE Dispose BY <1>3 DEF Dispose, Cache!Dispose
<1>4. CASE RotateKeys \/ Tick BY <1>4, WorldAlone
<1>5. CASE UNCHANGED vars BY <1>5 DEF vars, cacheVars
<1> QED BY <1>1, <1>2, <1>3, <1>4, <1>5, Steps, AsksStay

LEMMA EntryLawfulStep ==
  CacheInv /\ CacheInv' /\ KeyKnown /\ AuthInv /\ RevocationInv /\ [Next]_vars
    => EntryLawful'
<1> SUFFICES ASSUME CacheInv, CacheInv', KeyKnown, AuthInv, RevocationInv, [Next]_vars,
                    entries'[Uri] # None
             PROVE  Lawful(entries'[Uri], now', origin', retired')
  BY DEF EntryLawful
<1>0. entries'[Uri] \in Cache!Entry BY DEF CacheInv, Cache!TypeOK
<1>1. Lawful(entries'[Uri], now, origin, retired)
  <2>1. CASE entries'[Uri] = entries[Uri] BY <2>1 DEF RevocationInv, EntryLawful
  <2>2. ASSUME NEW q \in Cache!Proc, proc[q].pc = "answered", entries'[Uri] = Cache!Landing(q)
        PROVE  Lawful(entries'[Uri], now, origin, retired)
    BY <2>2, LandingLawful DEF RevocationInv
  <2> QED BY <2>1, <2>2, EntryStep
<1> QED BY <1>0, <1>1, LawfulOn, WorldStep

LEMMA OutsLawfulStep ==
  CacheInv /\ CacheInv' /\ KeyKnown /\ AuthInv /\ RevocationInv /\ [Next]_vars
    => OutsLawful'
<1> SUFFICES ASSUME CacheInv, CacheInv', KeyKnown, AuthInv, RevocationInv, [Next]_vars,
                    NEW p \in Cache!Proc, Cache!IsValue(proc'[p].out)
             PROVE  Lawful(proc'[p].out, now', origin', retired')
  BY DEF OutsLawful, Cache!IsValue
<1>1. proc'[p].out \in Cache!Entry
  BY ValueIsEntry DEF CacheInv, Cache!TypeOK, Cache!Goroutine
<1>2. Lawful(proc'[p].out, now, origin, retired)
  BY ProcStep, SuppliedLawful, Valueless DEF Moves, RevocationInv, OutsLawful
<1> QED BY <1>1, <1>2, LawfulOn, WorldStep

LEMMA LoadsInTimeStep ==
  CacheInv /\ CacheInv' /\ KeyKnown /\ AuthInv /\ RevocationInv /\ [Next]_vars
    => LoadsInTime'
<1> SUFFICES ASSUME CacheInv, CacheInv', KeyKnown, AuthInv, RevocationInv, [Next]_vars,
                    NEW p \in Cache!Proc, proc'[p].pc \in Cache!Leading
             PROVE  InTime(proc'[p], now', origin', retired')
  BY DEF LoadsInTime, Cache!Leading
<1> DEFINE g == proc[p]
           h == proc'[p]
<1>0. /\ now \in Nat /\ Latency \in Nat
      /\ g \in Cache!Goroutine /\ h \in Cache!Goroutine
  BY GoValidationAssumption DEF CacheInv, Cache!TypeOK
<1>1. g.startedAt \in Nat /\ h.startedAt \in Nat BY <1>0 DEF Cache!Goroutine
<1>2. g.pc \in Cache!Leading => InTime(g, now, origin, retired)
  BY DEF RevocationInv, LoadsInTime
<1>3. CASE WorldStays
  <2> SUFFICES InTime(h, now, origin, retired) BY <1>3 DEF WorldStays
  <2>1. CASE h = g BY <1>2, <2>1
  <2>2. CASE h.pc = "loading" /\ h.startedAt = now
    <3> HIDE DEF g, h
    <3> QED BY <1>0, <2>2 DEF InTime
  <2>3. CASE /\ g.pc = "loading" /\ h.pc \in {"answered", "failed"}
             /\ h.startedAt = g.startedAt
             /\ h.pc = "answered" => h.ver = origin /\ HasKeys(origin)
    <3>1. InTime(g, now, origin, retired) BY <1>2, <2>3 DEF Cache!Leading
    <3> HIDE DEF g, h
    <3> QED BY <2>3, <3>1 DEF InTime, Trails, HasKeys
  <2> QED BY <2>1, <2>2, <2>3, ProcStep DEF Moves, LeadMoves
<1>4. CASE Tick \/ RotateKeys
  <2>1. h = g BY <1>4, WorldAlone
  <2>2. InTime(g, now, origin, retired) BY <1>2, <2>1
  <2>3. g.startedAt <= now' /\ now' <= g.startedAt + Latency
    <3>1. g.startedAt <= now /\ now <= g.startedAt + Latency BY <2>2 DEF InTime
    <3>2. CASE RotateKeys
      <4>1. now' = now BY <3>2 DEF RotateKeys, Cache!Rotate
      <4> QED BY <3>1, <4>1
    <3>3. CASE Tick
      <4>1. now' = now + 1 /\ now < g.startedAt + Latency
        BY <2>1, <3>3 DEF Tick, Cache!Tick
      <4> HIDE DEF g
      <4> QED BY <1>0, <1>1, <3>1, <4>1
    <3> QED BY <1>4, <3>2, <3>3
  <2>4. ASSUME g.pc = "answered"
        PROVE  KeysOf[g.ver] # {} /\ Trails(g.ver, g.startedAt, 0, origin', retired')
    <3>1. /\ g.startedAt <= now + 0 /\ KeysOf[g.ver] # {}
          /\ Trails(g.ver, g.startedAt, 0, origin, retired)
      BY <1>0, <1>1, <2>2, <2>4 DEF InTime
    <3> HIDE DEF g
    <3> QED BY <1>1, <1>4, <3>1, TrailsOn DEF WorldMoves
  <2> QED BY <2>1, <2>3, <2>4 DEF InTime
<1> QED BY <1>3, <1>4, WorldStep DEF WorldMoves

(* What the steps that are not a request's own leave of it.                *)
Keeps(r) == /\ auth'[r].kid = auth[r].kid /\ auth'[r].began = auth[r].began
            /\ auth'[r].due => auth[r].due
            /\ auth'[r].until \in {auth[r].until, None}

SameAuth(r) == auth'[r].stage = auth[r].stage /\ Keeps(r)

LEMMA BecomesNext ==
  ASSUME AuthInv, NEW q \in Request, NEW stage, Becomes(q, stage)
  PROVE  /\ auth'[q].stage = stage
         /\ stage = "retry" => Keeps(q)
         /\ \A r \in Request : r # q => SameAuth(r)
  BY DEF AuthInv, Becomes, At, Auth, SameAuth, Keeps

LEMMA AuthStep ==
  ASSUME AuthInv, [Next]_vars, NEW r \in Request
  PROVE  SameAuth(r) \/ Asks(r)
<1>1. ASSUME NEW q \in Request, q # r, Asks(q) PROVE SameAuth(r)
  <2>1. ASSUME NEW kid \in Kid, Authenticate(q, kid) PROVE SameAuth(r)
    BY <1>1, <2>1 DEF Authenticate, AuthInv, SameAuth, Keeps
  <2>2. Prime(q) \/ Handles(q) => \E stage \in Stage : Becomes(q, stage)
    BY DEF Prime, Handles, Primed, CheckFirst, CheckRetry, Stage
  <2> QED BY <1>1, <2>1, <2>2, BecomesNext DEF Asks
<1>2. CASE CacheWorks
  <2>1. auth'[r] \in {auth[r], [auth[r] EXCEPT !.due = FALSE]}
    BY <1>2 DEF CacheWorks, Runs, FetchAnswers, FetchFails, LoadGoesOn, LoopGoesOn,
                LoopTurns, CloseStop
  <2>2. auth[r] \in Auth BY DEF AuthInv
  <2> QED BY <2>1, <2>2 DEF SameAuth, Keeps, Auth
<1>3. CASE Dispose
  <2>1. auth'[r] = [auth[r] EXCEPT !.due = FALSE, !.until = None] BY <1>3 DEF Dispose
  <2>2. auth[r] \in Auth BY DEF AuthInv
  <2> QED BY <2>1, <2>2 DEF SameAuth, Keeps, Auth
<1>4. CASE RotateKeys
  <2>1. PICK d, u : /\ auth'[r] = [auth[r] EXCEPT !.due = d, !.until = u]
                    /\ d => auth[r].due
                    /\ u \in {auth[r].until, None}
    BY <1>4 DEF RotateKeys
  <2>2. auth[r] \in Auth BY DEF AuthInv
  <2> QED BY <2>1, <2>2 DEF SameAuth, Keeps, Auth
<1>5. CASE Tick \/ UNCHANGED vars BY <1>5 DEF Tick, vars, SameAuth, Keeps
<1> QED BY <1>1, <1>2, <1>3, <1>4, <1>5, Steps

(* A request whose key the first set did not have asks once more.          *)
Retries(r) == CheckFirst(r) /\ Cache!Refresh(r, Uri) /\ auth'[r].stage = "retry"

(* Whoever is asking has just begun, or is asking still, or once more.     *)
LEMMA AskingStep ==
  ASSUME AuthInv, [Next]_vars, NEW r \in Request, Asking(r)'
  PROVE  \/ Asking(r) /\ SameAuth(r) /\ ~Asks(r)
         \/ Asking(r) /\ Keeps(r) /\ Retries(r)
         \/ \E kid \in Kid : Authenticate(r, kid)
<1>1. CASE ~Asks(r) BY <1>1, AuthStep DEF SameAuth, Asking
<1>2. ASSUME NEW stage \in Stage, Becomes(r, stage) PROVE stage \in {"first", "retry"}
  BY <1>2, BecomesNext DEF Asking
<1>3. ~Prime(r) /\ ~Primed(r) /\ ~CheckRetry(r)
  BY <1>2 DEF Prime, Primed, CheckRetry, Stage
<1>4. CASE CheckFirst(r)
  <2>1. RetryAfterRefresh(r) /\ Becomes(r, "retry") BY <1>2, <1>4 DEF CheckFirst, Stage
  <2>2. auth'[r].stage = "retry" /\ Keeps(r) BY <2>1, BecomesNext
  <2> QED BY <1>4, <2>1, <2>2 DEF CheckFirst, Asking, Retries, RetryAfterRefresh
<1> QED BY <1>1, <1>3, <1>4 DEF Asks, Handles

LEMMA CallsInTimeStep ==
  CacheInv /\ CacheInv' /\ KeyKnown /\ AuthInv /\ RevocationInv /\ [Next]_vars
    => CallsInTime'
<1> SUFFICES ASSUME CacheInv, CacheInv', KeyKnown, AuthInv, RevocationInv, [Next]_vars,
                    NEW r \in Request, Asking(r)'
             PROVE  /\ auth'[r].kid \in Kid /\ auth'[r].began <= now'
                    /\ Settled(r)' /\ Cache!IsValue(Result(r)') =>
                         auth'[r].began < Result(r)'.expiresAt + TTL
  BY DEF CallsInTime, Asking, Cache!IsValue
<1>0. /\ now \in Nat /\ auth \in [Request -> Auth] /\ auth[r].began \in Nat
      /\ TTL \in Nat /\ r \in Cache!Proc
  BY GoValidationAssumption DEF CacheInv, Cache!TypeOK, AuthInv, Auth, Cache!Proc
<1>1. now' \in Nat /\ now <= now'
  <2>1. now' = now \/ now' = now + 1
    BY WorldStep DEF WorldMoves, WorldStays, Tick, Cache!Tick, RotateKeys, Cache!Rotate
  <2> QED BY <1>0, <2>1
<1>2. ASSUME Supplied(proc[r], Result(r)'), Cache!IsValue(Result(r)'), NEW b \in Nat, b <= now
      PROVE  b < Result(r)'.expiresAt + TTL
  <2>1. now < Result(r)'.expiresAt + TTL /\ Result(r)' \in Cache!Entry
    BY <1>2, SuppliedValue
  <2>2. Result(r)'.expiresAt \in Nat BY <2>1 DEF Cache!Entry
  <2> QED BY <1>0, <1>2, <2>1, <2>2
<1>3. CASE Asking(r) /\ Keeps(r)
  <2>1. /\ auth[r].kid \in Kid /\ auth[r].began <= now
        /\ Settled(r) /\ Cache!IsValue(Result(r)) => auth[r].began < Result(r).expiresAt + TTL
    BY <1>3 DEF RevocationInv, CallsInTime
  <2>a. auth'[r].kid = auth[r].kid /\ auth'[r].began = auth[r].began BY <1>3 DEF Keeps
  <2>2. auth'[r].began <= now' BY <1>0, <1>1, <2>a, <2>1
  <2>3. CASE Settled(r) /\ Result(r)' = Result(r) BY <2>a, <2>1, <2>2, <2>3
  <2>4. CASE Supplied(proc[r], Result(r)') BY <1>0, <1>2, <2>a, <2>1, <2>2, <2>4
  <2>5. CASE ~Settled(r)' BY <2>a, <2>1, <2>2, <2>5
  <2> QED BY <1>0, <2>3, <2>4, <2>5, ProcStep DEF Moves
<1>4. ASSUME NEW kid \in Kid, Authenticate(r, kid)
      PROVE  /\ auth'[r].kid \in Kid /\ auth'[r].began <= now'
             /\ Settled(r)' /\ Cache!IsValue(Result(r)') =>
                  auth'[r].began < Result(r)'.expiresAt + TTL
  <2>1. auth'[r].kid = kid /\ auth'[r].began = now BY <1>0, <1>4 DEF Authenticate
  <2>2. Asked(r) BY <1>4, CallMoves DEF Authenticate
  <2> QED BY <1>0, <1>1, <1>2, <2>1, <2>2 DEF Asked
<1> QED BY <1>3, <1>4, AskingStep DEF SameAuth

LEMMA KeyKnownHolds == Spec => []KeyKnown
<1>1. Proved!Spec => []Proved!TypeInv BY CacheConstants, Proved!TypeInvHolds, PTL
<1> QED BY CacheBehaves, <1>1, KeyKnownSame, PTL

LEMMA RevocationInvHolds == Spec => []RevocationInv
<1>1. Init => RevocationInv
  <2> SUFFICES ASSUME Init PROVE RevocationInv OBVIOUS
  <2>1. \A p \in Cache!Proc : proc[p].pc = "idle" /\ proc[p].out = None
    BY DEF Init, Cache!Init, Cache!Idle
  <2>2. entries[Uri] = None BY DEF Init, Cache!Init
  <2>3. \A r \in Request : ~Asking(r) BY DEF Init, At, Asking
  <2> QED BY <2>1, <2>2, <2>3, Valueless
          DEF RevocationInv, EntryLawful, OutsLawful, LoadsInTime, CallsInTime, Cache!Leading
<1>2. CacheInv /\ CacheInv' /\ KeyKnown /\ AuthInv /\ RevocationInv /\ [Next]_vars
        => RevocationInv'
  BY EntryLawfulStep, OutsLawfulStep, LoadsInTimeStep, CallsInTimeStep DEF RevocationInv
<1> QED BY <1>1, <1>2, CacheInvHolds, KeyKnownHolds, AuthInvHolds, PTL DEF Spec

(* Every reachable state of the client and of the requests over it is well *)
(* typed, and no set without keys is ever handed out: the fetch refuses it.*)
THEOREM TypeCorrect == Spec => []TypeOK
<1>1. CacheInv /\ AuthInv /\ RevocationInv => TypeOK
  BY DEF CacheInv, AuthInv, RevocationInv, OutsLawful, Lawful, TypeOK, Cache!Proc
<1> QED BY <1>1, CacheInvHolds, AuthInvHolds, RevocationInvHolds, PTL

(* A step that decides a request checks what its call was answered. *)
LEMMA DecideStep ==
  ASSUME AuthInv, [Next]_vars, NEW r \in Request, NEW stages,
         stages \cap {"idle", "priming", "first", "retry"} = {}, Decides(r, stages)
  PROVE  CheckFirst(r) \/ CheckRetry(r)
<1>1. auth[r].stage \in {"first", "retry"} /\ auth'[r].stage \in stages BY DEF Decides
<1>2. ~SameAuth(r) BY <1>1 DEF SameAuth
<1>3. ~Prime(r) /\ ~Primed(r)
  BY <1>1, BecomesNext DEF Prime, Primed, Pending
<1>4. ASSUME NEW kid \in Kid, Authenticate(r, kid) PROVE FALSE
  BY <1>1, <1>4 DEF Authenticate, Pending
<1> QED BY <1>2, <1>3, <1>4, AuthStep DEF Asks, Handles

LEMMA AcceptStep ==
  ASSUME AuthInv, [Next]_vars, NEW r \in Request, Decides(r, {"accepted"})
  PROVE  Returned(r) /\ Obtained(r) /\ Matches(r)
<1>1. auth'[r].stage = "accepted" BY DEF Decides
<1>2. CheckFirst(r) \/ CheckRetry(r) BY DecideStep
<1>3. CASE CheckFirst(r) BY <1>1, <1>3, BecomesNext DEF CheckFirst
<1>4. CASE CheckRetry(r) BY <1>1, <1>4, BecomesNext DEF CheckRetry
<1> QED BY <1>2, <1>3, <1>4

(* However long the client runs and whatever else happens, a key that was  *)
(* withdrawn is accepted only by an authentication that began less than    *)
(* two TTLs and one load after the withdrawal: a load cannot be joined any *)
(* more once its outcome is decided.                                       *)
THEOREM RevocationBoundTheorem == Spec => RevocationBound
<1>1. ASSUME CacheInv, AuthInv, RevocationInv, [Next]_vars, NEW r \in Request,
             Decides(r, {"accepted"}), ~Published(auth[r].kid)
      PROVE  /\ retired[auth[r].kid] # None
             /\ auth[r].began < retired[auth[r].kid] + TTL + TTL + Latency
  <2> DEFINE kid == auth[r].kid
             e   == proc[r].out
  <2>1. proc[r].pc = "idle" /\ Cache!IsValue(e) /\ kid \in KeysOf[e.ver] /\ Asking(r)
    BY <1>1, AcceptStep DEF Returned, Obtained, Matches, Decides, Asking
  <2>2. r \in Cache!Proc BY DEF Cache!Proc
  <2>3. kid \in Kid /\ auth[r].began < e.expiresAt + TTL
    BY <1>1, <2>1 DEF RevocationInv, CallsInTime, Settled, Result
  <2>4. Lawful(e, now, origin, retired)
    BY <1>1, <2>1, <2>2 DEF RevocationInv, OutsLawful
  <2>5. retired[kid] # None /\ e.expiresAt <= retired[kid] + (TTL + Latency)
    BY <1>1, <2>1, <2>3, <2>4 DEF Lawful, Trails, Published
  <2>6. e.expiresAt \in Nat
    BY <1>1, <2>1, <2>2, ValueIsEntry DEF CacheInv, Cache!TypeOK, Cache!Goroutine, Cache!Entry
  <2>7. retired[kid] \in Nat /\ auth[r].began \in Nat /\ TTL \in Nat /\ Latency \in Nat
    BY <1>1, <2>3, <2>5, GoValidationAssumption DEF AuthInv, Auth
  <2> HIDE DEF kid, e
  <2>8. auth[r].began < retired[kid] + TTL + TTL + Latency
    BY <2>3, <2>5, <2>6, <2>7
  <2> QED BY <2>5, <2>8 DEF kid
<1>2. CacheInv /\ AuthInv /\ RevocationInv /\ [Next]_vars
        => [\A r \in Request :
              Decides(r, {"accepted"}) /\ ~Published(auth[r].kid) =>
                /\ retired[auth[r].kid] # None
                /\ auth[r].began < retired[auth[r].kid] + TTL + TTL + Latency]_vars
  BY <1>1
<1> QED BY <1>2, CacheInvHolds, AuthInvHolds, RevocationInvHolds, PTL
        DEF Spec, RevocationBound
-----------------------------------------------------------------------------
(* What an authentication is owed.  DueInv: while it is due, whatever can  *)
(* be supplied to its call is a set, and one with its key once it asks     *)
(* again.  SparedInv: while the set held when it began may stand in, that  *)
(* set or a later one is there, and all of them have its key.              *)

Loaded(kid) ==
  \A p \in Cache!Proc : proc[p].pc \in Cache!Leading =>
    \/ proc[p].pc = "loading"
    \/ proc[p].pc = "answered" /\ kid \in KeysOf[proc[p].ver]

DueInv ==
  \A r \in Request : Asking(r) /\ auth[r].due =>
    /\ ~disposed /\ Published(auth[r].kid) /\ Loaded(auth[r].kid)
    /\ Settled(r) => Cache!IsValue(Result(r))
    /\ auth[r].stage = "retry" =>
         /\ proc[r].pc # "missed"
         /\ Settled(r) => auth[r].kid \in KeysOf[Result(r).ver]

Spared(r) == Asking(r) /\ auth[r].until # None /\ now < auth[r].until

SparedInv ==
  \A r \in Request : Spared(r) =>
    /\ ~disposed /\ entries[Uri] # None
    /\ auth[r].until <= entries[Uri].expiresAt + TTL
    /\ \A v \in Nat : entries[Uri].ver <= v /\ v <= origin => ~Withdraws(v, auth[r].kid)
    /\ Settled(r) => Cache!IsValue(Result(r)) /\ auth[r].kid \in KeysOf[Result(r).ver]

LEMMA DisposedStep == [Next]_vars => disposed' = disposed \/ Dispose
<1>1. ASSUME NEW r \in Request, Asks(r) PROVE disposed' = disposed
  BY <1>1, CallStays DEF Asks, Prime, Authenticate, Handles, Primed, CheckFirst, CheckRetry,
                         RetryAfterRefresh, cacheVars
<1> QED BY <1>1, Steps, WorksStay, WorldAlone DEF vars, cacheVars

(* A request between two calls is left alone by everybody else. *)
LEMMA IdleStays ==
  ASSUME CacheInv, [Next]_vars, NEW r \in Request, proc[r].pc = "idle", ~Asks(r)
  PROVE  proc'[r] = proc[r]
<1>0. proc \in [Cache!Proc -> Cache!Goroutine] /\ r \in Cache!Proc /\ r # Refresher
  BY GoValidationAssumption DEF CacheInv, Cache!TypeOK, Cache!Proc
<1>1. ASSUME NEW q \in Request, q # r, Asks(q) PROVE proc'[r] = proc[r]
  BY <1>0, <1>1 DEF Asks, Prime, Authenticate, Handles, Primed, CheckFirst, CheckRetry,
     RetryAfterRefresh, cacheVars, Cache!Get, Cache!Refresh, Cache!LoadSection
<1>2. ASSUME NEW q \in Cache!Proc, Runs(q) PROVE proc'[r] = proc[r]
  BY <1>0, <1>2 DEF Runs, FetchAnswers, FetchFails, LoadGoesOn, Cache!LoaderAnswers,
     Cache!LoaderFails, Cache!LoadAfterMiss, Cache!LoadSection, Cache!Publish, Cache!Done
<1>3. CASE LoopGoesOn
  BY <1>0, <1>3 DEF LoopGoesOn, Cache!RoundGoesOn, Cache!RoundRefresh, Cache!RoundEnds,
     Cache!LoadSection
<1>4. CASE LoopTurns \/ CloseStop
  BY <1>4 DEF LoopTurns, CloseStop, Cache!RoundStarts, Cache!LoopStops, Cache!CloseStop
<1>5. CASE Dispose \/ RotateKeys \/ Tick \/ UNCHANGED vars
  BY <1>5, WorldAlone DEF Dispose, Cache!Dispose, vars, cacheVars
<1> QED BY <1>1, <1>2, <1>3, <1>4, <1>5, Steps DEF CacheWorks

(* What ends a debt. *)
LEMMA DebtEnds ==
  ASSUME AuthInv, NEW r \in Request
  PROVE  /\ (\E q \in Cache!Proc : FetchFails(q)) => ~auth'[r].due
         /\ Dispose => ~auth'[r].due /\ auth'[r].until = None
         /\ RotateKeys /\ auth'[r].due => auth[r].kid \notin KeysOf[origin] \ KeysOf[origin + 1]
         /\ RotateKeys /\ auth'[r].until # None => ~Withdraws(origin + 1, auth[r].kid)
<1>1. auth[r] \in Auth BY DEF AuthInv
<1>2. (\E q \in Cache!Proc : FetchFails(q)) => ~auth'[r].due BY <1>1 DEF FetchFails, Auth
<1>3. Dispose => ~auth'[r].due /\ auth'[r].until = None BY <1>1 DEF Dispose, Auth
<1>4. CASE RotateKeys
  <2>1. auth'[r] = [auth[r] EXCEPT
          !.due = auth[r].due /\ auth[r].kid \notin KeysOf[origin] \ KeysOf[origin + 1],
          !.until = IF Withdraws(origin + 1, auth[r].kid) THEN None ELSE auth[r].until]
    BY <1>4 DEF RotateKeys
  <2> QED BY <1>1, <1>2, <1>3, <2>1 DEF Auth
<1> QED BY <1>2, <1>3, <1>4

LEMMA LoadedOn ==
  ASSUME CacheInv, KeyKnown, [Next]_vars, NEW kid, Loaded(kid), Published(kid),
         \A q \in Cache!Proc : ~FetchFails(q)
  PROVE  Loaded(kid)'
<1> SUFFICES ASSUME NEW p \in Cache!Proc, proc'[p].pc \in Cache!Leading
             PROVE  \/ proc'[p].pc = "loading"
                    \/ proc'[p].pc = "answered" /\ kid \in KeysOf[proc'[p].ver]
  BY DEF Loaded, Cache!Leading
<1>1. LeadMoves(proc[p], proc'[p]) BY ProcStep DEF Moves
<1> QED BY <1>1 DEF LeadMoves, Loaded, Published

(* While the endpoint has the key and no load fails, whatever is supplied  *)
(* is a set, and unless it was held already, one with the key.             *)
LEMMA DueSupplied ==
  ASSUME CacheInv, ~disposed, NEW kid, Loaded(kid), NEW g, NEW o, Supplied(g, o)
  PROVE  /\ Cache!IsValue(o)
         /\ g.pc \notin {"idle", "missed"} => kid \in KeysOf[o.ver]
<1>0. /\ entries[Uri] \in Cache!Entry \cup {None} /\ now \in Nat /\ TTL \in Nat
      /\ proc \in [Cache!Proc -> Cache!Goroutine]
      /\ \A e \in Cache!Entry : Cache!IsValue(e)
  BY GoValidationAssumption DEF CacheInv, Cache!TypeOK, Cache!IsValue, Cache!Entry
<1>1. CASE g.pc \in {"idle", "missed"} /\ Cache!Fresh(Uri) /\ o = entries[Uri]
  BY <1>0, <1>1 DEF Cache!Fresh
<1>2. ASSUME NEW q \in Cache!Proc, proc[q].pc = "answered", o = Cache!Landing(q)
      PROVE  Cache!IsValue(o) /\ kid \in KeysOf[o.ver]
  <2>1. kid \in KeysOf[proc[q].ver] BY <1>2 DEF Loaded, Cache!Leading
  <2>2. o \in Cache!Entry /\ o.ver = proc[q].ver
    BY <1>0, <1>2 DEF Cache!Landing, Cache!Entry, Cache!Goroutine
  <2> QED BY <1>0, <2>1, <2>2
<1>3. \A q \in Cache!Proc : proc[q].pc # "failed" BY DEF Loaded, Cache!Leading
<1> QED BY <1>1, <1>2, <1>3 DEF Supplied

LEMMA DueInvStep ==
  CacheInv /\ CacheInv' /\ KeyKnown /\ AuthInv /\ DueInv /\ [Next]_vars => DueInv'
<1> SUFFICES ASSUME CacheInv, CacheInv', KeyKnown, AuthInv, DueInv, [Next]_vars,
                    NEW r \in Request, Asking(r)', auth'[r].due
             PROVE  /\ ~disposed' /\ Published(auth[r].kid)' /\ Loaded(auth[r].kid)'
                    /\ Settled(r)' => Cache!IsValue(Result(r)')
                    /\ auth'[r].stage = "retry" =>
                         /\ proc'[r].pc # "missed"
                         /\ Settled(r)' => auth'[r].kid \in KeysOf[Result(r)'.ver]
  BY DEF DueInv, Asking, Cache!IsValue
<1>0. r \in Cache!Proc /\ Moves(r) BY ProcStep DEF Cache!Proc
(* The world is no obstacle, if it was none. *)
<1>1. ASSUME ~disposed, NEW kid, kid = auth'[r].kid, Published(kid), Loaded(kid),
             RotateKeys => kid = auth[r].kid
      PROVE  ~disposed' /\ Published(auth[r].kid)' /\ Loaded(auth[r].kid)'
  <2>1. ~disposed' BY <1>1, DisposedStep, DebtEnds
  <2>2. kid \in KeysOf[origin']
    <3>1. CASE RotateKeys
      <4>1. origin' = origin + 1 BY <3>1 DEF RotateKeys, Cache!Rotate
      <4>2. kid \in KeysOf[origin + 1] BY <1>1, <3>1, DebtEnds DEF Published
      <4> QED BY <4>1, <4>2
    <3>2. CASE ~RotateKeys
      <4>1. origin' = origin BY <3>2, WorldStep DEF WorldMoves, WorldStays, Tick, Cache!Tick
      <4> QED BY <1>1, <4>1 DEF Published
    <3> QED BY <3>1, <3>2
  <2>3. Loaded(kid)' BY <1>1, LoadedOn, DebtEnds
  <2> QED BY <1>1, <2>1, <2>2, <2>3 DEF Published, Loaded
<1>2. ASSUME Asking(r), Keeps(r)
      PROVE  /\ auth[r].due /\ ~disposed /\ Loaded(auth[r].kid)
             /\ ~disposed' /\ Published(auth[r].kid)' /\ Loaded(auth[r].kid)'
  BY <1>1, <1>2 DEF Keeps, DueInv
<1>3. CASE Asking(r) /\ SameAuth(r) /\ ~Asks(r)
  <2>1. /\ auth'[r].stage = auth[r].stage /\ auth'[r].kid = auth[r].kid
        /\ ~disposed /\ Loaded(auth[r].kid) /\ auth[r].due
    BY <1>2, <1>3 DEF SameAuth, Keeps
  <2>2. /\ Settled(r) => Cache!IsValue(Result(r))
        /\ auth[r].stage = "retry" =>
             /\ proc[r].pc # "missed"
             /\ Settled(r) => auth[r].kid \in KeysOf[Result(r).ver]
    BY <1>3, <2>1 DEF DueInv
  <2>3. Settled(r)' => \/ Settled(r) /\ Result(r)' = Result(r)
                       \/ Supplied(proc[r], Result(r)')
    BY <1>0 DEF Moves
  <2>4. Settled(r)' => Cache!IsValue(Result(r)') BY <2>1, <2>2, <2>3, DueSupplied
  <2>5. ASSUME auth[r].stage = "retry", proc[r].pc = "idle"
        PROVE  /\ proc'[r].pc # "missed"
               /\ auth[r].kid \in KeysOf[Result(r)'.ver]
    <3>1. proc'[r] = proc[r] BY <1>3, <2>5, IdleStays
    <3> QED BY <2>2, <2>5, <3>1 DEF Settled, Result
  <2>6. ASSUME auth[r].stage = "retry", proc[r].pc # "idle"
        PROVE  /\ proc'[r].pc # "missed"
               /\ Settled(r)' => auth[r].kid \in KeysOf[Result(r)'.ver]
    <3>1. proc[r].pc \notin {"idle", "missed"} BY <2>2, <2>6
    <3>2. proc'[r].pc # "missed" BY <1>0, <3>1 DEF Moves
    <3>3. Settled(r)' => auth[r].kid \in KeysOf[Result(r)'.ver]
      BY <2>1, <2>2, <2>3, <2>6, <3>1, DueSupplied
    <3> QED BY <3>2, <3>3
  <2> QED BY <1>2, <1>3, <2>1, <2>4, <2>5, <2>6 DEF SameAuth
<1>4. CASE Asking(r) /\ Keeps(r) /\ Retries(r)
  <2>1. (Settled(r)' => disposed) /\ proc'[r].pc # "missed"
    BY <1>4, RefreshMoves DEF Retries
  <2> QED BY <1>2, <1>4, <2>1
<1>5. ASSUME NEW kid \in Kid, Authenticate(r, kid)
      PROVE  /\ ~disposed' /\ Published(auth[r].kid)' /\ Loaded(auth[r].kid)'
             /\ Settled(r)' => Cache!IsValue(Result(r)')
             /\ auth'[r].stage # "retry"
  <2>1. /\ auth'[r].kid = kid /\ auth'[r].stage = "first"
        /\ Published(kid) /\ ~disposed /\ inflight[Uri] = None
    BY <1>5 DEF Authenticate, AuthInv
  <2>2. Loaded(kid)
    <3>1. None \notin Cache!Proc BY GoValidationAssumption DEF Cache!Proc
    <3> QED BY <2>1, <3>1 DEF Loaded, CacheInv
  <2>3. ~RotateKeys
    <3>1. origin \in Nat BY DEF CacheInv, Cache!TypeOK
    <3>2. origin' = origin BY <1>5, CallStays DEF Authenticate
    <3>3. RotateKeys => origin' = origin + 1 BY DEF RotateKeys, Cache!Rotate
    <3> QED BY <3>1, <3>2, <3>3
  <2>4. Settled(r)' => Supplied(proc[r], Result(r)')
    BY <1>5, CallMoves DEF Asked, Authenticate
  <2> QED BY <1>1, <2>1, <2>2, <2>3, <2>4, DueSupplied
<1> QED BY <1>3, <1>4, <1>5, AskingStep

LEMMA DueInvHolds == Spec => []DueInv
<1>1. Init => DueInv BY DEF Init, At, Asking, DueInv
<1> QED BY <1>1, DueInvStep, CacheInvHolds, KeyKnownHolds, AuthInvHolds, PTL DEF Spec

(* A rotation is picked up: whoever presents a key that the endpoint       *)
(* publishes all along is accepted, at the first look or, refreshed, at the*)
(* second, whatever other requests and the refresher do meanwhile.         *)
THEOREM RotationPickedUpTheorem == Spec => RotationPickedUp
<1>1. ASSUME AuthInv, DueInv, [Next]_vars, NEW r \in Request,
             Decides(r, {"rejected", "unavailable"})
      PROVE  ~auth[r].due
  <2> SUFFICES ASSUME auth[r].due PROVE FALSE OBVIOUS
  <2>1. auth'[r].stage \in {"rejected", "unavailable"} /\ Asking(r)
    BY <1>1 DEF Decides, Asking
  <2>2. CheckFirst(r) \/ CheckRetry(r) BY <1>1, DecideStep
  <2>3. Returned(r) BY <2>2 DEF CheckFirst, CheckRetry
  <2>4. Obtained(r) /\ (auth[r].stage = "retry" => Matches(r))
    BY <1>1, <2>1, <2>3 DEF DueInv, Returned, Settled, Result, Obtained, Matches
  <2>5. CASE CheckFirst(r) BY <1>1, <2>1, <2>4, <2>5, BecomesNext DEF CheckFirst
  <2>6. CASE CheckRetry(r) BY <1>1, <2>1, <2>4, <2>6, BecomesNext DEF CheckRetry
  <2> QED BY <2>2, <2>5, <2>6
<1>2. AuthInv /\ DueInv /\ [Next]_vars
        => [\A r \in Request : Decides(r, {"rejected", "unavailable"}) => ~auth[r].due]_vars
  BY <1>1
<1> QED BY <1>2, AuthInvHolds, DueInvHolds, PTL DEF Spec, RotationPickedUp

LEMMA SparedInvStep ==
  CacheInv /\ CacheInv' /\ KeyKnown /\ AuthInv /\ RevocationInv /\ SparedInv /\ [Next]_vars
    => SparedInv'
<1> SUFFICES ASSUME CacheInv, CacheInv', KeyKnown, AuthInv, RevocationInv, SparedInv,
                    [Next]_vars,
                    NEW r \in Request, Asking(r)', auth'[r].until # None, now' < auth'[r].until
             PROVE  /\ ~disposed' /\ entries'[Uri] # None
                    /\ auth'[r].until <= entries'[Uri].expiresAt + TTL
                    /\ \A v \in Nat : entries'[Uri].ver <= v /\ v <= origin'
                                       => ~Withdraws(v, auth'[r].kid)
                    /\ Settled(r)' => /\ Cache!IsValue(Result(r)')
                                      /\ auth'[r].kid \in KeysOf[Result(r)'.ver]
  BY DEF SparedInv, Spared, Asking, Cache!IsValue, Withdraws
<1>0. /\ r \in Cache!Proc /\ Moves(r)
      /\ now \in Nat /\ now' \in Nat /\ now <= now' /\ TTL \in Nat /\ origin \in Nat
      /\ entries[Uri] \in Cache!Entry \cup {None} /\ entries'[Uri] \in Cache!Entry \cup {None}
      /\ proc \in [Cache!Proc -> Cache!Goroutine]
      /\ auth \in [Request -> Auth] /\ None \notin Cache!Entry
      /\ \A e \in Cache!Entry : Cache!IsValue(e)
  <2>1. now \in Nat /\ origin \in Nat BY DEF CacheInv, Cache!TypeOK
  <2>2. now' = now \/ now' = now + 1
    BY WorldStep DEF WorldMoves, WorldStays, Tick, Cache!Tick, RotateKeys, Cache!Rotate
  <2>3. now' \in Nat /\ now <= now' BY <2>1, <2>2
  <2> QED BY <2>1, <2>3, ProcStep, GoValidationAssumption
          DEF CacheInv, Cache!TypeOK, AuthInv, Cache!Proc, Cache!IsValue, Cache!Entry
(* What is held or lands while the set may stand in. *)
<1> DEFINE Holds(kid, until) ==
             /\ ~disposed /\ entries[Uri] # None
             /\ until \in Nat /\ now < until /\ until <= entries[Uri].expiresAt + TTL
             /\ \A v \in Nat : entries[Uri].ver <= v /\ v <= origin => ~Withdraws(v, kid)
<1>1. ASSUME NEW kid, NEW until, Holds(kid, until)
      PROVE  /\ kid \in KeysOf[entries[Uri].ver]
             /\ \A q \in Cache!Proc : proc[q].pc = "answered" =>
                  /\ kid \in KeysOf[proc[q].ver]
                  /\ until <= now + TTL + TTL
  <2>0. entries[Uri] \in Cache!Entry BY <1>0, <1>1
  <2>1. /\ entries[Uri].ver \in Nat /\ entries[Uri].expiresAt \in Nat
        /\ entries[Uri].ver <= origin /\ entries[Uri].expiresAt <= now + TTL
        /\ KeysOf[entries[Uri].ver] # {}
    BY <1>1, <2>0 DEF Cache!Entry, CacheInv, RevocationInv, EntryLawful, Lawful
  <2>2. kid \in KeysOf[entries[Uri].ver] BY <1>1, <2>1 DEF Withdraws
  <2>3. until <= now + TTL + TTL
    <3>1. until \in Nat /\ until <= entries[Uri].expiresAt + TTL BY <1>1
    <3> QED BY <1>0, <2>1, <3>1
  <2>4. ASSUME NEW q \in Cache!Proc, proc[q].pc = "answered"
        PROVE  kid \in KeysOf[proc[q].ver]
    <3>1. proc[q].ver \in Nat /\ proc[q].ver <= origin /\ entries[Uri].ver <= proc[q].ver
      BY <1>0, <1>1, <2>4 DEF CacheInv, Cache!Goroutine
    <3>2. KeysOf[proc[q].ver] # {}
      BY <2>4 DEF RevocationInv, LoadsInTime, InTime, Cache!Leading
    <3> QED BY <1>1, <3>1, <3>2 DEF Withdraws
  <2> QED BY <2>2, <2>3, <2>4
<1>2. ASSUME NEW kid, NEW until, Holds(kid, until), NEW o, Supplied(proc[r], o)
      PROVE  Cache!IsValue(o) /\ kid \in KeysOf[o.ver]
  <2>0. entries[Uri] \in Cache!Entry BY <1>0, <1>2
  <2>1. CASE o = entries[Uri] BY <1>0, <1>1, <1>2, <2>0, <2>1
  <2>2. ASSUME NEW q \in Cache!Proc, proc[q].pc = "answered", o = Cache!Landing(q)
        PROVE  Cache!IsValue(o) /\ kid \in KeysOf[o.ver]
    <3>1. o \in Cache!Entry /\ o.ver = proc[q].ver
      BY <1>0, <2>2 DEF Cache!Landing, Cache!Entry, Cache!Goroutine
    <3> QED BY <1>0, <1>1, <1>2, <2>2, <3>1
  <2>3. Cache!StandIn(Uri) = entries[Uri]
    <3>1. until \in Nat /\ now < until /\ until <= entries[Uri].expiresAt + TTL
          /\ entries[Uri] # None
      BY <1>2
    <3>2. entries[Uri].expiresAt \in Nat BY <2>0 DEF Cache!Entry
    <3>3. now < entries[Uri].expiresAt + TTL BY <1>0, <3>1, <3>2
    <3>4. Cache!Grace = TTL BY DEF Cache!Grace
    <3> QED BY <3>1, <3>3, <3>4 DEF Cache!StandIn, Cache!InGrace
  <2> QED BY <1>2, <2>1, <2>2, <2>3 DEF Supplied
(* The world is no obstacle, if it was none. *)
<1>3. ASSUME Holds(auth'[r].kid, auth'[r].until), RotateKeys => auth'[r].kid = auth[r].kid
      PROVE  /\ ~disposed' /\ entries'[Uri] # None
             /\ auth'[r].until <= entries'[Uri].expiresAt + TTL
             /\ \A v \in Nat : entries'[Uri].ver <= v /\ v <= origin'
                                => ~Withdraws(v, auth'[r].kid)
  <2>1. ~Dispose BY DebtEnds
  <2>2. ~disposed' BY <1>3, <2>1, DisposedStep
  <2>3. \/ entries'[Uri] = entries[Uri]
        \/ /\ entries'[Uri].ver >= entries[Uri].ver
           /\ entries'[Uri].expiresAt = now + TTL
           /\ entries'[Uri] # None
           /\ auth'[r].until <= now + TTL + TTL
    <3> SUFFICES ASSUME NEW q \in Cache!Proc, proc[q].pc = "answered",
                        entries'[Uri] = Cache!Landing(q)
                 PROVE  /\ entries'[Uri].ver >= entries[Uri].ver
                        /\ entries'[Uri].expiresAt = now + TTL
                        /\ entries'[Uri] # None
                        /\ auth'[r].until <= now + TTL + TTL
      BY <2>1, EntryStep
    <3>1. entries[Uri].ver <= proc[q].ver /\ proc[q].ver \in Nat
      BY <1>0, <1>3 DEF CacheInv, Cache!Goroutine
    <3>2. entries[Uri] \in Cache!Entry BY <1>0, <1>3
    <3>3. Cache!Landing(q) \in Cache!Entry BY <1>0, <3>1 DEF Cache!Landing, Cache!Entry
    <3>4. auth'[r].until <= now + TTL + TTL BY <1>1, <1>3
    <3> QED BY <1>0, <3>1, <3>2, <3>3, <3>4 DEF Cache!Landing, Cache!Entry
  <2>4. entries'[Uri] # None BY <1>3, <2>3
  <2>5. /\ entries[Uri] \in Cache!Entry /\ entries'[Uri] \in Cache!Entry
        /\ entries[Uri].ver \in Nat /\ entries'[Uri].ver \in Nat
    BY <1>0, <1>3, <2>4 DEF Cache!Entry
  <2>6. auth'[r].until <= entries'[Uri].expiresAt + TTL BY <1>3, <2>3
  <2>7. ASSUME NEW v \in Nat, entries'[Uri].ver <= v, v <= origin'
        PROVE  ~Withdraws(v, auth'[r].kid)
    <3>1. entries[Uri].ver <= v BY <2>3, <2>5, <2>7
    <3>2. CASE v <= origin BY <1>3, <3>1, <3>2
    <3>3. CASE ~(v <= origin)
      <4>1. RotateKeys \/ origin' = origin
        BY WorldStep DEF WorldMoves, WorldStays, Tick, Cache!Tick
      <4>2. RotateKeys /\ origin' = origin + 1
        BY <2>7, <3>3, <4>1 DEF RotateKeys, Cache!Rotate
      <4>3. v = origin + 1 BY <1>0, <2>7, <3>3, <4>2
      <4> QED BY <1>3, <4>2, <4>3, DebtEnds
    <3> QED BY <3>2, <3>3
  <2> QED BY <2>2, <2>4, <2>6, <2>7
<1>4. CASE Asking(r) /\ Keeps(r)
  <2>1. auth'[r].kid = auth[r].kid /\ auth'[r].until = auth[r].until BY <1>4 DEF Keeps
  <2>2. auth[r].until \in Nat BY <1>0, <2>1 DEF Auth
  <2>3. now < auth[r].until BY <1>0, <2>1, <2>2
  <2>4. Holds(auth'[r].kid, auth'[r].until)
    BY <1>4, <2>1, <2>2, <2>3 DEF SparedInv, Spared
  <2>5. Settled(r) => Cache!IsValue(Result(r)) /\ auth[r].kid \in KeysOf[Result(r).ver]
    BY <1>4, <2>1, <2>3 DEF SparedInv, Spared
  <2> HIDE DEF Holds
  <2>6. ASSUME Settled(r)'
        PROVE  Cache!IsValue(Result(r)') /\ auth'[r].kid \in KeysOf[Result(r)'.ver]
    BY <1>0, <1>2, <2>1, <2>4, <2>5, <2>6 DEF Moves
  <2> QED BY <1>3, <2>1, <2>4, <2>6
<1>5. ASSUME NEW kid \in Kid, Authenticate(r, kid)
      PROVE  /\ Holds(auth'[r].kid, auth'[r].until) /\ ~RotateKeys
             /\ Settled(r)' => Supplied(proc[r], Result(r)')
  <2>1. auth'[r].kid = kid /\ auth'[r].until = StandsInUntil(kid)
    BY <1>0, <1>5 DEF Authenticate
  <2>2. /\ entries[Uri] # None /\ ~disposed
        /\ \A v \in entries[Uri].ver .. origin : ~Withdraws(v, kid)
        /\ auth'[r].until = entries[Uri].expiresAt + Cache!Grace
    BY <2>1 DEF StandsInUntil
  <2>3. Cache!Grace = TTL BY DEF Cache!Grace
  <2>4. entries[Uri].ver \in Nat /\ entries[Uri].expiresAt \in Nat
    BY <1>0, <2>2 DEF Cache!Entry
  <2>5. auth'[r].until \in Nat /\ auth'[r].until <= entries[Uri].expiresAt + TTL
    BY <1>0, <2>2, <2>3, <2>4
  <2>6. now < auth'[r].until BY <1>0, <2>5
  <2>7. \A v \in Nat : entries[Uri].ver <= v /\ v <= origin => ~Withdraws(v, kid)
    BY <1>0, <2>2, <2>4
  <2>8. ~RotateKeys
    <3>1. origin' = origin BY <1>5, CallStays DEF Authenticate
    <3>2. RotateKeys => origin' = origin + 1 BY DEF RotateKeys, Cache!Rotate
    <3> QED BY <1>0, <3>1, <3>2
  <2>9. Settled(r)' => Supplied(proc[r], Result(r)')
    BY <1>5, CallMoves DEF Asked, Authenticate
  <2> QED BY <2>1, <2>2, <2>5, <2>6, <2>7, <2>8, <2>9
<1> HIDE DEF Holds
<1>6. ASSUME NEW kid \in Kid, Authenticate(r, kid), Settled(r)'
      PROVE  Cache!IsValue(Result(r)') /\ auth'[r].kid \in KeysOf[Result(r)'.ver]
  BY <1>2, <1>5, <1>6
<1> QED BY <1>3, <1>4, <1>5, <1>6, AskingStep DEF SameAuth

LEMMA SparedInvHolds == Spec => []SparedInv
<1>1. Init => SparedInv BY DEF Init, At, Asking, SparedInv, Spared
<1> QED BY <1>1, SparedInvStep, CacheInvHolds, KeyKnownHolds, AuthInvHolds,
           RevocationInvHolds, PTL DEF Spec

(* An outage is survived: as long as the set that was held when a request  *)
(* came may stand in, a token whose key it and its successors have is not  *)
(* turned down, however many fetches fail or bring no keys.                *)
THEOREM OutageToleratedTheorem == Spec => OutageTolerated
<1>1. ASSUME CacheInv, AuthInv, SparedInv, [Next]_vars, NEW r \in Request,
             Decides(r, {"rejected", "unavailable"})
      PROVE  auth[r].until = None \/ now >= auth[r].until
  <2> SUFFICES ASSUME auth[r].until # None, ~(now >= auth[r].until) PROVE FALSE OBVIOUS
  <2>0. auth[r].until \in Nat /\ now \in Nat
    BY <1>1 DEF AuthInv, Auth, CacheInv, Cache!TypeOK
  <2>1. auth'[r].stage \in {"rejected", "unavailable"} /\ Spared(r)
    BY <1>1, <2>0 DEF Decides, Asking, Spared
  <2>2. CheckFirst(r) \/ CheckRetry(r) BY <1>1, DecideStep
  <2>3. Returned(r) BY <2>2 DEF CheckFirst, CheckRetry
  <2>4. Obtained(r) /\ Matches(r)
    BY <1>1, <2>1, <2>3 DEF SparedInv, Returned, Settled, Result, Obtained, Matches
  <2>5. CASE CheckFirst(r) BY <1>1, <2>1, <2>4, <2>5, BecomesNext DEF CheckFirst
  <2>6. CASE CheckRetry(r) BY <1>1, <2>1, <2>4, <2>6, BecomesNext DEF CheckRetry
  <2> QED BY <2>2, <2>5, <2>6
<1>2. CacheInv /\ AuthInv /\ SparedInv /\ [Next]_vars
        => [\A r \in Request : Decides(r, {"rejected", "unavailable"})
                               => auth[r].until = None \/ now >= auth[r].until]_vars
  BY <1>1
<1> QED BY <1>2, CacheInvHolds, AuthInvHolds, SparedInvHolds, PTL DEF Spec, OutageTolerated
=============================================================================
