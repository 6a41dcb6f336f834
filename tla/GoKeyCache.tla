----------------------------- MODULE GoKeyCache -----------------------------
(***************************************************************************)
(* The Go key cache, packages/go/cache/memory_key_cache.go.                *)
(*                                                                         *)
(* Goroutines run in parallel; c.mu is held over each critical section, so *)
(* an action is one critical section, one outcome of the loader, or one    *)
(* wake-up.  A goroutine that starts a load is the load's leader and owns  *)
(* the call record the others wait on, so the record is part of the        *)
(* leader's state.  The background refresher is a goroutine of its own.    *)
(***************************************************************************)
EXTENDS Integers

CONSTANTS Key, Caller,
          Refresher,    \* the goroutine of refreshLoop
          TTL,          \* Options.TTL
          StaleOption,  \* Options.StaleIfError as given: zero and negative mean something
          Background,   \* whether Options.RefreshInterval > 0
          MayPanic,     \* whether the loader may panic
          MaxTime, MaxVersion,
          None, Failed, Refused

VARIABLES now, origin,
          entries,  \* c.entries: [Key -> Entry or None]
          inflight, \* c.inflight: [Key -> leader or None]
          disposed, \* c.disposed
          stopped,  \* whether c.stop is closed
          proc,     \* [Proc -> what the goroutine is doing]
          loop,     \* where refreshLoop is: at its select, in its round, or gone
          todo,     \* keys its round has not come to yet
          newest    \* history: newest version that ever landed for a key

vars == <<now, origin, entries, inflight, disposed, stopped, proc, loop, todo, newest>>

Proc == Caller \cup {Refresher}

ASSUME GoCacheAssumption ==
  /\ TTL \in Nat \ {0}
  /\ StaleOption \in Int
  /\ Background \in BOOLEAN /\ MayPanic \in BOOLEAN
  /\ Refresher \notin Caller
  /\ None \notin Key \cup Proc
  /\ None # Failed /\ None # Refused /\ Failed # Refused
  /\ \A x \in {None, Failed, Refused} : x \notin [ver : Nat, expiresAt : Nat]
  /\ None \notin [since : Nat, out : {None}]

(* New: zero means the TTL, negative means no grace. *)
Grace == IF StaleOption = 0 THEN TTL ELSE IF StaleOption < 0 THEN 0 ELSE StaleOption

Entry   == [ver : Nat, expiresAt : Nat]
Outcome == Entry \cup {None, Failed, Refused}
Leading == {"loading", "answered", "failed", "panicked"}
PC      == {"idle", "missed", "waiting", "published"} \cup Leading

(* on: the leader waited for; floor: the newest landed version when the    *)
(* call was made; since, startedAt: when the leader's load began.          *)
Goroutine == [pc : PC, key : Key \cup {None}, on : Proc \cup {None}, ver : Nat,
              since : Nat, startedAt : Nat, floor : Nat, out : Outcome]

TypeOK ==
  /\ now \in Nat /\ origin \in Nat
  /\ entries \in [Key -> Entry \cup {None}]
  /\ inflight \in [Key -> Proc \cup {None}]
  /\ disposed \in BOOLEAN /\ stopped \in BOOLEAN
  /\ proc \in [Proc -> Goroutine]
  /\ loop \in {"select", "round", "gone"} /\ todo \in SUBSET Key
  /\ newest \in [Key -> Nat]

IsValue(o) == o \notin {None, Failed, Refused}
Fresh(k)   == IF entries[k] = None THEN FALSE ELSE now < entries[k].expiresAt
Tracked    == {k \in Key : entries[k] # None}
Leads(p, k) == proc[p].pc \in Leading /\ proc[p].key = k

Idle(floor, o) ==
  [pc |-> "idle", key |-> None, on |-> None, ver |-> 0, since |-> 0,
   startedAt |-> 0, floor |-> floor, out |-> o]

Init ==
  /\ now = 0
  /\ origin = 1
  /\ entries = [k \in Key |-> None]
  /\ inflight = [k \in Key |-> None]
  /\ disposed = FALSE
  /\ stopped = FALSE
  /\ proc = [p \in Proc |-> Idle(0, None)]
  /\ loop = IF Background THEN "select" ELSE "gone"
  /\ todo = {}
  /\ newest = [k \in Key |-> 0]
-----------------------------------------------------------------------------
(* Get's own critical section (lines 112-118): a hit, or on to load().     *)
(* Whether the cache is disposed is not asked here.                        *)
Get(p, k) ==
  /\ p \in Caller
  /\ proc[p].pc = "idle"
  /\ proc' = [proc EXCEPT ![p] =
       IF Fresh(k) THEN Idle(newest[k], entries[k])
       ELSE [Idle(newest[k], @.out) EXCEPT !.pc = "missed", !.key = k]]
  /\ UNCHANGED <<now, origin, entries, inflight, disposed, stopped, loop, todo, newest>>

(* load's first critical section (188-211), entered with the freshness     *)
(* check or, forced, without it.  JoinsNothing is the section without its  *)
(* look at c.inflight.                                                     *)
JoinsNothing(k) == FALSE
Joinable(k)     == inflight[k] # None

Waits(p, k, floor) ==
  [Idle(floor, None) EXCEPT !.pc = "waiting", !.key = k, !.on = inflight[k]]

Starts(k, floor) ==
  [Idle(floor, None) EXCEPT !.pc = "loading", !.key = k, !.since = origin,
                                  !.startedAt = now]

LoadSection(p, k, force, floor) ==
  /\ \/ /\ disposed
        /\ proc' = [proc EXCEPT ![p] = Idle(floor, Refused)]
        /\ UNCHANGED inflight
     \/ /\ ~disposed /\ ~force /\ Fresh(k)
        /\ proc' = [proc EXCEPT ![p] = Idle(floor, entries[k])]
        /\ UNCHANGED inflight
     \/ /\ ~disposed /\ (force \/ ~Fresh(k)) /\ Joinable(k)
        /\ proc' = [proc EXCEPT ![p] = Waits(p, k, floor)]
        /\ UNCHANGED inflight
     \/ /\ ~disposed /\ (force \/ ~Fresh(k)) /\ ~Joinable(k)
        /\ proc' = [proc EXCEPT ![p] = Starts(k, floor)]
        /\ inflight' = [inflight EXCEPT ![k] = p]
  /\ UNCHANGED <<now, origin, entries, disposed, stopped, newest>>

(* Get after its miss. *)
LoadAfterMiss(p) ==
  /\ proc[p].pc = "missed"
  /\ LoadSection(p, proc[p].key, FALSE, proc[p].floor)
  /\ UNCHANGED <<loop, todo>>

Refresh(p, k) ==
  /\ p \in Caller
  /\ proc[p].pc = "idle"
  /\ LoadSection(p, k, TRUE, newest[k])
  /\ UNCHANGED <<loop, todo>>

(* The loader runs outside the lock: it reads the source or fails. *)
LoaderAnswers(p) ==
  /\ proc[p].pc = "loading"
  /\ proc' = [proc EXCEPT ![p].pc = "answered", ![p].ver = origin]
  /\ UNCHANGED <<now, origin, entries, inflight, disposed, stopped, loop, todo, newest>>

LoaderFails(p) ==
  /\ proc[p].pc = "loading"
  /\ proc' = [proc EXCEPT ![p].pc = "failed"]
  /\ UNCHANGED <<now, origin, entries, inflight, disposed, stopped, loop, todo, newest>>

(* A panic in the loader skips the rest of load: the call stays in         *)
(* c.inflight for good.  The goroutine is gone (net/http recovers the panic*)
(* of a handler); in refreshLoop it would end the program.                 *)
LoaderPanics(p) ==
  /\ MayPanic /\ p \in Caller
  /\ proc[p].pc = "loading"
  /\ proc' = [proc EXCEPT ![p].pc = "panicked"]
  /\ UNCHANGED <<now, origin, entries, inflight, disposed, stopped, loop, todo, newest>>

(* load's second critical section (215-231): store the value, disposed or  *)
(* not, or fall back on the entry held now; fill in the call; deregister.  *)
(* InGraceInclusive is off by one; StandInForever forgets the grace.       *)
InGraceInclusive(e) == now <= e.expiresAt + Grace
InGrace(e) == now < e.expiresAt + Grace

StandInForever(k) == IF entries[k] = None THEN Failed ELSE entries[k]
StandIn(k) == IF entries[k] = None THEN Failed
              ELSE IF InGrace(entries[k]) THEN entries[k] ELSE Failed

LandingInThePast(p) == [ver |-> proc[p].ver, expiresAt |-> now - TTL]
Landing(p) == [ver |-> proc[p].ver, expiresAt |-> now + TTL]

Deregistered(k) == [inflight EXCEPT ![k] = None]

Publish(p) ==
  LET k == proc[p].key IN
  /\ \/ /\ proc[p].pc = "answered"
        /\ entries' = [entries EXCEPT ![k] = Landing(p)]
        /\ newest' = [newest EXCEPT ![k] = IF @ > proc[p].ver THEN @ ELSE proc[p].ver]
        /\ proc' = [proc EXCEPT ![p].pc = "published", ![p].out = Landing(p)]
     \/ /\ proc[p].pc = "failed"
        /\ proc' = [proc EXCEPT ![p].pc = "published", ![p].out = StandIn(k)]
        /\ UNCHANGED <<entries, newest>>
  /\ inflight' = Deregistered(k)
  /\ UNCHANGED <<now, origin, disposed, stopped, loop, todo>>

(* wg.Done() (232): the leader returns and every goroutine in Wait() on    *)
(* its call returns with what the call holds; without it (ForgetsDone) the *)
(* leader alone would.                                                     *)
ForgetsDone(p) ==
  /\ proc[p].pc = "published"
  /\ proc' = [proc EXCEPT ![p] = Idle(@.floor, @.out)]
  /\ UNCHANGED <<now, origin, entries, inflight, disposed, stopped, loop, todo, newest>>
Done(p) ==
  /\ proc[p].pc = "published"
  /\ proc' = [q \in Proc |->
       IF q = p \/ (proc[q].pc = "waiting" /\ proc[q].on = p)
       THEN Idle(proc[q].floor, proc[p].out)
       ELSE proc[q]]
  /\ UNCHANGED <<now, origin, entries, inflight, disposed, stopped, loop, todo, newest>>
-----------------------------------------------------------------------------
(* refreshLoop: on a tick, snapshot the keys and refresh them one by one.  *)
(* select picks at random when a tick and the stop are both ready.         *)
RoundStarts ==
  /\ loop = "select"
  /\ loop' = "round"
  /\ todo' = Tracked
  /\ UNCHANGED <<now, origin, entries, inflight, disposed, stopped, proc, newest>>

RoundRefresh(k) ==
  /\ loop = "round"
  /\ proc[Refresher].pc = "idle"
  /\ k \in todo
  /\ todo' = todo \ {k}
  /\ LoadSection(Refresher, k, TRUE, newest[k])
  /\ UNCHANGED loop

RoundEnds ==
  /\ loop = "round"
  /\ proc[Refresher].pc = "idle"
  /\ todo = {}
  /\ loop' = "select"
  /\ UNCHANGED <<now, origin, entries, inflight, disposed, stopped, proc, todo, newest>>

LoopStops ==
  /\ loop = "select"
  /\ stopped
  /\ loop' = "gone"
  /\ UNCHANGED <<now, origin, entries, inflight, disposed, stopped, proc, todo, newest>>
-----------------------------------------------------------------------------
Delete(k) ==
  /\ entries' = [entries EXCEPT ![k] = None]
  /\ UNCHANGED <<now, origin, inflight, disposed, stopped, proc, loop, todo, newest>>

EvictExpired ==
  /\ entries' = [k \in Key |-> IF Fresh(k) THEN entries[k] ELSE None]
  /\ UNCHANGED <<now, origin, inflight, disposed, stopped, proc, loop, todo, newest>>

(* Dispose drops the entries but not the calls in flight, then, outside    *)
(* the lock, closes the stop channel.                                      *)
Dispose ==
  /\ disposed' = TRUE
  /\ entries' = [k \in Key |-> None]
  /\ UNCHANGED <<now, origin, inflight, stopped, proc, loop, todo, newest>>

StopNeverCloses == disposed /\ ~stopped /\ FALSE

CloseStop ==
  /\ disposed /\ ~stopped
  /\ stopped' = TRUE
  /\ UNCHANGED <<now, origin, entries, inflight, disposed, proc, loop, todo, newest>>

Tick ==
  /\ now < MaxTime
  /\ now' = now + 1
  /\ UNCHANGED <<origin, entries, inflight, disposed, stopped, proc, loop, todo, newest>>

Rotate ==
  /\ origin < MaxVersion
  /\ origin' = origin + 1
  /\ UNCHANGED <<now, entries, inflight, disposed, stopped, proc, loop, todo, newest>>

Runs(p) == \/ LoadAfterMiss(p)
           \/ LoaderAnswers(p) \/ LoaderFails(p) \/ LoaderPanics(p)
           \/ Publish(p) \/ Done(p)

RoundGoesOn == (\E k \in Key : RoundRefresh(k)) \/ RoundEnds

Next ==
  \/ \E p \in Caller, k \in Key : Get(p, k) \/ Refresh(p, k)
  \/ \E p \in Proc : Runs(p)
  \/ RoundStarts
  \/ RoundGoesOn
  \/ LoopStops
  \/ \E k \in Key : Delete(k)
  \/ EvictExpired
  \/ Dispose
  \/ CloseStop
  \/ Tick
  \/ Rotate

Spec == Init /\ [][Next]_vars

(* Goroutines are scheduled and the loader is assumed to return.  The      *)
(* select draws at random, so a stop that stays ready is drawn in the end: *)
(* strong fairness.                                                        *)
FairSpec ==
  /\ Spec
  /\ \A p \in Proc : WF_vars(Runs(p))
  /\ WF_vars(RoundGoesOn)
  /\ WF_vars(CloseStop)
  /\ SF_vars(LoopStops)
-----------------------------------------------------------------------------
(* The loader runs "at most once per key concurrently" (lines 20-21).      *)
SingleFlight ==
  \A k \in Key, p, q \in Proc : Leads(p, k) /\ Leads(q, k) => p = q

(* A goroutine in Wait() waits on another one's call, for its own key, that*)
(* is still going to be done, or whose loader has panicked; so there is no *)
(* circle of waiters.                                                      *)
NoOrphanWait ==
  \A p \in Proc : proc[p].pc = "waiting" =>
    LET l == proc[proc[p].on] IN
      l.key = proc[p].key /\ l.pc \in Leading \cup {"published"}

(* No call returns a version older than one that had landed when it began. *)
NeverGoesBack ==
  \A p \in Proc : proc[p].pc = "idle" /\ IsValue(proc[p].out)
                    => proc[p].out.ver >= proc[p].floor

(* A failed load hands out no entry whose grace was over when it began.    *)
ServedWithinGrace ==
  \A p \in Proc : proc[p].pc = "published" /\ IsValue(proc[p].out)
                    => proc[p].startedAt < proc[p].out.expiresAt + Grace

Panicked == \E p \in Proc : proc[p].pc = "panicked"

(* Every call returns, through joins, failures and disposal, if the loaders*)
(* do and none panics.                                                     *)
EveryCallReturns ==
  \A p \in Proc : proc[p].pc # "idle" ~> (proc[p].pc = "idle" \/ Panicked)

(* "N concurrent Get(key) calls during a miss trigger the loader exactly   *)
(* once; all callers receive the same result" (lines 56-57): whoever waits *)
(* for a load receives a result.                                           *)
WaitersReceiveResult == \A p \in Proc : proc[p].pc = "waiting" ~> proc[p].pc = "idle"

(* After Dispose the background goroutine ends, even in the middle of a    *)
(* round, unless it waits for a load whose loader panicked.                *)
LoopEnds == disposed ~> (loop = "gone" \/ Panicked)

(* "ErrDisposed is returned by a cache method called after Dispose" (9).   *)
RefusedAfterDispose ==
  [][\A p \in Proc : /\ disposed
                    /\ proc[p].pc = "idle"
                    /\ proc'[p] # proc[p]
                    /\ proc'[p].pc = "idle"
                    => proc'[p].out = Refused]_vars
-----------------------------------------------------------------------------
(* A load under way is a flight; it decides and closes under the lock, so  *)
(* a goroutine that still waits for wg.Done() has its outcome already.     *)
(* ps stands for the goroutines.                                           *)
FlightIn(ps, k) ==
  LET leaders == {p \in Proc : ps[p].pc \in Leading /\ ps[p].key = k} IN
    IF leaders = {} THEN None
    ELSE [since |-> ps[CHOOSE p \in leaders : TRUE].since, out |-> None]

TaskSeen(ps, p) ==
  LET call == IF ps[p].pc = "waiting" THEN ps[ps[p].on] ELSE ps[p] IN
    IF call.pc \in Leading
    THEN [waiting |-> TRUE, key |-> call.key, out |-> None]
    ELSE [waiting |-> FALSE, key |-> None, out |-> call.out]

Flights == [k \in Key |-> FlightIn(proc, k)]
Tasks   == [p \in Proc |-> TaskSeen(proc, p)]

KC == INSTANCE KeyCache WITH
        Caller <- Proc, StaleIfError <- Grace, flight <- Flights, task <- Tasks

ImplementsKeyCache == KC!Spec
=============================================================================
