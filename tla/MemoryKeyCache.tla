--------------------------- MODULE MemoryKeyCache ---------------------------
(***************************************************************************)
(* The Node key cache, packages/node/src/cache/memory-key-cache.ts.        *)
(*                                                                         *)
(* JavaScript runs one task or microtask at a time, so an action is one    *)
(* synchronous stretch of the code: a call up to its first await, the      *)
(* loader's answer, the callback of .then, of .catch and of .finally.  Any *)
(* two of these may have other calls between them.                         *)
(*                                                                         *)
(* A load is the promise chain that load() builds.  The model gives every  *)
(* key a few slots for loads, because nothing but the inFlight map stops   *)
(* two loads of one key from running at once.  The value a load obtains is *)
(* abstracted to the version of the source the loader read.                *)
(***************************************************************************)
EXTENDS Naturals

CONSTANTS Key,               \* cache keys (JWKS URIs)
          Caller,            \* callers of get and refresh
          Slot,              \* places for the loads of a key
          TTL,               \* ttlMs
          StaleIfError,      \* staleIfErrorMs
          BackgroundRefresh, \* whether refreshIntervalMs is set
          MaxTime,           \* bound on the clock
          MaxVersion,        \* bound on the source's version
          None, Failed, Refused

VARIABLES now,      \* clock.now()
          origin,   \* version of the data at the source
          entries,  \* this.entries: [Key -> Entry or None]
          inFlight, \* this.inFlight: [Key -> Slot or None]
          loads,    \* the promise chains: [Key -> [Slot -> Load]]
          disposed, \* this.disposed
          task,     \* the call each caller is in or made last
          newest    \* history: newest version that ever landed for a key

vars == <<now, origin, entries, inFlight, loads, disposed, task, newest>>

Entry   == [ver : Nat, expiresAt : Nat]
Outcome == Entry \cup {None, Failed, Refused}
Phase   == {"idle", "loading", "answered", "failed", "landed"}

(* since and startedAt remember the source's version and the time when the *)
(* load began; ver is what the loader read; out what the chain resolves to.*)
Load == [phase : Phase, since : Nat, startedAt : Nat, ver : Nat, out : Outcome]

(* floor remembers the newest landed version when the call was made.       *)
Task == [pc : {"idle", "waiting"}, op : {"get", "refresh"},
         key : Key \cup {None}, slot : Slot \cup {None},
         floor : Nat, out : Outcome]

ASSUME CacheAssumption ==
  /\ TTL \in Nat \ {0}
  /\ StaleIfError \in Nat
  /\ BackgroundRefresh \in BOOLEAN
  /\ None \notin Key \cup Slot
  /\ None # Failed /\ None # Refused /\ Failed # Refused
  /\ \A x \in {None, Failed, Refused} : x \notin Entry
  /\ None \notin [since : Nat, out : Outcome]

NoLoad == [phase |-> "idle", since |-> 0, startedAt |-> 0, ver |-> 0, out |-> None]
NoTask == [pc |-> "idle", op |-> "get", key |-> None, slot |-> None,
           floor |-> 0, out |-> None]

TypeOK ==
  /\ now \in Nat
  /\ origin \in Nat
  /\ entries \in [Key -> Entry \cup {None}]
  /\ inFlight \in [Key -> Slot \cup {None}]
  /\ loads \in [Key -> [Slot -> Load]]
  /\ disposed \in BOOLEAN
  /\ task \in [Caller -> Task]
  /\ newest \in [Key -> Nat]

IsValue(o)   == o \notin {None, Failed, Refused}
Running(l)   == l.phase # "idle"
IsExpired(e) == now >= e.expiresAt
Peek(k)      == IF entries[k] = None THEN None
                ELSE IF IsExpired(entries[k]) THEN None ELSE entries[k]
Tracked      == {k \in Key : entries[k] # None}

Init ==
  /\ now = 0
  /\ origin = 1
  /\ entries = [k \in Key |-> None]
  /\ inFlight = [k \in Key |-> None]
  /\ loads = [k \in Key |-> [s \in Slot |-> NoLoad]]
  /\ disposed = FALSE
  /\ task = [c \in Caller |-> NoTask]
  /\ newest = [k \in Key |-> 0]
-----------------------------------------------------------------------------
(* Calls.  A caller makes one call at a time; what it does with the value  *)
(* is not the cache's business.                                            *)

Called(c, op, k, s, o) ==
  [task EXCEPT ![c] = [pc |-> IF s = None THEN "idle" ELSE "waiting", op |-> op,
                       key |-> k, slot |-> s, floor |-> newest[k], out |-> o]]

Answers(c, op, k, o)  == task' = Called(c, op, k, None, o)
Awaits(c, op, k, s)   == task' = Called(c, op, k, s, None)

(* Whether load() finds a promise to share; SharesNothing never looks.     *)
SharesNothing(k) == FALSE
Shares(k)      == inFlight[k] # None

Started == [phase |-> "loading", since |-> origin, startedAt |-> now,
            ver |-> 0, out |-> None]

(* load(): share the promise in flight, else start a load and register it. *)
(* Its second look at the entry (lines 173-178) runs in the same stretch   *)
(* as the caller's own and cannot find it fresh again.                     *)
LoadFor(c, op, k) ==
  \/ /\ Shares(k)
     /\ Awaits(c, op, k, inFlight[k])
     /\ UNCHANGED <<inFlight, loads>>
  \/ /\ ~Shares(k)
     /\ \E s \in Slot :
          /\ ~Running(loads[k][s])
          /\ loads' = [loads EXCEPT ![k][s] = Started]
          /\ inFlight' = [inFlight EXCEPT ![k] = s]
          /\ Awaits(c, op, k, s)

Get(c, k) ==
  /\ task[c].pc = "idle"
  /\ \/ /\ disposed
        /\ Answers(c, "get", k, Refused)
        /\ UNCHANGED <<inFlight, loads>>
     \/ /\ ~disposed
        /\ Peek(k) # None
        /\ Answers(c, "get", k, Peek(k))
        /\ UNCHANGED <<inFlight, loads>>
     \/ /\ ~disposed
        /\ Peek(k) = None
        /\ LoadFor(c, "get", k)
  /\ UNCHANGED <<now, origin, entries, disposed, newest>>

Refresh(c, k) ==
  /\ task[c].pc = "idle"
  /\ \/ /\ disposed
        /\ Answers(c, "refresh", k, Refused)
        /\ UNCHANGED <<inFlight, loads>>
     \/ /\ ~disposed
        /\ LoadFor(c, "refresh", k)
  /\ UNCHANGED <<now, origin, entries, disposed, newest>>

(* The interval timer: refresh(key) for every tracked key, one synchronous *)
(* stretch; its own wait for the results only swallows their errors.       *)
RefreshAll ==
  /\ BackgroundRefresh
  /\ ~disposed
  /\ LET opened == {k \in Tracked : ~Shares(k)} IN
       \E slot \in [opened -> Slot] :
         /\ \A k \in opened : ~Running(loads[k][slot[k]])
         /\ loads' = [k \in Key |-> IF k \in opened
                                    THEN [loads[k] EXCEPT ![slot[k]] = Started]
                                    ELSE loads[k]]
         /\ inFlight' = [k \in Key |-> IF k \in opened THEN slot[k] ELSE inFlight[k]]
  /\ UNCHANGED <<now, origin, entries, disposed, task, newest>>

Delete(k) ==
  /\ entries' = [entries EXCEPT ![k] = None]
  /\ UNCHANGED <<now, origin, inFlight, loads, disposed, task, newest>>

Clear ==
  /\ entries' = [k \in Key |-> None]
  /\ UNCHANGED <<now, origin, inFlight, loads, disposed, task, newest>>

EvictExpired ==
  /\ entries' = [k \in Key |-> Peek(k)]
  /\ UNCHANGED <<now, origin, inFlight, loads, disposed, task, newest>>

(* The loads under way go on and settle their promises; a dispose that gave*)
(* them up (AbandonsLoads) would leave whoever awaits them behind.         *)
AbandonsLoads ==
  /\ disposed' = TRUE
  /\ entries' = [k \in Key |-> None]
  /\ inFlight' = [k \in Key |-> None]
  /\ loads' = [k \in Key |-> [s \in Slot |-> NoLoad]]
  /\ UNCHANGED <<now, origin, task, newest>>
Dispose ==
  /\ disposed' = TRUE
  /\ entries' = [k \in Key |-> None]
  /\ inFlight' = [k \in Key |-> None]
  /\ UNCHANGED <<now, origin, loads, task, newest>>
-----------------------------------------------------------------------------
(* The promise chain of a load. *)

(* The load in slot s of k is now in phase ph, with this version and outcome. *)
Advances(k, s, ph, v, o) ==
  loads' = [loads EXCEPT ![k][s] =
              [phase |-> ph, since |-> @.since, startedAt |-> @.startedAt,
               ver |-> v, out |-> o]]

(* The loader reads the source, and its answer is on its way. *)
LoaderAnswers(k, s) ==
  /\ loads[k][s].phase = "loading"
  /\ Advances(k, s, "answered", origin, None)
  /\ UNCHANGED <<now, origin, entries, inFlight, disposed, task, newest>>

LoaderFails(k, s) ==
  /\ loads[k][s].phase = "loading"
  /\ Advances(k, s, "failed", 0, None)
  /\ UNCHANGED <<now, origin, entries, inFlight, disposed, task, newest>>

(* The entry .then stores; LandingInThePast has the sign of ttlMs wrong.   *)
LandingInThePast(k, s) == [ver |-> loads[k][s].ver, expiresAt |-> now - TTL]
Landing(k, s) == [ver |-> loads[k][s].ver, expiresAt |-> now + TTL]

(* .then: the value goes into the entry, disposed or not. *)
Then(k, s) ==
  /\ loads[k][s].phase = "answered"
  /\ entries' = [entries EXCEPT ![k] = Landing(k, s)]
  /\ newest' = [newest EXCEPT ![k] = IF @ > loads[k][s].ver THEN @ ELSE loads[k][s].ver]
  /\ Advances(k, s, "landed", loads[k][s].ver, Landing(k, s))
  /\ UNCHANGED <<now, origin, inFlight, disposed, task>>

(* .catch: the entry held now stands in while its grace lasts. *)
(* Off by one, the comparison would stretch the grace (InGraceInclusive);  *)
(* without it an entry would stand in for ever (StandInForever), and       *)
(* WithinTTL forgets staleIfErrorMs.                                       *)
WithinTTL(e) == ~IsExpired(e)
InGraceInclusive(e) == now <= e.expiresAt + StaleIfError
InGrace(e) == now < e.expiresAt + StaleIfError

StandInForever(k) == IF entries[k] = None THEN Failed ELSE entries[k]
StandIn(k) == IF entries[k] = None THEN Failed
              ELSE IF InGrace(entries[k]) THEN entries[k] ELSE Failed

Catch(k, s) ==
  /\ loads[k][s].phase = "failed"
  /\ Advances(k, s, "landed", 0, StandIn(k))
  /\ UNCHANGED <<now, origin, entries, inFlight, disposed, task, newest>>

(* .finally: the registration goes, and everyone who awaited this promise  *)
(* resumes with its outcome.                                               *)
Unregistered(k) == [inFlight EXCEPT ![k] = None]

Resumed(t, o) == [pc |-> "idle", op |-> t.op, key |-> t.key, slot |-> None,
                  floor |-> t.floor, out |-> o]

Finally(k, s) ==
  /\ loads[k][s].phase = "landed"
  /\ inFlight' = Unregistered(k)
  /\ loads' = [loads EXCEPT ![k][s] = NoLoad]
  /\ task' = [c \in Caller |->
                IF task[c].pc = "waiting" /\ task[c].key = k /\ task[c].slot = s
                THEN Resumed(task[c], loads[k][s].out)
                ELSE task[c]]
  /\ UNCHANGED <<now, origin, entries, disposed, newest>>
-----------------------------------------------------------------------------
(* The environment: time passes, and the source publishes a new version.   *)
Tick ==
  /\ now < MaxTime
  /\ now' = now + 1
  /\ UNCHANGED <<origin, entries, inFlight, loads, disposed, task, newest>>

Rotate ==
  /\ origin < MaxVersion
  /\ origin' = origin + 1
  /\ UNCHANGED <<now, entries, inFlight, loads, disposed, task, newest>>

Chain(k, s) == LoaderAnswers(k, s) \/ LoaderFails(k, s)
                 \/ Then(k, s) \/ Catch(k, s) \/ Finally(k, s)

Next ==
  \/ \E c \in Caller, k \in Key : Get(c, k) \/ Refresh(c, k)
  \/ RefreshAll
  \/ \E k \in Key : Delete(k)
  \/ Clear
  \/ EvictExpired
  \/ Dispose
  \/ \E k \in Key, s \in Slot : Chain(k, s)
  \/ Tick
  \/ Rotate

Spec == Init /\ [][Next]_vars

(* The event loop runs every pending microtask, and the loader is assumed  *)
(* to settle; callers and the user of Delete, Clear, EvictExpired and      *)
(* Dispose owe nothing.                                                    *)
Fairness == \A k \in Key, s \in Slot : WF_vars(Chain(k, s))

FairSpec == Spec /\ Fairness /\ WF_vars(Tick)
-----------------------------------------------------------------------------
(* Single flight: two loads of one key never run at the same time.  "This  *)
(* key's loader is invoked at most once concurrently", lines 10 and 41-42. *)
SingleFlight ==
  \A k \in Key : \A s, t \in Slot :
    Running(loads[k][s]) /\ Running(loads[k][t]) => s = t

(* A caller awaits a promise that is still going to settle, and a          *)
(* registered promise is one that runs: a stale registration would hand    *)
(* every later caller a promise nobody settles.                            *)
NoOrphanWait ==
  /\ \A k \in Key : Shares(k) => Running(loads[k][inFlight[k]])
  /\ \A c \in Caller : task[c].pc = "waiting" =>
       Running(loads[task[c].key][task[c].slot])

(* A call never returns a version older than one that had already landed   *)
(* for its key when the call was made, whatever mix of hits, shared loads, *)
(* failures and stand-ins lies between: a rotated key set never rolls back.*)
NeverGoesBack ==
  \A c \in Caller : IsValue(task[c].out) => task[c].out.ver >= task[c].floor

(* What a load hands to its waiters had not run out of grace when the load *)
(* began, however late the loader failed (lines 185-194).                  *)
ServedWithinGrace ==
  \A k \in Key, s \in Slot :
    IsValue(loads[k][s].out)
      => loads[k][s].startedAt < loads[k][s].out.expiresAt + StaleIfError

(* Every call is answered if the loads settle. *)
EveryCallAnswered ==
  \A c \in Caller : task[c].pc = "waiting" ~> task[c].pc = "idle"
-----------------------------------------------------------------------------
(* What KeyCache sees of the loads of a key, chains, and of a caller's task t. *)
FlightIn(chains) ==
  LET running == {s \in Slot : Running(chains[s])} IN
    IF running = {} THEN None
    ELSE LET l == chains[CHOOSE s \in running : TRUE]
         IN [since |-> l.since, out |-> l.out]

TaskSeen(t) ==
  [waiting |-> t.pc = "waiting",
   key |-> IF t.pc = "waiting" THEN t.key ELSE None,
   out |-> t.out]

Flights == [k \in Key |-> FlightIn(loads[k])]
Tasks   == [c \in Caller |-> TaskSeen(task[c])]

KC == INSTANCE KeyCache WITH flight <- Flights, task <- Tasks

(* Every step of the Node cache is a step the key cache promises, or none. *)
ImplementsKeyCache == KC!Spec
=============================================================================
