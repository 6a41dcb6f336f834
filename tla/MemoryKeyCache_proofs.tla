------------------------ MODULE MemoryKeyCache_proofs ------------------------
(***************************************************************************)
(* Theorems about the Node key cache, for any sets of keys, callers and    *)
(* slots and any ttlMs, staleIfErrorMs and bounds.                         *)
(***************************************************************************)
EXTENDS MemoryKeyCache, TLAPS

-----------------------------------------------------------------------------
(* Typing. *)

(* What a step writes into the three maps has the right type. *)
LEMMA StartedType == ASSUME TypeOK PROVE Started \in Load
  BY DEF TypeOK, Started, NoLoad, Load, Phase, Outcome

LEMMA NoLoadType == NoLoad \in Load
  BY DEF NoLoad, Load, Phase, Outcome

LEMMA AdvancesType ==
  ASSUME TypeOK, NEW k \in Key, NEW s \in Slot, NEW ph \in Phase, NEW v \in Nat,
         NEW o \in Outcome, Advances(k, s, ph, v, o)
  PROVE  loads' \in [Key -> [Slot -> Load]]
<1>1. loads[k][s] \in Load BY DEF TypeOK
<1>2. [phase |-> ph, since |-> loads[k][s].since, startedAt |-> loads[k][s].startedAt,
       ver |-> v, out |-> o] \in Load
  BY <1>1 DEF Load
<1> QED BY <1>2 DEF Advances, TypeOK

LEMMA CalledType ==
  ASSUME TypeOK, NEW c \in Caller, NEW op \in {"get", "refresh"}, NEW k \in Key,
         NEW s \in Slot \cup {None}, NEW o \in Outcome
  PROVE  Called(c, op, k, s, o) \in [Caller -> Task]
  BY DEF TypeOK, Called, Task

LEMMA PeekType == ASSUME TypeOK, NEW k \in Key PROVE Peek(k) \in Entry \cup {None}
  BY DEF TypeOK, Peek

LEMMA LoadForType ==
  ASSUME TypeOK, NEW c \in Caller, NEW op \in {"get", "refresh"}, NEW k \in Key,
         LoadFor(c, op, k)
  PROVE  /\ inFlight' \in [Key -> Slot \cup {None}]
         /\ loads' \in [Key -> [Slot -> Load]]
         /\ task' \in [Caller -> Task]
<1>1. CASE Shares(k) /\ Awaits(c, op, k, inFlight[k]) /\ UNCHANGED <<inFlight, loads>>
  <2>1. inFlight[k] \in Slot \cup {None} /\ None \in Outcome
    BY DEF TypeOK, Outcome
  <2> QED BY <1>1, <2>1, CalledType DEF Awaits, TypeOK
<1>2. ASSUME NEW s \in Slot,
             loads' = [loads EXCEPT ![k][s] = Started],
             inFlight' = [inFlight EXCEPT ![k] = s],
             Awaits(c, op, k, s)
      PROVE  /\ inFlight' \in [Key -> Slot \cup {None}]
             /\ loads' \in [Key -> [Slot -> Load]]
             /\ task' \in [Caller -> Task]
  <2>1. None \in Outcome BY DEF Outcome
  <2>2. task' \in [Caller -> Task] BY <1>2, <2>1, CalledType DEF Awaits
  <2>3. loads' \in [Key -> [Slot -> Load]] BY <1>2, StartedType DEF TypeOK
  <2> QED BY <1>2, <2>2, <2>3 DEF TypeOK
<1> QED BY <1>1, <1>2 DEF LoadFor

(* The type invariant holds in every behaviour of the cache, for every      *)
(* choice of the constants.                                                *)
THEOREM TypeCorrect == Spec => []TypeOK
<1>1. Init => TypeOK
  <2>1. NoTask \in Task BY DEF NoTask, Task, Outcome
  <2>2. [s \in Slot |-> NoLoad] \in [Slot -> Load] BY NoLoadType
  <2> SUFFICES ASSUME Init PROVE TypeOK OBVIOUS
  <2>3. loads \in [Key -> [Slot -> Load]] BY <2>2 DEF Init
  <2>4. task \in [Caller -> Task] BY <2>1 DEF Init
  <2>5. entries \in [Key -> Entry \cup {None}] BY DEF Init
  <2>6. inFlight \in [Key -> Slot \cup {None}] BY DEF Init
  <2>7. newest \in [Key -> Nat] BY DEF Init
  <2>8. now \in Nat /\ origin \in Nat /\ disposed \in BOOLEAN BY DEF Init
  <2> QED BY <2>3, <2>4, <2>5, <2>6, <2>7, <2>8 DEF TypeOK
<1>2. TypeOK /\ [Next]_vars => TypeOK'
  <2> SUFFICES ASSUME TypeOK, [Next]_vars PROVE TypeOK'
    OBVIOUS
  <2> USE CacheAssumption
  <2>1. ASSUME NEW c \in Caller, NEW k \in Key, Get(c, k) PROVE TypeOK'
    <3>1. CASE disposed /\ Answers(c, "get", k, Refused) /\ UNCHANGED <<inFlight, loads>>
      BY <2>1, <3>1, CalledType DEF Get, Answers, TypeOK, Outcome
    <3>2. CASE Peek(k) # None /\ Answers(c, "get", k, Peek(k)) /\ UNCHANGED <<inFlight, loads>>
      BY <2>1, <3>2, CalledType, PeekType DEF Get, Answers, TypeOK, Outcome
    <3>3. CASE LoadFor(c, "get", k)
      BY <2>1, <3>3, LoadForType DEF Get, TypeOK
    <3> QED BY <2>1, <3>1, <3>2, <3>3 DEF Get
  <2>2. ASSUME NEW c \in Caller, NEW k \in Key, Refresh(c, k) PROVE TypeOK'
    <3>1. CASE disposed /\ Answers(c, "refresh", k, Refused) /\ UNCHANGED <<inFlight, loads>>
      BY <2>2, <3>1, CalledType DEF Refresh, Answers, TypeOK, Outcome
    <3>2. CASE LoadFor(c, "refresh", k)
      BY <2>2, <3>2, LoadForType DEF Refresh, TypeOK
    <3> QED BY <2>2, <3>1, <3>2 DEF Refresh
  <2>3. CASE RefreshAll
    <3> DEFINE opened == {k \in Tracked : ~Shares(k)}
    <3>1. PICK slot \in [opened -> Slot] :
            /\ loads' = [k \in Key |-> IF k \in opened
                                       THEN [loads[k] EXCEPT ![slot[k]] = Started]
                                       ELSE loads[k]]
            /\ inFlight' = [k \in Key |-> IF k \in opened THEN slot[k] ELSE inFlight[k]]
      BY <2>3 DEF RefreshAll
    <3>2. loads' \in [Key -> [Slot -> Load]]
      BY <3>1, StartedType DEF TypeOK
    <3>3. inFlight' \in [Key -> Slot \cup {None}]
      BY <3>1 DEF TypeOK
    <3> QED BY <2>3, <3>2, <3>3 DEF RefreshAll, TypeOK
  <2>4. ASSUME NEW k \in Key, Delete(k) PROVE TypeOK'
    BY <2>4 DEF Delete, TypeOK
  <2>5. CASE Clear
    BY <2>5 DEF Clear, TypeOK
  <2>6. CASE EvictExpired
    BY <2>6, PeekType DEF EvictExpired, TypeOK
  <2>7. CASE Dispose
    BY <2>7 DEF Dispose, TypeOK
  <2>8. ASSUME NEW k \in Key, NEW s \in Slot, Chain(k, s) PROVE TypeOK'
    <3>1. CASE LoaderAnswers(k, s)
      <4>1. origin \in Nat /\ "answered" \in Phase /\ None \in Outcome
        BY DEF TypeOK, Phase, Outcome
      <4>2. loads' \in [Key -> [Slot -> Load]]
        BY <3>1, <4>1, AdvancesType DEF LoaderAnswers
      <4> QED BY <3>1, <4>2 DEF LoaderAnswers, TypeOK
    <3>2. CASE LoaderFails(k, s)
      <4>1. 0 \in Nat /\ "failed" \in Phase /\ None \in Outcome
        BY DEF Phase, Outcome
      <4>2. loads' \in [Key -> [Slot -> Load]]
        BY <3>2, <4>1, AdvancesType DEF LoaderFails
      <4> QED BY <3>2, <4>2 DEF LoaderFails, TypeOK
    <3>3. CASE Then(k, s)
      <4>1. loads[k][s] \in Load BY DEF TypeOK
      <4>2. Landing(k, s) \in Entry BY <4>1 DEF Landing, Entry, Load, TypeOK
      <4>3. loads' \in [Key -> [Slot -> Load]]
        <5>1. /\ "landed" \in Phase
              /\ loads[k][s].ver \in Nat
              /\ Landing(k, s) \in Outcome
          BY <4>1, <4>2 DEF Phase, Load, Outcome
        <5> QED BY <3>3, <5>1, AdvancesType DEF Then
      <4>4. newest' \in [Key -> Nat] BY <3>3, <4>1 DEF Then, TypeOK, Load
      <4> QED BY <3>3, <4>2, <4>3, <4>4 DEF Then, TypeOK
    <3>4. CASE Catch(k, s)
      <4>1. StandIn(k) \in Outcome BY DEF StandIn, TypeOK, Outcome
      <4>2. loads' \in [Key -> [Slot -> Load]]
        <5>1. "landed" \in Phase /\ 0 \in Nat BY DEF Phase
        <5> QED BY <3>4, <4>1, <5>1, AdvancesType DEF Catch
      <4> QED BY <3>4, <4>2 DEF Catch, TypeOK
    <3>5. CASE Finally(k, s)
      <4>1. loads[k][s].out \in Outcome BY DEF TypeOK, Load
      <4>2. \A c \in Caller : Resumed(task[c], loads[k][s].out) \in Task
        BY <4>1 DEF Resumed, TypeOK, Task
      <4>3. task' \in [Caller -> Task] BY <3>5, <4>2 DEF Finally, TypeOK
      <4>4. loads' \in [Key -> [Slot -> Load]] BY <3>5, NoLoadType DEF Finally, TypeOK
      <4> QED BY <3>5, <4>3, <4>4 DEF Finally, Unregistered, TypeOK
    <3> QED BY <2>8, <3>1, <3>2, <3>3, <3>4, <3>5 DEF Chain
  <2>9. CASE Tick
    BY <2>9 DEF Tick, TypeOK
  <2>10. CASE Rotate
    BY <2>10 DEF Rotate, TypeOK
  <2>11. CASE UNCHANGED vars
    BY <2>11 DEF vars, TypeOK
  <2> QED BY <2>1, <2>2, <2>3, <2>4, <2>5, <2>6, <2>7, <2>8, <2>9, <2>10, <2>11 DEF Next
<1> QED BY <1>1, <1>2, PTL DEF Spec
-----------------------------------------------------------------------------
(* Single flight.  The in-flight map can only serve as the lock it is used *)
(* as because a running load is registered until it ends; dispose() drops  *)
(* the registrations, but then no load starts any more.                    *)

Registered ==
  \A k \in Key, s \in Slot : Running(loads[k][s]) => disposed \/ inFlight[k] = s

WaitersAttended ==
  \A c \in Caller : task[c].pc = "waiting" =>
    /\ task[c].key \in Key
    /\ task[c].slot \in Slot
    /\ Running(loads[task[c].key][task[c].slot])

RegisteredRun == \A k \in Key : Shares(k) => Running(loads[k][inFlight[k]])

FlightInv == SingleFlight /\ Registered /\ RegisteredRun /\ WaitersAttended

(* Advancing a load that runs starts and ends none. *)
LEMMA AdvancesRunning ==
  ASSUME TypeOK, NEW k \in Key, NEW s \in Slot, Running(loads[k][s]),
         NEW ph \in Phase \ {"idle"}, NEW v, NEW o, Advances(k, s, ph, v, o)
  PROVE  \A q \in Key, t \in Slot : Running(loads'[q][t]) <=> Running(loads[q][t])
  BY DEF TypeOK, Advances, Running

(* What starting a load in a free slot does to the loads of every key. *)
LEMMA StartedRunning ==
  ASSUME TypeOK, NEW k \in Key, NEW s \in Slot,
         loads' = [loads EXCEPT ![k][s] = Started]
  PROVE  \A q \in Key, t \in Slot :
           Running(loads'[q][t]) <=> Running(loads[q][t]) \/ (q = k /\ t = s)
  BY DEF TypeOK, Started, Running

LEMMA FlightInvStep == TypeOK /\ FlightInv /\ [Next]_vars => FlightInv'
<1> SUFFICES ASSUME TypeOK, FlightInv, [Next]_vars PROVE FlightInv'
  OBVIOUS
<1> USE CacheAssumption
(* A step that leaves the flights alone. *)
<1>a. ASSUME UNCHANGED <<inFlight, disposed, task>>,
             \A q \in Key, t \in Slot : Running(loads'[q][t]) <=> Running(loads[q][t])
      PROVE  FlightInv'
  <2>1. SingleFlight' /\ Registered'
    BY <1>a DEF FlightInv, SingleFlight, Registered
  <2>2. RegisteredRun'
    BY <1>a DEF FlightInv, RegisteredRun, Shares, TypeOK
  <2>3. WaitersAttended'
    BY <1>a DEF FlightInv, WaitersAttended
  <2> QED BY <2>1, <2>2, <2>3 DEF FlightInv
(* A call that is answered at once. *)
<1>b. ASSUME NEW c \in Caller, NEW op, NEW k \in Key, NEW o, Answers(c, op, k, o),
             UNCHANGED <<inFlight, loads, disposed>>
      PROVE  FlightInv'
  <2>1. WaitersAttended'
    BY <1>b DEF FlightInv, WaitersAttended, Answers, Called, TypeOK
  <2> QED BY <1>b, <2>1 DEF FlightInv, SingleFlight, Registered, RegisteredRun, Shares
(* A call that shares or starts a load. *)
<1>c. ASSUME NEW c \in Caller, NEW op, NEW k \in Key, LoadFor(c, op, k),
             ~disposed, UNCHANGED disposed
      PROVE  FlightInv'
  <2>1. CASE Shares(k) /\ Awaits(c, op, k, inFlight[k]) /\ UNCHANGED <<inFlight, loads>>
    <3>1. inFlight[k] \in Slot /\ Running(loads[k][inFlight[k]])
      BY <2>1 DEF Shares, FlightInv, RegisteredRun, TypeOK
    <3>2. WaitersAttended'
      BY <2>1, <3>1 DEF FlightInv, WaitersAttended, Awaits, Called, TypeOK
    <3> QED BY <2>1, <3>2, <1>c DEF FlightInv, SingleFlight, Registered, RegisteredRun, Shares
  <2>2. ASSUME NEW s \in Slot, ~Shares(k), ~Running(loads[k][s]),
               loads' = [loads EXCEPT ![k][s] = Started],
               inFlight' = [inFlight EXCEPT ![k] = s],
               Awaits(c, op, k, s)
        PROVE  FlightInv'
    <3>1. \A q \in Key, t \in Slot :
            Running(loads'[q][t]) <=> Running(loads[q][t]) \/ (q = k /\ t = s)
      BY <2>2, StartedRunning
    <3>2. \A t \in Slot : ~Running(loads[k][t])
      BY <1>c, <2>2 DEF FlightInv, Registered, Shares
    <3>3. SingleFlight'
      BY <3>1, <3>2 DEF FlightInv, SingleFlight
    <3>4. Registered'
      BY <1>c, <2>2, <3>1, <3>2 DEF FlightInv, Registered, TypeOK
    <3>5. RegisteredRun'
      BY <2>2, <3>1 DEF FlightInv, RegisteredRun, Shares, TypeOK
    <3>6. WaitersAttended'
      BY <2>2, <3>1 DEF FlightInv, WaitersAttended, Awaits, Called, TypeOK
    <3> QED BY <3>3, <3>4, <3>5, <3>6 DEF FlightInv
  <2> QED BY <1>c, <2>1, <2>2 DEF LoadFor
<1>1. ASSUME NEW c \in Caller, NEW k \in Key, Get(c, k) PROVE FlightInv'
  BY <1>1, <1>b, <1>c DEF Get
<1>2. ASSUME NEW c \in Caller, NEW k \in Key, Refresh(c, k) PROVE FlightInv'
  BY <1>2, <1>b, <1>c DEF Refresh
<1>3. CASE RefreshAll
  <2> DEFINE opened == {k \in Tracked : ~Shares(k)}
  <2>1. PICK slot \in [opened -> Slot] :
          /\ \A k \in opened : ~Running(loads[k][slot[k]])
          /\ loads' = [k \in Key |-> IF k \in opened
                                     THEN [loads[k] EXCEPT ![slot[k]] = Started]
                                     ELSE loads[k]]
          /\ inFlight' = [k \in Key |-> IF k \in opened THEN slot[k] ELSE inFlight[k]]
    BY <1>3 DEF RefreshAll
  <2>2. ~disposed /\ UNCHANGED <<disposed, task>>
    BY <1>3 DEF RefreshAll
  <2>3. \A q \in Key, t \in Slot :
          Running(loads'[q][t]) <=> Running(loads[q][t]) \/ (q \in opened /\ t = slot[q])
    BY <2>1 DEF TypeOK, Started, Running
  <2>4. \A q \in opened, t \in Slot : q \in Key /\ ~Running(loads[q][t])
    BY <2>2 DEF FlightInv, Registered, Shares, Tracked
  <2>5. SingleFlight'
    BY <2>3, <2>4 DEF FlightInv, SingleFlight
  <2>6. Registered'
    BY <2>1, <2>2, <2>3, <2>4 DEF FlightInv, Registered
  <2>7. RegisteredRun'
    BY <2>1, <2>3 DEF FlightInv, RegisteredRun, Shares, TypeOK
  <2>8. WaitersAttended'
    BY <2>2, <2>3 DEF FlightInv, WaitersAttended
  <2> QED BY <2>5, <2>6, <2>7, <2>8 DEF FlightInv
<1>4. ASSUME NEW k \in Key, Delete(k) PROVE FlightInv'
  BY <1>4, <1>a DEF Delete
<1>5. CASE Clear
  BY <1>5, <1>a DEF Clear
<1>6. CASE EvictExpired
  BY <1>6, <1>a DEF EvictExpired
<1>7. CASE Dispose
  BY <1>7 DEF Dispose, FlightInv, SingleFlight, Registered, RegisteredRun, WaitersAttended,
              Shares, TypeOK
<1>8. ASSUME NEW k \in Key, NEW s \in Slot, Chain(k, s) PROVE FlightInv'
  <2>0. {"answered", "failed", "landed"} \subseteq Phase \ {"idle"} BY DEF Phase
  <2>1. CASE LoaderAnswers(k, s)
    BY <2>0, <2>1, <1>a, AdvancesRunning DEF LoaderAnswers, Running
  <2>2. CASE LoaderFails(k, s)
    BY <2>0, <2>2, <1>a, AdvancesRunning DEF LoaderFails, Running
  <2>3. CASE Then(k, s)
    BY <2>0, <2>3, <1>a, AdvancesRunning DEF Then, Running
  <2>4. CASE Catch(k, s)
    BY <2>0, <2>4, <1>a, AdvancesRunning DEF Catch, Running
  <2>5. CASE Finally(k, s)
    <3>1. \A q \in Key, t \in Slot :
            Running(loads'[q][t]) <=> Running(loads[q][t]) /\ ~(q = k /\ t = s)
      BY <2>5 DEF Finally, TypeOK, NoLoad, Running
    <3>2. \A t \in Slot : Running(loads[k][t]) => t = s
      BY <2>5 DEF Finally, Running, FlightInv, SingleFlight
    <3>3. SingleFlight' BY <3>1 DEF FlightInv, SingleFlight
    <3>4. Registered'
      BY <2>5, <3>1, <3>2 DEF Finally, Unregistered, FlightInv, Registered, TypeOK
    <3>5. RegisteredRun'
      BY <2>5, <3>1 DEF Finally, Unregistered, FlightInv, RegisteredRun, Shares, TypeOK
    <3>6. WaitersAttended'
      <4> SUFFICES ASSUME NEW c \in Caller, task'[c].pc = "waiting"
                   PROVE  /\ task'[c].key \in Key
                          /\ task'[c].slot \in Slot
                          /\ Running(loads'[task'[c].key][task'[c].slot])
        BY DEF WaitersAttended
      <4>1. task'[c] = task[c] /\ ~(task[c].key = k /\ task[c].slot = s)
        BY <2>5 DEF Finally, Resumed
      <4> QED BY <3>1, <4>1 DEF FlightInv, WaitersAttended
    <3> QED BY <3>3, <3>4, <3>5, <3>6 DEF FlightInv
  <2> QED BY <1>8, <2>1, <2>2, <2>3, <2>4, <2>5 DEF Chain
<1>9. CASE Tick
  BY <1>9, <1>a DEF Tick
<1>10. CASE Rotate
  BY <1>10, <1>a DEF Rotate
<1>11. CASE UNCHANGED vars
  BY <1>11, <1>a DEF vars
<1> QED
  BY <1>1, <1>2, <1>3, <1>4, <1>5, <1>6, <1>7, <1>8, <1>9, <1>10, <1>11 DEF Next

LEMMA FlightInvHolds == Spec => []FlightInv
<1>1. Init => FlightInv
  BY DEF Init, NoLoad, NoTask, FlightInv, SingleFlight, Registered, RegisteredRun,
         WaitersAttended, Running, Shares
<1> QED BY <1>1, FlightInvStep, TypeCorrect, PTL DEF Spec

(* In every behaviour of the cache, for any keys, callers and slots, two   *)
(* loads of one key never run at the same time (load(), lines 165-201).    *)
THEOREM SingleFlightTheorem == Spec => []SingleFlight
  BY FlightInvHolds, PTL DEF FlightInv

(* Nobody awaits a promise that no load will settle: neither a caller nor, *)
(* through the in-flight map, a later one.                                 *)
THEOREM NoOrphanWaitTheorem == Spec => []NoOrphanWait
<1>1. FlightInv => NoOrphanWait
  BY DEF FlightInv, RegisteredRun, WaitersAttended, NoOrphanWait
<1> QED BY <1>1, FlightInvHolds, PTL
-----------------------------------------------------------------------------
(* Versions.  The loads of a key run one after the other, so what lands is *)
(* never older than what landed before, and an entry, when there is one,   *)
(* is the newest that landed.                                              *)

NewestIsOld == \A k \in Key : newest[k] <= origin

EntriesAreNewest == \A k \in Key : entries[k] # None => entries[k].ver = newest[k]

AnswersAreNewer ==
  \A k \in Key, s \in Slot : loads[k][s].phase = "answered" =>
    newest[k] <= loads[k][s].ver /\ loads[k][s].ver <= origin

OutcomesAreNewest ==
  \A k \in Key, s \in Slot :
    loads[k][s].phase = "landed" /\ IsValue(loads[k][s].out)
      => loads[k][s].out.ver = newest[k]

FloorsAreOld ==
  \A c \in Caller : task[c].pc = "waiting" =>
    task[c].floor <= newest[task[c].key] /\ task[c].out = None

VersionInv == /\ NewestIsOld
              /\ EntriesAreNewest
              /\ AnswersAreNewer
              /\ OutcomesAreNewest
              /\ FloorsAreOld
              /\ NeverGoesBack

(* Starting loads adds none that has an answer or an outcome. *)
LEMMA StartedSays == Started.phase = "loading" BY DEF Started

LEMMA VersionInvStep ==
  TypeOK /\ FlightInv /\ VersionInv /\ [Next]_vars => VersionInv'
<1> SUFFICES ASSUME TypeOK, FlightInv, VersionInv, [Next]_vars PROVE VersionInv'
  OBVIOUS
<1> USE CacheAssumption
(* A call answered at once with something no older than the newest. *)
<1>a. ASSUME NEW c \in Caller, NEW op, NEW k \in Key, NEW o, Answers(c, op, k, o),
             IsValue(o) => o.ver >= newest[k],
             UNCHANGED <<origin, entries, loads, newest>>
      PROVE  VersionInv'
  <2>1. NewestIsOld' /\ EntriesAreNewest' /\ AnswersAreNewer' /\ OutcomesAreNewest'
    BY <1>a DEF VersionInv, NewestIsOld, EntriesAreNewest, AnswersAreNewer, OutcomesAreNewest
  <2>2. FloorsAreOld' /\ NeverGoesBack'
    BY <1>a DEF VersionInv, FloorsAreOld, NeverGoesBack, Answers, Called, TypeOK
  <2> QED BY <2>1, <2>2 DEF VersionInv
(* Loads that start, or change nothing, while a caller may begin to wait. *)
<1>b. ASSUME UNCHANGED <<origin, entries, newest>>,
             \A q \in Key, t \in Slot :
               loads'[q][t] = loads[q][t] \/ loads'[q][t].phase = "loading"
      PROVE  NewestIsOld' /\ EntriesAreNewest' /\ AnswersAreNewer' /\ OutcomesAreNewest'
  <2>1. NewestIsOld' /\ EntriesAreNewest'
    BY <1>b DEF VersionInv, NewestIsOld, EntriesAreNewest
  <2>2. AnswersAreNewer'
    BY <1>b DEF VersionInv, AnswersAreNewer
  <2>3. OutcomesAreNewest'
    BY <1>b DEF VersionInv, OutcomesAreNewest
  <2> QED BY <2>1, <2>2, <2>3
<1>c. ASSUME NEW c \in Caller, NEW op, NEW k \in Key, LoadFor(c, op, k),
             UNCHANGED <<origin, entries, newest>>
      PROVE  VersionInv'
  <2>1. \A q \in Key, t \in Slot :
          loads'[q][t] = loads[q][t] \/ loads'[q][t].phase = "loading"
    BY <1>c, StartedSays DEF LoadFor, TypeOK
  <2>2. PICK s \in Slot \cup {None} : Awaits(c, op, k, s)
    BY <1>c DEF LoadFor, TypeOK
  <2>3. FloorsAreOld' /\ NeverGoesBack'
    BY <1>c, <2>2 DEF VersionInv, FloorsAreOld, NeverGoesBack, Awaits, Called, IsValue, TypeOK
  <2> QED BY <1>c, <1>b, <2>1, <2>3 DEF VersionInv
<1>1. ASSUME NEW c \in Caller, NEW k \in Key, Get(c, k) PROVE VersionInv'
  <2>1. IsValue(Peek(k)) => Peek(k).ver >= newest[k]
    BY DEF VersionInv, EntriesAreNewest, Peek, IsValue, TypeOK
  <2>2. ~IsValue(Refused) BY DEF IsValue
  <2> QED BY <1>1, <2>1, <2>2, <1>a, <1>c DEF Get
<1>2. ASSUME NEW c \in Caller, NEW k \in Key, Refresh(c, k) PROVE VersionInv'
  <2>1. ~IsValue(Refused) BY DEF IsValue
  <2> QED BY <1>2, <2>1, <1>a, <1>c DEF Refresh
<1>3. CASE RefreshAll
  <2>1. \A q \in Key, t \in Slot :
          loads'[q][t] = loads[q][t] \/ loads'[q][t].phase = "loading"
    BY <1>3, StartedSays DEF RefreshAll, TypeOK
  <2>2. FloorsAreOld' /\ NeverGoesBack'
    BY <1>3 DEF RefreshAll, VersionInv, FloorsAreOld, NeverGoesBack
  <2> QED BY <1>3, <1>b, <2>1, <2>2 DEF RefreshAll, VersionInv
(* Entries dropped or kept. *)
<1>d. ASSUME UNCHANGED <<origin, loads, task, newest>>,
             \A q \in Key : entries'[q] \in {None, entries[q]}
      PROVE  VersionInv'
  BY <1>d DEF VersionInv, NewestIsOld, EntriesAreNewest, AnswersAreNewer,
              OutcomesAreNewest, FloorsAreOld, NeverGoesBack
<1>4. ASSUME NEW k \in Key, Delete(k) PROVE VersionInv'
  BY <1>4, <1>d DEF Delete, TypeOK
<1>5. CASE Clear
  BY <1>5, <1>d DEF Clear
<1>6. CASE EvictExpired
  BY <1>6, <1>d DEF EvictExpired, Peek
<1>7. CASE Dispose
  BY <1>7, <1>d DEF Dispose
<1>8. ASSUME NEW k \in Key, NEW s \in Slot, Chain(k, s) PROVE VersionInv'
  <2>0. \A t \in Slot : Running(loads[k][s]) /\ Running(loads[k][t]) => t = s
    BY DEF FlightInv, SingleFlight
  <2>1. CASE LoaderAnswers(k, s)
    <3>1. loads'[k][s].phase = "answered" /\ loads'[k][s].ver = origin
      BY <2>1 DEF LoaderAnswers, Advances, TypeOK
    <3>2. \A q \in Key, t \in Slot : ~(q = k /\ t = s) => loads'[q][t] = loads[q][t]
      BY <2>1 DEF LoaderAnswers, Advances, TypeOK
    <3>3. AnswersAreNewer'
      BY <2>1, <3>1, <3>2 DEF LoaderAnswers, VersionInv, AnswersAreNewer, NewestIsOld, TypeOK
    <3>4. OutcomesAreNewest'
      BY <2>1, <3>1, <3>2 DEF LoaderAnswers, VersionInv, OutcomesAreNewest
    <3> QED BY <2>1, <3>3, <3>4 DEF LoaderAnswers, VersionInv, NewestIsOld, EntriesAreNewest,
                                     FloorsAreOld, NeverGoesBack
  <2>2. CASE LoaderFails(k, s)
    <3>1. loads'[k][s].phase = "failed"
      BY <2>2 DEF LoaderFails, Advances, TypeOK
    <3>2. \A q \in Key, t \in Slot : ~(q = k /\ t = s) => loads'[q][t] = loads[q][t]
      BY <2>2 DEF LoaderFails, Advances, TypeOK
    <3>3. AnswersAreNewer' /\ OutcomesAreNewest'
      BY <2>2, <3>1, <3>2 DEF LoaderFails, VersionInv, AnswersAreNewer, OutcomesAreNewest
    <3> QED BY <2>2, <3>3 DEF LoaderFails, VersionInv, NewestIsOld, EntriesAreNewest,
                               FloorsAreOld, NeverGoesBack
  <2>3. CASE Then(k, s)
    <3> DEFINE v == loads[k][s].ver
    <3>1. v \in Nat /\ newest[k] \in Nat /\ origin \in Nat /\ newest[k] <= v /\ v <= origin
      BY <2>3 DEF Then, VersionInv, AnswersAreNewer, TypeOK, Load
    <3>2. newest' = [newest EXCEPT ![k] = v]
      <4>1. ~(newest[k] > v) BY <3>1
      <4> QED BY <2>3, <4>1 DEF Then
    <3>3. loads'[k][s].phase = "landed" /\ loads'[k][s].out.ver = v
      BY <2>3 DEF Then, Advances, Landing, TypeOK
    <3>4. \A q \in Key, t \in Slot : ~(q = k /\ t = s) => loads'[q][t] = loads[q][t]
      BY <2>3 DEF Then, Advances, TypeOK
    <3>5. \A t \in Slot \ {s} : loads[k][t].phase = "idle"
      BY <2>0, <2>3 DEF Then, Running
    <3>6. NewestIsOld' /\ EntriesAreNewest'
      BY <2>3, <3>1, <3>2 DEF Then, Landing, VersionInv, NewestIsOld, EntriesAreNewest, TypeOK
    <3>7. AnswersAreNewer'
      BY <2>3, <3>2, <3>3, <3>4, <3>5 DEF Then, VersionInv, AnswersAreNewer, TypeOK
    <3>8. OutcomesAreNewest'
      BY <2>3, <3>2, <3>3, <3>4, <3>5 DEF Then, VersionInv, OutcomesAreNewest, TypeOK
    <3>9. FloorsAreOld'
      <4> SUFFICES ASSUME NEW c \in Caller, task[c].pc = "waiting"
                   PROVE  task[c].floor <= newest'[task[c].key] /\ task[c].out = None
        BY <2>3 DEF Then, FloorsAreOld
      <4>1. task[c].key \in Key /\ task[c].floor \in Nat
        BY DEF FlightInv, WaitersAttended, TypeOK, Task
      <4>2. task[c].floor <= newest[task[c].key] /\ task[c].out = None
        BY DEF VersionInv, FloorsAreOld
      <4> QED BY <3>1, <3>2, <4>1, <4>2 DEF TypeOK
    <3>10. NeverGoesBack'
      BY <2>3 DEF Then, VersionInv, NeverGoesBack
    <3> QED BY <3>6, <3>7, <3>8, <3>9, <3>10 DEF VersionInv
  <2>4. CASE Catch(k, s)
    <3>1. loads'[k][s].phase = "landed" /\ loads'[k][s].out = StandIn(k)
      BY <2>4 DEF Catch, Advances, TypeOK
    <3>2. \A q \in Key, t \in Slot : ~(q = k /\ t = s) => loads'[q][t] = loads[q][t]
      BY <2>4 DEF Catch, Advances, TypeOK
    <3>3. IsValue(StandIn(k)) => StandIn(k).ver = newest[k]
      BY DEF StandIn, IsValue, VersionInv, EntriesAreNewest
    <3>4. AnswersAreNewer' /\ OutcomesAreNewest'
      BY <2>4, <3>1, <3>2, <3>3 DEF Catch, VersionInv, AnswersAreNewer, OutcomesAreNewest
    <3> QED BY <2>4, <3>4 DEF Catch, VersionInv, NewestIsOld, EntriesAreNewest,
                               FloorsAreOld, NeverGoesBack
  <2>5. CASE Finally(k, s)
    <3>1. loads'[k][s].phase = "idle"
      BY <2>5 DEF Finally, NoLoad, TypeOK
    <3>2. \A q \in Key, t \in Slot : ~(q = k /\ t = s) => loads'[q][t] = loads[q][t]
      BY <2>5 DEF Finally, TypeOK
    <3>3. AnswersAreNewer' /\ OutcomesAreNewest'
      BY <2>5, <3>1, <3>2 DEF Finally, VersionInv, AnswersAreNewer, OutcomesAreNewest
    <3>4. FloorsAreOld'
      BY <2>5 DEF Finally, Resumed, VersionInv, FloorsAreOld
    <3>5. NeverGoesBack'
      <4> SUFFICES ASSUME NEW c \in Caller, IsValue(task'[c].out)
                   PROVE  task'[c].out.ver >= task'[c].floor
        BY DEF NeverGoesBack
      <4>1. CASE task'[c] = task[c]
        BY <4>1 DEF VersionInv, NeverGoesBack
      <4>2. CASE /\ task[c].pc = "waiting" /\ task[c].key = k /\ task[c].slot = s
                 /\ task'[c] = Resumed(task[c], loads[k][s].out)
        <5>1. task[c].floor \in Nat /\ newest[k] \in Nat /\ task[c].floor <= newest[k]
          BY <4>2 DEF VersionInv, FloorsAreOld, TypeOK, Task
        <5>2. loads[k][s].out.ver = newest[k]
          BY <2>5, <4>2 DEF Resumed, Finally, VersionInv, OutcomesAreNewest
        <5> QED BY <4>2, <5>1, <5>2 DEF Resumed
      <4> QED BY <2>5, <4>1, <4>2 DEF Finally
    <3> QED BY <2>5, <3>3, <3>4, <3>5 DEF Finally, VersionInv, NewestIsOld, EntriesAreNewest
  <2> QED BY <1>8, <2>1, <2>2, <2>3, <2>4, <2>5 DEF Chain
<1>9. CASE Tick
  BY <1>9 DEF Tick, VersionInv, NewestIsOld, EntriesAreNewest, AnswersAreNewer,
              OutcomesAreNewest, FloorsAreOld, NeverGoesBack
<1>10. CASE Rotate
  <2>1. NewestIsOld' /\ AnswersAreNewer'
    <3>1. \A k \in Key : newest[k] \in Nat BY DEF TypeOK
    <3>2. \A k \in Key, s \in Slot : loads[k][s].ver \in Nat BY DEF TypeOK, Load
    <3> QED BY <1>10, <3>1, <3>2
            DEF Rotate, VersionInv, NewestIsOld, AnswersAreNewer, TypeOK
  <2> QED BY <1>10, <2>1 DEF Rotate, VersionInv, EntriesAreNewest, OutcomesAreNewest,
                             FloorsAreOld, NeverGoesBack
<1>11. CASE UNCHANGED vars
  BY <1>11 DEF vars, VersionInv, NewestIsOld, EntriesAreNewest, AnswersAreNewer,
               OutcomesAreNewest, FloorsAreOld, NeverGoesBack
<1> QED
  BY <1>1, <1>2, <1>3, <1>4, <1>5, <1>6, <1>7, <1>8, <1>9, <1>10, <1>11 DEF Next

(* No call returns a version older than one that had landed when the call  *)
(* was made: not a hit, not a shared load, not a stand-in after a failure. *)
THEOREM NeverGoesBackTheorem == Spec => []NeverGoesBack
<1>1. Init => VersionInv
  BY CacheAssumption
     DEF Init, NoLoad, NoTask, VersionInv, NewestIsOld, EntriesAreNewest, AnswersAreNewer,
         OutcomesAreNewest, FloorsAreOld, NeverGoesBack, IsValue
<1>2. VersionInv => NeverGoesBack BY DEF VersionInv
<1> QED BY <1>1, <1>2, VersionInvStep, TypeCorrect, FlightInvHolds, PTL DEF Spec
-----------------------------------------------------------------------------
(* Grace.  The clock does not run backwards, so a stand-in within its grace*)
(* when the loader failed was within it when the load began.               *)

LoadsBeganBefore == \A k \in Key, s \in Slot : loads[k][s].startedAt <= now

GraceInv == LoadsBeganBefore /\ ServedWithinGrace

LEMMA GraceInvStep == TypeOK /\ GraceInv /\ [Next]_vars => GraceInv'
<1> SUFFICES ASSUME TypeOK, GraceInv, [Next]_vars PROVE GraceInv'
  OBVIOUS
<1> USE CacheAssumption
<1>a. ASSUME UNCHANGED now,
             \A q \in Key, t \in Slot :
               loads'[q][t] \in {loads[q][t], Started, NoLoad}
      PROVE  GraceInv'
  <2>1. ~IsValue(Started.out) /\ Started.startedAt = now
    BY DEF Started, IsValue
  <2>2. ~IsValue(NoLoad.out) /\ NoLoad.startedAt <= now
    BY DEF NoLoad, IsValue, TypeOK
  <2>3. now <= now BY DEF TypeOK
  <2> QED BY <1>a, <2>1, <2>2, <2>3 DEF GraceInv, LoadsBeganBefore, ServedWithinGrace
(* A load that advances keeps its beginning; its outcome must be in grace. *)
<1>b. ASSUME NEW k \in Key, NEW s \in Slot, NEW ph, NEW v, NEW o,
             Advances(k, s, ph, v, o), UNCHANGED now,
             IsValue(o) => loads[k][s].startedAt < o.expiresAt + StaleIfError
      PROVE  GraceInv'
  <2>1. loads'[k][s].startedAt = loads[k][s].startedAt /\ loads'[k][s].out = o
    BY <1>b DEF Advances, TypeOK
  <2>2. \A q \in Key, t \in Slot : ~(q = k /\ t = s) => loads'[q][t] = loads[q][t]
    BY <1>b DEF Advances, TypeOK
  <2> QED BY <1>b, <2>1, <2>2 DEF GraceInv, LoadsBeganBefore, ServedWithinGrace
<1>c. ASSUME NEW c \in Caller, NEW op, NEW k \in Key, LoadFor(c, op, k), UNCHANGED now
      PROVE  GraceInv'
  BY <1>c, <1>a DEF LoadFor, TypeOK
<1>1. ASSUME NEW c \in Caller, NEW k \in Key, Get(c, k) PROVE GraceInv'
  BY <1>1, <1>a, <1>c DEF Get
<1>2. ASSUME NEW c \in Caller, NEW k \in Key, Refresh(c, k) PROVE GraceInv'
  BY <1>2, <1>a, <1>c DEF Refresh
<1>3. CASE RefreshAll
  BY <1>3, <1>a DEF RefreshAll, TypeOK
<1>4. ASSUME NEW k \in Key, Delete(k) PROVE GraceInv'
  BY <1>4, <1>a DEF Delete
<1>5. CASE Clear
  BY <1>5, <1>a DEF Clear
<1>6. CASE EvictExpired
  BY <1>6, <1>a DEF EvictExpired
<1>7. CASE Dispose
  BY <1>7, <1>a DEF Dispose
<1>8. ASSUME NEW k \in Key, NEW s \in Slot, Chain(k, s) PROVE GraceInv'
  <2>0. ~IsValue(None) /\ ~IsValue(Failed) BY DEF IsValue
  <2>1. now \in Nat /\ loads[k][s].startedAt \in Nat /\ loads[k][s].startedAt <= now
    BY DEF TypeOK, Load, GraceInv, LoadsBeganBefore
  <2>2. CASE LoaderAnswers(k, s)
    BY <2>0, <2>2, <1>b DEF LoaderAnswers
  <2>3. CASE LoaderFails(k, s)
    BY <2>0, <2>3, <1>b DEF LoaderFails
  <2>4. CASE Then(k, s)
    <3>1. loads[k][s].startedAt < Landing(k, s).expiresAt + StaleIfError
      BY <2>1 DEF Landing
    <3> QED BY <2>4, <3>1, <1>b DEF Then
  <2>5. CASE Catch(k, s)
    <3>1. ASSUME IsValue(StandIn(k))
          PROVE  loads[k][s].startedAt < StandIn(k).expiresAt + StaleIfError
      <4>1. entries[k] \in Entry /\ StandIn(k) = entries[k] /\ InGrace(entries[k])
        BY <3>1, <2>0 DEF StandIn, TypeOK
      <4>2. entries[k].expiresAt \in Nat BY <4>1 DEF Entry
      <4> QED BY <2>1, <4>1, <4>2 DEF InGrace
    <3> QED BY <2>5, <3>1, <1>b DEF Catch
  <2>6. CASE Finally(k, s)
    BY <2>6, <1>a DEF Finally, TypeOK
  <2> QED BY <1>8, <2>2, <2>3, <2>4, <2>5, <2>6 DEF Chain
<1>9. CASE Tick
  <2>1. \A k \in Key, s \in Slot : loads[k][s].startedAt \in Nat BY DEF TypeOK, Load
  <2>2. now \in Nat BY DEF TypeOK
  <2> QED BY <1>9, <2>1, <2>2 DEF Tick, GraceInv, LoadsBeganBefore, ServedWithinGrace
<1>10. CASE Rotate
  BY <1>10, <1>a DEF Rotate
<1>11. CASE UNCHANGED vars
  BY <1>11, <1>a DEF vars
<1> QED
  BY <1>1, <1>2, <1>3, <1>4, <1>5, <1>6, <1>7, <1>8, <1>9, <1>10, <1>11 DEF Next

(* A failed load never hands out an entry whose grace had run out when the *)
(* load began (.catch, lines 185-194).                                     *)
THEOREM ServedWithinGraceTheorem == Spec => []ServedWithinGrace
<1>1. Init => GraceInv
  BY CacheAssumption
     DEF Init, NoLoad, GraceInv, LoadsBeganBefore, ServedWithinGrace, IsValue
<1>2. GraceInv => ServedWithinGrace BY DEF GraceInv
<1> QED BY <1>1, <1>2, GraceInvStep, TypeCorrect, PTL DEF Spec
-----------------------------------------------------------------------------
(***************************************************************************)
(* The Node key cache implements KeyCache, for any values of the           *)
(* constants: single flight makes the load that runs for a key its flight, *)
(* and every step of a promise chain is a step of that flight.             *)
(***************************************************************************)

(* Seen as a flight. *)

LEMMA NoFlight ==
  ASSUME NEW chains, \A s \in Slot : ~Running(chains[s])
  PROVE  FlightIn(chains) = None
  BY DEF FlightIn

LEMMA TheFlight ==
  ASSUME NEW chains, NEW s \in Slot, Running(chains[s]),
         \A t \in Slot : Running(chains[t]) => t = s
  PROVE  FlightIn(chains) = [since |-> chains[s].since, out |-> chains[s].out]
<1>1. {t \in Slot : Running(chains[t])} = {s}
  OBVIOUS
<1>2. (CHOOSE t \in {s} : TRUE) = s
  OBVIOUS
<1> QED BY <1>1, <1>2 DEF FlightIn

(* Chains that differ in no slot that runs look the same. *)
LEMMA SameFlight ==
  ASSUME NEW a, NEW b, NEW s \in Slot, Running(a[s]), Running(b[s]),
         \A t \in Slot : Running(a[t]) => t = s,
         \A t \in Slot : Running(b[t]) => t = s,
         a[s].since = b[s].since, a[s].out = b[s].out
  PROVE  FlightIn(a) = FlightIn(b)
  BY TheFlight

(* What the abstract steps need to know of a load beyond its being alone.  *)
Dated ==
  \A k \in Key, s \in Slot :
    /\ Running(loads[k][s]) => loads[k][s].since =< origin
    /\ loads[k][s].phase = "answered" => loads[k][s].since =< loads[k][s].ver
    /\ loads[k][s].phase \in {"loading", "answered", "failed"} => loads[k][s].out = None
    /\ loads[k][s].phase = "landed" => loads[k][s].out # None

RefInv == TypeOK /\ FlightInv /\ VersionInv /\ Dated

LEMMA DatedStep == TypeOK /\ VersionInv /\ Dated /\ [Next]_vars => Dated'
<1> SUFFICES ASSUME TypeOK, VersionInv, Dated, [Next]_vars PROVE Dated'
  OBVIOUS
<1> USE CacheAssumption
(* One slot moves; what is in it is dated. *)
<1>a. ASSUME NEW k \in Key, NEW s \in Slot, NEW l, loads' = [loads EXCEPT ![k][s] = l],
             UNCHANGED origin,
             Running(l) => l.since =< origin,
             l.phase = "answered" => l.since =< l.ver,
             l.phase \in {"loading", "answered", "failed"} => l.out = None,
             l.phase = "landed" => l.out # None
      PROVE  Dated'
  <2>1. /\ loads'[k][s] = l
        /\ \A q \in Key, t \in Slot : q # k \/ t # s => loads'[q][t] = loads[q][t]
    BY <1>a DEF TypeOK
  <2> QED BY <1>a, <2>1 DEF Dated, Running
<1>b. ASSUME UNCHANGED <<loads, origin>> PROVE Dated'
  BY <1>b DEF Dated, Running
<1>c. /\ Started.phase = "loading" /\ Started.since = origin /\ Started.out = None
      /\ origin \in Nat
  BY DEF Started, TypeOK
<1>d. ASSUME NEW c \in Caller, NEW op, NEW k \in Key, LoadFor(c, op, k), UNCHANGED origin
      PROVE  Dated'
  <2>1. CASE UNCHANGED loads
    BY <1>b, <1>d, <2>1
  <2>2. ASSUME NEW s \in Slot, loads' = [loads EXCEPT ![k][s] = Started] PROVE Dated'
    <3> HIDE DEF Started
    <3>1. Started.since =< origin BY <1>c
    <3> QED BY <1>a, <1>c, <1>d, <2>2, <3>1
  <2> QED BY <1>d, <2>1, <2>2 DEF LoadFor
<1>1. ASSUME NEW c \in Caller, NEW k \in Key, Get(c, k) \/ Refresh(c, k) PROVE Dated'
  BY <1>1, <1>b, <1>d DEF Get, Refresh
<1>2. CASE RefreshAll
  <2>1. \A q \in Key, t \in Slot : loads'[q][t] = loads[q][t] \/ loads'[q][t] = Started
    BY <1>2 DEF RefreshAll, Tracked, TypeOK
  <2>2. UNCHANGED origin BY <1>2 DEF RefreshAll
  <2> QED BY <1>c, <2>1, <2>2 DEF Dated, Running
<1>3. ASSUME NEW k \in Key, NEW s \in Slot, Chain(k, s) PROVE Dated'
  <2>0. loads[k][s] \in Load BY DEF TypeOK
  <2>1. ASSUME NEW ph \in Phase, NEW v, NEW o, Advances(k, s, ph, v, o), UNCHANGED origin,
               Running(loads[k][s]), ph = "answered" => loads[k][s].since =< v,
               ph \in {"loading", "answered", "failed"} => o = None,
               ph = "landed" => o # None
        PROVE  Dated'
    <3> DEFINE l == [phase |-> ph, since |-> loads[k][s].since,
                     startedAt |-> loads[k][s].startedAt, ver |-> v, out |-> o]
    <3>1. loads' = [loads EXCEPT ![k][s] = l] BY <2>1 DEF Advances, TypeOK
    <3>2. /\ Running(l) => l.since =< origin
          /\ l.phase = "answered" => l.since =< l.ver
          /\ l.phase \in {"loading", "answered", "failed"} => l.out = None
          /\ l.phase = "landed" => l.out # None
      BY <2>1 DEF Dated
    <3> HIDE DEF l
    <3> QED BY <1>a, <2>1, <3>1, <3>2
  <2>2. CASE LoaderAnswers(k, s)
    <3>1. Running(loads[k][s]) /\ loads[k][s].since =< origin
      BY <2>2 DEF LoaderAnswers, Dated, Running
    <3> QED BY <2>1, <2>2, <3>1 DEF LoaderAnswers, Phase
  <2>3. CASE LoaderFails(k, s)
    <3>1. Running(loads[k][s]) BY <2>3 DEF LoaderFails, Running
    <3> QED BY <2>1, <2>3, <3>1 DEF LoaderFails, Phase
  <2>4. CASE Then(k, s)
    <3>1. Running(loads[k][s]) BY <2>4 DEF Then, Running
    <3>2. Landing(k, s) # None BY <2>0 DEF Landing, Load, TypeOK, Entry
    <3> QED BY <2>1, <2>4, <3>1, <3>2 DEF Then, Phase
  <2>5. CASE Catch(k, s)
    <3>1. Running(loads[k][s]) BY <2>5 DEF Catch, Running
    <3>2. StandIn(k) # None BY DEF StandIn
    <3> QED BY <2>1, <2>5, <3>1, <3>2 DEF Catch, Phase
  <2>6. CASE Finally(k, s)
    <3>1. NoLoad.phase = "idle" BY DEF NoLoad
    <3> HIDE DEF NoLoad
    <3> QED BY <1>a, <2>6, <3>1 DEF Finally, Running
  <2> QED BY <1>3, <2>2, <2>3, <2>4, <2>5, <2>6 DEF Chain
<1>4. CASE Clear \/ EvictExpired \/ Dispose \/ Tick \/ \E k \in Key : Delete(k)
  BY <1>4, <1>b DEF Delete, Clear, EvictExpired, Dispose, Tick
<1>5. CASE Rotate
  <2>1. UNCHANGED loads /\ origin' = origin + 1 /\ origin \in Nat
    BY <1>5 DEF Rotate, TypeOK
  <2>2. \A k \in Key, s \in Slot : loads[k][s].since \in Nat BY DEF TypeOK, Load
  <2> QED BY <2>1, <2>2 DEF Dated, Running
<1>6. CASE UNCHANGED vars
  BY <1>6, <1>b DEF vars
<1> QED BY <1>1, <1>2, <1>3, <1>4, <1>5, <1>6 DEF Next

LEMMA RefInvHolds == Spec => []RefInv
<1>1. Init => VersionInv /\ Dated
  BY CacheAssumption
     DEF Init, NoLoad, NoTask, VersionInv, NewestIsOld, EntriesAreNewest, AnswersAreNewer,
         OutcomesAreNewest, FloorsAreOld, NeverGoesBack, IsValue, Dated, Running
<1>2. TypeOK /\ FlightInv /\ VersionInv /\ Dated => RefInv
  BY DEF RefInv
<1> QED
  BY <1>1, <1>2, VersionInvStep, DatedStep, TypeCorrect, FlightInvHolds, PTL DEF Spec
-----------------------------------------------------------------------------
(* Steps.  Each lemma turns a stretch of the code into a step of KeyCache. *)

(* Whose load runs, is whose flight is up. *)
LEMMA FlightsAre ==
  ASSUME RefInv
  PROVE  /\ \A k \in Key, s \in Slot : Running(loads[k][s]) =>
              Flights[k] = [since |-> loads[k][s].since, out |-> loads[k][s].out]
         /\ \A k \in Key : (\A s \in Slot : ~Running(loads[k][s])) => Flights[k] = None
         /\ \A k \in Key, s \in Slot : Running(loads[k][s]) => Flights[k] # None
<1> USE CacheAssumption
<1>1. ASSUME NEW k \in Key, NEW s \in Slot, Running(loads[k][s])
      PROVE  Flights[k] = [since |-> loads[k][s].since, out |-> loads[k][s].out]
  <2>1. \A t \in Slot : Running(loads[k][t]) => t = s
    BY <1>1 DEF RefInv, FlightInv, SingleFlight
  <2> QED BY <1>1, <2>1, TheFlight DEF Flights
<1>2. ASSUME NEW k \in Key, \A s \in Slot : ~Running(loads[k][s]) PROVE Flights[k] = None
  BY <1>2, NoFlight DEF Flights
<1>3. ASSUME NEW k \in Key, NEW s \in Slot, Running(loads[k][s]) PROVE Flights[k] # None
  <2>1. loads[k][s].since \in Nat /\ loads[k][s].out \in Outcome
    BY DEF RefInv, TypeOK, Load
  <2>2. Flights[k] \in [since : Nat, out : Outcome]
    <3>1. Flights[k] = [since |-> loads[k][s].since, out |-> loads[k][s].out] BY <1>1, <1>3
    <3> HIDE <1>1
    <3> QED BY <2>1, <3>1
  <2>3. None \notin [since : Nat, out : Outcome] BY CacheAssumption
  <2> QED BY <2>2, <2>3
<1> QED BY <1>1, <1>2, <1>3

(* A step of the loads of one key changes that flight only. *)
LEMMA OtherFlights ==
  ASSUME RefInv, NEW k \in Key, NEW ls, loads' = [loads EXCEPT ![k] = ls]
  PROVE  Flights' = [Flights EXCEPT ![k] = FlightIn(ls)]
  BY DEF RefInv, TypeOK, Flights

LEMMA SlotStep ==
  ASSUME RefInv, NEW k \in Key, NEW s \in Slot, NEW l,
         \A t \in Slot : Running(loads[k][t]) => t = s,
         loads' = [loads EXCEPT ![k][s] = l]
  PROVE  Flights' = [Flights EXCEPT ![k] =
                       IF Running(l) THEN [since |-> l.since, out |-> l.out] ELSE None]
<1> DEFINE ls == [loads[k] EXCEPT ![s] = l]
<1>1. loads' = [loads EXCEPT ![k] = ls] BY DEF RefInv, TypeOK
<1>2. /\ ls[s] = l
      /\ \A t \in Slot : t # s => ls[t] = loads[k][t]
  BY DEF RefInv, TypeOK
<1>3. \A t \in Slot : Running(ls[t]) => t = s BY <1>2
<1> HIDE DEF ls
<1>4. FlightIn(ls) = IF Running(l) THEN [since |-> l.since, out |-> l.out] ELSE None
  <2>1. CASE Running(l) BY <1>2, <1>3, <2>1, TheFlight
  <2>2. CASE ~Running(l)
    <3>1. \A t \in Slot : ~Running(ls[t]) BY <1>2, <1>3, <2>2
    <3> QED BY <2>2, <3>1, NoFlight
  <2> QED BY <2>1, <2>2
<1> QED BY <1>1, <1>4, OtherFlights

(* A call that is answered at once, and one that waits. *)
LEMMA CallSeen ==
  ASSUME RefInv, NEW c \in Caller, NEW op, NEW k \in Key, NEW s, NEW o,
         task' = Called(c, op, k, s, o)
  PROVE  Tasks' = [Tasks EXCEPT ![c] =
                     IF s = None THEN [waiting |-> FALSE, key |-> None, out |-> o]
                     ELSE [waiting |-> TRUE, key |-> k, out |-> o]]
<1> DEFINE t == [pc |-> IF s = None THEN "idle" ELSE "waiting", op |-> op,
                 key |-> k, slot |-> s, floor |-> newest[k], out |-> o]
<1>1. task' = [task EXCEPT ![c] = t] BY DEF Called
<1>2. TaskSeen(t) = IF s = None THEN [waiting |-> FALSE, key |-> None, out |-> o]
                    ELSE [waiting |-> TRUE, key |-> k, out |-> o]
  BY DEF TaskSeen
<1> HIDE DEF t
<1>3. Tasks' = [Tasks EXCEPT ![c] = TaskSeen(t)]
  BY <1>1 DEF Tasks, RefInv, TypeOK
<1> QED BY <1>2, <1>3

(* load(): the caller boards the flight there is, or opens one. *)
LEMMA LoadForBoards ==
  ASSUME RefInv, NEW c \in Caller, NEW op, NEW k \in Key, LoadFor(c, op, k), ~disposed,
         task[c].pc = "idle", UNCHANGED <<now, origin, entries, disposed>>
  PROVE  KC!Board(c, k)
<1> USE CacheAssumption
<1>1. Tasks[c].waiting = FALSE BY DEF Tasks, TaskSeen
<1>2. CASE Shares(k) /\ Awaits(c, op, k, inFlight[k]) /\ UNCHANGED <<inFlight, loads>>
  <2>1. inFlight[k] \in Slot /\ Running(loads[k][inFlight[k]]) /\ inFlight[k] # None
    BY <1>2 DEF Shares, RefInv, FlightInv, RegisteredRun, TypeOK
  <2>2. Flights[k] # None BY <2>1, FlightsAre
  <2>3. UNCHANGED Flights BY <1>2 DEF Flights
  <2>4. Tasks' = [Tasks EXCEPT ![c] = [waiting |-> TRUE, key |-> k, out |-> None]]
    BY <1>2, <2>1, CallSeen DEF Awaits
  <2> QED BY <1>1, <2>2, <2>3, <2>4 DEF KC!Board, KC!Aboard
<1>3. ASSUME NEW s \in Slot, ~Shares(k), ~Running(loads[k][s]),
             loads' = [loads EXCEPT ![k][s] = Started], Awaits(c, op, k, s)
      PROVE  KC!Board(c, k)
  <2>1. \A t \in Slot : ~Running(loads[k][t])
    BY <1>3 DEF Shares, RefInv, FlightInv, Registered
  <2>2. Flights[k] = None BY <2>1, FlightsAre
  <2>3. Running(Started) /\ Started.since = origin /\ Started.out = None
    BY DEF Started, Running
  <2>4. Flights' = [Flights EXCEPT ![k] = [since |-> origin, out |-> None]]
    <3> HIDE DEF Started
    <3>1. Flights' = [Flights EXCEPT ![k] =
                        IF Running(Started) THEN [since |-> Started.since, out |-> Started.out]
                        ELSE None]
      BY <1>3, <2>1, SlotStep
    <3> QED BY <2>3, <3>1
  <2>5. s # None
    OBVIOUS
  <2>6. Tasks' = [Tasks EXCEPT ![c] = [waiting |-> TRUE, key |-> k, out |-> None]]
    BY <1>3, <2>5, CallSeen DEF Awaits
  <2> QED BY <1>1, <2>2, <2>4, <2>6 DEF KC!Board, KC!Aboard, KC!Open
<1> QED BY <1>2, <1>3 DEF LoadFor

LEMMA CallRefines ==
  ASSUME RefInv, NEW c \in Caller, NEW k \in Key, Get(c, k) \/ Refresh(c, k)
  PROVE  KC!Hit(c, k) \/ KC!Refuse(c) \/ KC!Board(c, k)
<1>0. /\ UNCHANGED <<now, origin, entries, disposed>> /\ task[c].pc = "idle"
      /\ Tasks[c].waiting = FALSE
  BY DEF Get, Refresh, Tasks, TaskSeen
<1>1. ASSUME NEW op, disposed, Answers(c, op, k, Refused), UNCHANGED loads
      PROVE  KC!Refuse(c)
  <2>1. Tasks' = [Tasks EXCEPT ![c] = [waiting |-> FALSE, key |-> None, out |-> Refused]]
    BY <1>1, CallSeen DEF Answers
  <2>2. UNCHANGED Flights BY <1>1 DEF Flights
  <2> QED BY <1>0, <1>1, <2>1, <2>2 DEF KC!Refuse, KC!Ended
<1>2. ASSUME Peek(k) # None, Answers(c, "get", k, Peek(k)), UNCHANGED loads
      PROVE  KC!Hit(c, k)
  <2>1. entries[k] # None /\ Peek(k) = entries[k] /\ ~IsExpired(entries[k])
    BY <1>2 DEF Peek
  <2>2. now < entries[k].expiresAt
    <3>1. now \in Nat /\ entries[k] \in Entry BY <2>1 DEF RefInv, TypeOK
    <3> QED BY <2>1, <3>1 DEF IsExpired, Entry
  <2>3. Tasks' = [Tasks EXCEPT ![c] = [waiting |-> FALSE, key |-> None, out |-> entries[k]]]
    BY <1>2, <2>1, CallSeen DEF Answers
  <2>4. UNCHANGED Flights BY <1>2 DEF Flights
  <2> QED BY <1>0, <2>1, <2>2, <2>3, <2>4 DEF KC!Hit, KC!Fresh, KC!Ended
<1>3. ASSUME NEW op, ~disposed, LoadFor(c, op, k) PROVE KC!Board(c, k)
  BY <1>0, <1>3, LoadForBoards
<1> QED BY <1>1, <1>2, <1>3 DEF Get, Refresh

(* The timer opens flights where there was none. *)
LEMMA RefreshAllRefines ==
  ASSUME RefInv, RefreshAll
  PROVE  \E K \in SUBSET Key : KC!OpenAll(K)
<1> DEFINE opened == {k \in Tracked : ~Shares(k)}
<1>1. PICK slot \in [opened -> Slot] :
        /\ \A k \in opened : ~Running(loads[k][slot[k]])
        /\ loads' = [k \in Key |-> IF k \in opened
                                   THEN [loads[k] EXCEPT ![slot[k]] = Started]
                                   ELSE loads[k]]
  BY DEF RefreshAll
<1>2. /\ ~disposed /\ opened \in SUBSET Key
      /\ UNCHANGED <<now, origin, entries, disposed, task>>
  BY DEF RefreshAll, Tracked
<1>3. \A k \in opened, t \in Slot : ~Running(loads[k][t])
  BY <1>2, CacheAssumption DEF Shares, RefInv, FlightInv, Registered
<1>4. \A k \in opened : Flights[k] = None
  BY <1>2, <1>3, FlightsAre
<1>5. /\ Running(Started) /\ Started.since = origin /\ Started.out = None
  BY DEF Started, Running
<1>6. \A k \in opened : Flights'[k] = [since |-> origin, out |-> None]
  <2> SUFFICES ASSUME NEW k \in opened PROVE Flights'[k] = [since |-> origin, out |-> None]
    OBVIOUS
  <2> HIDE DEF opened, Started
  <2>1. k \in Key /\ slot[k] \in Slot BY <1>1, <1>2
  <2>2. loads[k] \in [Slot -> Load] BY <2>1 DEF RefInv, TypeOK
  <2>3. loads'[k] = [loads[k] EXCEPT ![slot[k]] = Started] BY <1>1, <2>1
  <2>4. loads'[k][slot[k]] = Started BY <2>1, <2>2, <2>3
  <2>5. \A t \in Slot : Running(loads'[k][t]) => t = slot[k]
    BY <1>3, <2>2, <2>3
  <2>6. FlightIn(loads'[k]) = [since |-> origin, out |-> None]
    BY <1>5, <2>1, <2>4, <2>5, TheFlight
  <2> QED BY <2>1, <2>6 DEF Flights
<1>7. \A k \in Key \ opened : Flights'[k] = Flights[k]
  <2> HIDE DEF opened
  <2> QED BY <1>1 DEF Flights
<1>8. Flights' = [k \in Key |-> IF k \in opened THEN [since |-> origin, out |-> None]
                                ELSE Flights[k]]
  <2>1. Flights' = [k \in Key |-> Flights'[k]] BY DEF Flights
  <2> HIDE DEF opened
  <2> QED BY <1>6, <1>7, <2>1
<1>9. UNCHANGED Tasks BY <1>2 DEF Tasks
<1>10. KC!OpenAll(opened)
  <2> HIDE DEF opened
  <2> QED BY <1>2, <1>4, <1>8, <1>9 DEF KC!OpenAll, KC!Open
<1> QED BY <1>2, <1>10

(* .then and .catch decide the flight. *)
LEMMA SettlesRefines ==
  ASSUME RefInv, NEW k \in Key, NEW s \in Slot, Then(k, s) \/ Catch(k, s)
  PROVE  KC!Decide(k)
<1> DEFINE l == loads[k][s]
           o == IF Then(k, s) THEN Landing(k, s) ELSE StandIn(k)
<1>1. /\ l \in Load /\ now \in Nat /\ origin \in Nat
      /\ entries[k] \in Entry \cup {None} /\ TTL \in Nat /\ StaleIfError \in Nat
  BY CacheAssumption DEF RefInv, TypeOK
<1>2. /\ Running(l) /\ l.out = None /\ l.since =< origin
      /\ \A t \in Slot : Running(loads[k][t]) => t = s
  <2>1. l.phase \in {"answered", "failed"} BY DEF Then, Catch
  <2>2. Running(l) BY <2>1 DEF Running
  <2> QED BY <2>1, <2>2 DEF RefInv, Dated, FlightInv, SingleFlight
<1>3. Flights[k] = [since |-> l.since, out |-> None] /\ Flights[k] # None
  BY <1>2, FlightsAre
<1>4. Flights' = [Flights EXCEPT ![k].out = o]
  <2>1. ASSUME NEW v, Advances(k, s, "landed", v, o)
        PROVE  Flights' = [Flights EXCEPT ![k] = [since |-> l.since, out |-> o]]
    <3> DEFINE m == [phase |-> "landed", since |-> l.since, startedAt |-> l.startedAt,
                     ver |-> v, out |-> o]
    <3>1. loads' = [loads EXCEPT ![k][s] = m] BY <2>1 DEF Advances, RefInv, TypeOK
    <3>2. Running(m) /\ m.since = l.since /\ m.out = o BY DEF Running
    <3> HIDE DEF m, o, l
    <3>3. Flights' = [Flights EXCEPT ![k] =
                        IF Running(m) THEN [since |-> m.since, out |-> m.out] ELSE None]
      BY <1>2, <3>1, SlotStep DEF l
    <3> QED BY <3>2, <3>3
  <2>2. \E v : Advances(k, s, "landed", v, o) BY DEF Then, Catch
  <2>3. [Flights[k] EXCEPT !.out = o] = [since |-> l.since, out |-> o] BY <1>3
  <2>4. Flights' = [Flights EXCEPT ![k] = [since |-> l.since, out |-> o]] BY <2>1, <2>2
  <2> HIDE DEF o, l
  <2> QED BY <2>3, <2>4 DEF Flights
<1>5. UNCHANGED <<now, origin, disposed, Tasks>> BY DEF Then, Catch, Tasks
<1>6. KC!Undecided(k) BY <1>3 DEF KC!Undecided
<1>7. ASSUME o \in KC!Candidates(k), KC!Decides(k, o) PROVE KC!Decide(k)
  <2> HIDE DEF o, l
  <2> QED BY <1>4, <1>5, <1>6, <1>7 DEF KC!Decide
<1>8. CASE Then(k, s)
  <2>1. o = [ver |-> l.ver, expiresAt |-> now + TTL] /\ entries' = [entries EXCEPT ![k] = o]
    BY <1>8 DEF Landing, Then
  <2>2. l.ver \in l.since .. origin
    <3>1. l.phase = "answered" BY <1>8 DEF Then
    <3>2. l.since =< l.ver /\ l.ver =< origin
      BY <3>1 DEF RefInv, Dated, VersionInv, AnswersAreNewer
    <3>3. l.since \in Nat /\ l.ver \in Nat BY <1>1 DEF Load
    <3> QED BY <1>1, <3>2, <3>3
  <2> HIDE DEF o, l
  <2>3. o \in [ver : Flights[k].since .. origin, expiresAt : {now + TTL}]
    BY <1>3, <2>1, <2>2
  <2>4. KC!Success(k, o) BY <2>1, <2>3 DEF KC!Success
  <2>5. o \in KC!Candidates(k) BY <2>3 DEF KC!Candidates
  <2> QED BY <1>7, <2>4, <2>5 DEF KC!Decides
<1>9. CASE ~Then(k, s)
  <2>1. o = StandIn(k) /\ UNCHANGED entries BY <1>9 DEF Catch
  <2>2. StandIn(k) = IF KC!InGrace(entries[k]) THEN entries[k] ELSE Failed
    BY DEF StandIn, InGrace, KC!InGrace
  <2> HIDE DEF o, l
  <2>3. KC!Failure(k, o) BY <2>1, <2>2 DEF KC!Failure
  <2>4. o \in KC!Candidates(k) BY <2>1, <2>2 DEF KC!Candidates
  <2> QED BY <1>7, <2>3, <2>4 DEF KC!Decides
<1> QED BY <1>8, <1>9

(* .finally closes it, for everyone who awaited the promise. *)
LEMMA FinallyRefines ==
  ASSUME RefInv, NEW k \in Key, NEW s \in Slot, Finally(k, s)
  PROVE  KC!Close(k)
<1> USE CacheAssumption
<1>1. /\ loads[k][s].phase = "landed" /\ Running(loads[k][s])
      /\ UNCHANGED <<now, origin, entries, disposed>>
  BY DEF Finally, Running
<1>2. /\ \A t \in Slot : Running(loads[k][t]) => t = s
      /\ loads[k][s].out # None
  BY <1>1 DEF RefInv, FlightInv, SingleFlight, Dated
<1>3. /\ Flights[k] = [since |-> loads[k][s].since, out |-> loads[k][s].out]
      /\ Flights[k] # None
  BY <1>1, FlightsAre
<1>4. Flights' = [Flights EXCEPT ![k] = None]
  <2>1. ~Running(NoLoad) BY DEF NoLoad, Running
  <2>2. loads' = [loads EXCEPT ![k][s] = NoLoad] BY DEF Finally
  <2> HIDE DEF NoLoad
  <2>3. Flights' = [Flights EXCEPT ![k] =
                      IF Running(NoLoad) THEN [since |-> NoLoad.since, out |-> NoLoad.out]
                      ELSE None]
    BY <1>2, <2>2, SlotStep
  <2> QED BY <2>1, <2>3
<1>5. Tasks' = KC!Delivered(k, loads[k][s].out)
  <2> DEFINE o == loads[k][s].out
             ended == [waiting |-> FALSE, key |-> None, out |-> o]
  <2>1. ASSUME NEW c \in Caller
        PROVE  Tasks'[c] = IF Tasks[c].waiting /\ Tasks[c].key = k THEN ended ELSE Tasks[c]
    <3>1. Tasks'[c] = TaskSeen(task'[c]) /\ Tasks[c] = TaskSeen(task[c])
      BY DEF Tasks
    <3>2. CASE task[c].pc = "waiting" /\ task[c].key = k
      <4>1. task[c].slot = s
        BY <1>2, <3>2 DEF RefInv, FlightInv, WaitersAttended
      <4>2. task'[c] = Resumed(task[c], o) BY <3>2, <4>1 DEF Finally
      <4>3. TaskSeen(Resumed(task[c], o)) = ended
        <5> HIDE DEF o
        <5>1. Resumed(task[c], o).pc = "idle" /\ Resumed(task[c], o).out = o BY DEF Resumed
        <5>2. (Resumed(task[c], o).pc = "waiting") = FALSE BY <5>1
        <5> QED BY <5>1, <5>2 DEF TaskSeen
      <4>4. TaskSeen(task[c]).waiting /\ TaskSeen(task[c]).key = k BY <3>2 DEF TaskSeen
      <4> QED BY <3>1, <4>2, <4>3, <4>4
    <3>3. CASE ~(task[c].pc = "waiting" /\ task[c].key = k)
      <4>1. task'[c] = task[c] BY <3>3 DEF Finally
      <4>2. ~(TaskSeen(task[c]).waiting /\ TaskSeen(task[c]).key = k)
        BY <3>3 DEF TaskSeen
      <4> QED BY <3>1, <4>1, <4>2
    <3> QED BY <3>2, <3>3
  <2>2. Tasks' = [c \in Caller |-> Tasks'[c]] BY DEF Tasks
  <2> QED BY <2>1, <2>2 DEF KC!Delivered, KC!Ended
<1> QED BY <1>1, <1>2, <1>3, <1>4, <1>5 DEF KC!Close

(* The loader's own progress is the flight's business alone. *)
LEMMA LoaderStutters ==
  ASSUME RefInv, NEW k \in Key, NEW s \in Slot, LoaderAnswers(k, s) \/ LoaderFails(k, s)
  PROVE  UNCHANGED KC!vars
<1>1. /\ Running(loads[k][s]) /\ loads[k][s].out = None
      /\ \A t \in Slot : Running(loads[k][t]) => t = s
  <2>1. loads[k][s].phase = "loading" BY DEF LoaderAnswers, LoaderFails
  <2>2. Running(loads[k][s]) BY <2>1 DEF Running
  <2> QED BY <2>1, <2>2 DEF RefInv, Dated, FlightInv, SingleFlight
<1>2. Flights[k] = [since |-> loads[k][s].since, out |-> None]
  BY <1>1, FlightsAre
<1>3. ASSUME NEW ph \in {"answered", "failed"}, NEW v, Advances(k, s, ph, v, None)
      PROVE  Flights' = Flights
  <2> DEFINE l == [phase |-> ph, since |-> loads[k][s].since,
                   startedAt |-> loads[k][s].startedAt, ver |-> v, out |-> None]
  <2>1. loads' = [loads EXCEPT ![k][s] = l] BY <1>3 DEF Advances, RefInv, TypeOK
  <2>2. Running(l) /\ l.since = loads[k][s].since /\ l.out = None BY DEF Running
  <2> HIDE DEF l
  <2>3. Flights' = [Flights EXCEPT ![k] =
                      IF Running(l) THEN [since |-> l.since, out |-> l.out] ELSE None]
    BY <1>1, <2>1, SlotStep
  <2>4. Flights' = [Flights EXCEPT ![k] = Flights[k]] BY <1>2, <2>2, <2>3
  <2> QED BY <2>4 DEF Flights
<1>4. UNCHANGED Flights BY <1>3 DEF LoaderAnswers, LoaderFails
<1> QED BY <1>4 DEF LoaderAnswers, LoaderFails, KC!vars, Tasks

LEMMA StepRefines == RefInv /\ [Next]_vars => [KC!Next]_(KC!vars)
<1> SUFFICES ASSUME RefInv, [Next]_vars PROVE [KC!Next]_(KC!vars)
  OBVIOUS
<1>1. ASSUME NEW c \in Caller, NEW k \in Key, Get(c, k) \/ Refresh(c, k) PROVE KC!Next
  BY <1>1, CallRefines DEF KC!Next
<1>2. CASE RefreshAll
  BY <1>2, RefreshAllRefines DEF KC!Next
<1>3. ASSUME NEW k \in Key, Delete(k) PROVE KC!Drop({k})
  <2>1. entries' = [q \in Key |-> IF q \in {k} THEN None ELSE entries[q]]
    BY <1>3 DEF Delete, RefInv, TypeOK
  <2> QED BY <1>3, <2>1 DEF Delete, KC!Drop, Flights, Tasks
<1>4. CASE Clear
  <2>1. entries' = [q \in Key |-> IF q \in Key THEN None ELSE entries[q]]
    BY <1>4 DEF Clear
  <2>2. KC!Drop(Key) BY <1>4, <2>1 DEF Clear, KC!Drop, Flights, Tasks
  <2> QED BY <2>2 DEF KC!Next
<1>5. CASE EvictExpired
  <2> DEFINE gone == {q \in Key : Peek(q) = None}
  <2>1. entries' = [q \in Key |-> IF q \in gone THEN None ELSE entries[q]]
    BY <1>5 DEF EvictExpired, Peek
  <2>2. KC!Drop(gone) BY <1>5, <2>1 DEF EvictExpired, KC!Drop, Flights, Tasks
  <2>3. gone \in SUBSET Key OBVIOUS
  <2> HIDE DEF gone
  <2> QED BY <2>2, <2>3 DEF KC!Next
<1>6. CASE Dispose
  BY <1>6 DEF Dispose, KC!Dispose, KC!Next, Flights, Tasks
<1>7. ASSUME NEW k \in Key, NEW s \in Slot, Chain(k, s) PROVE [KC!Next]_(KC!vars)
  <2>1. CASE LoaderAnswers(k, s) \/ LoaderFails(k, s)
    BY <2>1, LoaderStutters
  <2>2. CASE Then(k, s) \/ Catch(k, s)
    BY <2>2, SettlesRefines DEF KC!Next
  <2>3. CASE Finally(k, s)
    BY <2>3, FinallyRefines DEF KC!Next
  <2> QED BY <1>7, <2>1, <2>2, <2>3 DEF Chain
<1>8. CASE Tick
  BY <1>8 DEF Tick, KC!Tick, KC!Next, Flights, Tasks
<1>9. CASE Rotate
  BY <1>9 DEF Rotate, KC!Rotate, KC!Next, Flights, Tasks
<1>10. CASE UNCHANGED vars
  BY <1>10 DEF vars, KC!vars, Flights, Tasks
<1>11. (\E k \in Key : Delete(k)) => KC!Next
  <2>1. \A k \in Key : {k} \in SUBSET Key OBVIOUS
  <2> QED BY <1>3, <2>1 DEF KC!Next
<1> QED BY <1>1, <1>2, <1>4, <1>5, <1>6, <1>7, <1>8, <1>9, <1>10, <1>11 DEF Next

(* The Node cache keeps every promise of KeyCache, with any number of keys *)
(* and callers: one flight per key, one decision per flight, shared by all *)
(* who boarded it, a landed value from within the flight, and stand-ins    *)
(* only within the grace.                                                  *)
THEOREM Refinement == Spec => ImplementsKeyCache
<1>1. Init => KC!Init
  <2> SUFFICES ASSUME Init PROVE KC!Init
    OBVIOUS
  <2>1. \A s \in Slot : ~Running([t \in Slot |-> NoLoad][s]) BY DEF NoLoad, Running
  <2>2. FlightIn([t \in Slot |-> NoLoad]) = None BY <2>1, NoFlight
  <2>3. Flights = [k \in Key |-> None] BY <2>2 DEF Init, Flights
  <2>4. Tasks = [c \in Caller |-> KC!Ended(None)]
    BY DEF Init, Tasks, TaskSeen, NoTask, KC!Ended
  <2> QED BY <2>3, <2>4 DEF Init, KC!Init
<1> QED BY <1>1, StepRefines, RefInvHolds, PTL DEF Spec, ImplementsKeyCache, KC!Spec
=============================================================================
