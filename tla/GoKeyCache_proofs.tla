-------------------------- MODULE GoKeyCache_proofs --------------------------
(***************************************************************************)
(* Theorems about the Go key cache, for any sets of keys and goroutines,   *)
(* any TTL, StaleIfError and bounds, with and without background refresh   *)
(* and panicking loaders.                                                  *)
(***************************************************************************)
EXTENDS GoKeyCache, TLAPS

-----------------------------------------------------------------------------
(* Typing.  What a critical section reads under a key is known to be typed *)
(* because a goroutine that is busy is busy with a key.                    *)

KeyKnown == \A p \in Proc : proc[p].pc # "idle" => proc[p].key \in Key

TypeInv == TypeOK /\ KeyKnown

LEMMA GraceType == Grace \in Nat
  BY GoCacheAssumption DEF Grace

LEMMA IdleType ==
  ASSUME NEW floor \in Nat, NEW o \in Outcome
  PROVE  Idle(floor, o) \in Goroutine /\ Idle(floor, o).pc = "idle"
  BY DEF Idle, Goroutine, PC

(* The goroutine of p becomes x: what that leaves to show. *)
LEMMA BecomesType ==
  ASSUME TypeInv, NEW p \in Proc, NEW x \in Goroutine, x.pc # "idle" => x.key \in Key,
         proc' = [proc EXCEPT ![p] = x]
  PROVE  proc' \in [Proc -> Goroutine] /\ KeyKnown'
  BY DEF TypeInv, TypeOK, KeyKnown

LEMMA LoadSectionType ==
  ASSUME TypeInv, NEW p \in Proc, NEW k \in Key, NEW force \in BOOLEAN, NEW floor \in Nat,
         LoadSection(p, k, force, floor)
  PROVE  /\ proc' \in [Proc -> Goroutine] /\ KeyKnown'
         /\ inflight' \in [Key -> Proc \cup {None}]
<1> USE GoCacheAssumption
<1>1. CASE disposed /\ proc' = [proc EXCEPT ![p] = Idle(floor, Refused)] /\ UNCHANGED inflight
  <2>1. Idle(floor, Refused) \in Goroutine /\ Idle(floor, Refused).pc = "idle"
    BY IdleType DEF Outcome
  <2> QED BY <1>1, <2>1, BecomesType DEF TypeInv, TypeOK
<1>2. CASE /\ ~force /\ Fresh(k)
           /\ proc' = [proc EXCEPT ![p] = Idle(floor, entries[k])]
           /\ UNCHANGED inflight
  <2>1. entries[k] \in Outcome BY DEF TypeInv, TypeOK, Outcome
  <2>2. Idle(floor, entries[k]) \in Goroutine /\ Idle(floor, entries[k]).pc = "idle"
    BY <2>1, IdleType
  <2> QED BY <1>2, <2>2, BecomesType DEF TypeInv, TypeOK
<1>3. CASE proc' = [proc EXCEPT ![p] = Waits(p, k, floor)] /\ UNCHANGED inflight
  <2>1. Waits(p, k, floor) \in Goroutine /\ Waits(p, k, floor).key \in Key
    BY DEF Waits, Idle, Goroutine, PC, Outcome, TypeInv, TypeOK
  <2> QED BY <1>3, <2>1, BecomesType DEF TypeInv, TypeOK
<1>4. CASE proc' = [proc EXCEPT ![p] = Starts(k, floor)] /\ inflight' = [inflight EXCEPT ![k] = p]
  <2>1. Starts(k, floor) \in Goroutine /\ Starts(k, floor).key \in Key
    BY DEF Starts, Idle, Goroutine, PC, Leading, Outcome, TypeInv, TypeOK
  <2> QED BY <1>4, <2>1, BecomesType DEF TypeInv, TypeOK
<1> QED BY <1>1, <1>2, <1>3, <1>4 DEF LoadSection

LEMMA TypeInvStep == TypeInv /\ [Next]_vars => TypeInv'
<1> SUFFICES ASSUME TypeInv, [Next]_vars PROVE TypeInv'
  OBVIOUS
<1> USE GoCacheAssumption
<1>0. \A q \in Proc : proc[q] \in Goroutine BY DEF TypeInv, TypeOK
<1>1. ASSUME NEW p \in Caller, NEW k \in Key, Get(p, k) PROVE TypeInv'
  <2>0. p \in Proc BY DEF Proc
  <2>1. CASE Fresh(k)
    <3>1. entries[k] \in Outcome /\ newest[k] \in Nat BY DEF TypeInv, TypeOK, Outcome
    <3>2. Idle(newest[k], entries[k]) \in Goroutine /\ Idle(newest[k], entries[k]).pc = "idle"
      BY <3>1, IdleType
    <3>3. proc' = [proc EXCEPT ![p] = Idle(newest[k], entries[k])]
      BY <1>1, <2>1 DEF Get
    <3> QED BY <1>1, <2>0, <3>2, <3>3, BecomesType DEF Get, TypeInv, TypeOK
  <2>2. CASE ~Fresh(k)
    <3> DEFINE x == [Idle(newest[k], proc[p].out) EXCEPT !.pc = "missed", !.key = k]
    <3>1. x \in Goroutine /\ x.key \in Key
      BY <1>0, <2>0 DEF Idle, Goroutine, PC, TypeInv, TypeOK
    <3>2. proc' = [proc EXCEPT ![p] = x]
      BY <1>1, <2>2, <2>0 DEF Get, TypeInv, TypeOK
    <3> QED BY <1>1, <2>0, <3>1, <3>2, BecomesType DEF Get, TypeInv, TypeOK
  <2> QED BY <2>1, <2>2
<1>2. ASSUME NEW p \in Caller, NEW k \in Key, Refresh(p, k) PROVE TypeInv'
  <2>1. p \in Proc /\ newest[k] \in Nat BY DEF Proc, TypeInv, TypeOK
  <2>2. LoadSection(p, k, TRUE, newest[k]) BY <1>2 DEF Refresh
  <2>3. /\ proc' \in [Proc -> Goroutine] /\ KeyKnown'
        /\ inflight' \in [Key -> Proc \cup {None}]
    BY <2>1, <2>2, LoadSectionType
  <2>4. UNCHANGED <<now, origin, entries, disposed, stopped, newest, loop, todo>>
    BY <1>2 DEF Refresh, LoadSection
  <2> QED BY <2>3, <2>4 DEF TypeInv, TypeOK
<1>3. ASSUME NEW p \in Proc, LoadAfterMiss(p) PROVE TypeInv'
  <2>1. proc[p].key \in Key /\ proc[p].floor \in Nat
    BY <1>0, <1>3 DEF LoadAfterMiss, TypeInv, KeyKnown, Goroutine
  <2> QED BY <1>3, <2>1, LoadSectionType DEF LoadAfterMiss, LoadSection, TypeInv, TypeOK
<1>4. ASSUME NEW p \in Proc, LoaderAnswers(p) PROVE TypeInv'
  <2> DEFINE x == [proc[p] EXCEPT !.pc = "answered", !.ver = origin]
  <2>1. proc[p].key \in Key BY <1>4 DEF LoaderAnswers, TypeInv, KeyKnown
  <2>2. x \in Goroutine /\ x.key \in Key
    BY <1>0, <2>1 DEF Goroutine, PC, Leading, TypeInv, TypeOK
  <2>3. proc' = [proc EXCEPT ![p] = x] BY <1>0, <1>4 DEF LoaderAnswers, Goroutine
  <2>4. proc' \in [Proc -> Goroutine] /\ KeyKnown' BY <2>2, <2>3, BecomesType
  <2> QED BY <1>4, <2>4 DEF LoaderAnswers, TypeInv, TypeOK
<1>5. ASSUME NEW p \in Proc, LoaderFails(p) PROVE TypeInv'
  <2> DEFINE x == [proc[p] EXCEPT !.pc = "failed"]
  <2>1. proc[p].key \in Key BY <1>5 DEF LoaderFails, TypeInv, KeyKnown
  <2>2. x \in Goroutine /\ x.key \in Key
    BY <1>0, <2>1 DEF Goroutine, PC, Leading, TypeInv, TypeOK
  <2>3. proc' = [proc EXCEPT ![p] = x] BY <1>0, <1>5 DEF LoaderFails, Goroutine
  <2>4. proc' \in [Proc -> Goroutine] /\ KeyKnown' BY <2>2, <2>3, BecomesType
  <2> QED BY <1>5, <2>4 DEF LoaderFails, TypeInv, TypeOK
<1>6. ASSUME NEW p \in Proc, LoaderPanics(p) PROVE TypeInv'
  <2> DEFINE x == [proc[p] EXCEPT !.pc = "panicked"]
  <2>1. proc[p].key \in Key BY <1>6 DEF LoaderPanics, TypeInv, KeyKnown
  <2>2. x \in Goroutine /\ x.key \in Key
    BY <1>0, <2>1 DEF Goroutine, PC, Leading, TypeInv, TypeOK
  <2>3. proc' = [proc EXCEPT ![p] = x] BY <1>0, <1>6 DEF LoaderPanics, Goroutine
  <2>4. proc' \in [Proc -> Goroutine] /\ KeyKnown' BY <2>2, <2>3, BecomesType
  <2> QED BY <1>6, <2>4 DEF LoaderPanics, TypeInv, TypeOK
<1>7. ASSUME NEW p \in Proc, Publish(p) PROVE TypeInv'
  <2> DEFINE k == proc[p].key
  <2>1. k \in Key /\ proc[p].ver \in Nat
    BY <1>0, <1>7 DEF Publish, TypeInv, KeyKnown, Goroutine
  <2>2. Landing(p) \in Entry
    BY <2>1 DEF Landing, Entry, TypeInv, TypeOK
  <2>3. StandIn(k) \in Outcome
    BY <2>1 DEF StandIn, Outcome, TypeInv, TypeOK
  <2>4. inflight' \in [Key -> Proc \cup {None}]
    BY <1>7 DEF Publish, Deregistered, TypeInv, TypeOK
  <2>5. CASE /\ entries' = [entries EXCEPT ![k] = Landing(p)]
             /\ newest' = [newest EXCEPT ![k] = IF @ > proc[p].ver THEN @ ELSE proc[p].ver]
             /\ proc' = [proc EXCEPT ![p].pc = "published", ![p].out = Landing(p)]
    <3>1. [proc[p] EXCEPT !.pc = "published", !.out = Landing(p)] \in Goroutine
      BY <1>0, <2>2 DEF Goroutine, PC, Outcome
    <3> QED BY <1>7, <2>1, <2>2, <2>4, <2>5, <3>1 DEF Publish, TypeInv, TypeOK, KeyKnown
  <2>6. CASE /\ proc' = [proc EXCEPT ![p].pc = "published", ![p].out = StandIn(k)]
             /\ UNCHANGED <<entries, newest>>
    <3>1. [proc[p] EXCEPT !.pc = "published", !.out = StandIn(k)] \in Goroutine
      BY <1>0, <2>3 DEF Goroutine, PC
    <3> QED BY <1>7, <2>1, <2>4, <2>6, <3>1 DEF Publish, TypeInv, TypeOK, KeyKnown
  <2> QED BY <1>7, <2>5, <2>6 DEF Publish
<1>8. ASSUME NEW p \in Proc, Done(p) PROVE TypeInv'
  <2>1. \A q \in Proc : Idle(proc[q].floor, proc[p].out) \in Goroutine
                        /\ Idle(proc[q].floor, proc[p].out).pc = "idle"
    BY <1>0, IdleType DEF Goroutine
  <2> QED BY <1>0, <1>8, <2>1 DEF Done, TypeInv, TypeOK, KeyKnown
<1>9. CASE RoundStarts
  BY <1>9 DEF RoundStarts, Tracked, TypeInv, TypeOK, KeyKnown
<1>10. ASSUME NEW k \in Key, RoundRefresh(k) PROVE TypeInv'
  <2>1. Refresher \in Proc /\ newest[k] \in Nat BY DEF Proc, TypeInv, TypeOK
  <2> QED BY <1>10, <2>1, LoadSectionType DEF RoundRefresh, LoadSection, TypeInv, TypeOK
<1>11. CASE RoundEnds
  BY <1>11 DEF RoundEnds, TypeInv, TypeOK, KeyKnown
<1>12. CASE LoopStops
  BY <1>12 DEF LoopStops, TypeInv, TypeOK, KeyKnown
<1>13. ASSUME NEW k \in Key, Delete(k) PROVE TypeInv'
  BY <1>13 DEF Delete, TypeInv, TypeOK, KeyKnown
<1>14. CASE EvictExpired
  BY <1>14 DEF EvictExpired, TypeInv, TypeOK, KeyKnown
<1>15. CASE Dispose
  BY <1>15 DEF Dispose, TypeInv, TypeOK, KeyKnown
<1>16. CASE CloseStop
  BY <1>16 DEF CloseStop, TypeInv, TypeOK, KeyKnown
<1>17. CASE Tick
  BY <1>17 DEF Tick, TypeInv, TypeOK, KeyKnown
<1>18. CASE Rotate
  BY <1>18 DEF Rotate, TypeInv, TypeOK, KeyKnown
<1>19. CASE UNCHANGED vars
  BY <1>19 DEF vars, TypeInv, TypeOK, KeyKnown
<1> QED
  BY <1>1, <1>2, <1>3, <1>4, <1>5, <1>6, <1>7, <1>8, <1>9, <1>10, <1>11, <1>12, <1>13,
     <1>14, <1>15, <1>16, <1>17, <1>18, <1>19
     DEF Next, Runs, RoundGoesOn

LEMMA TypeInvInit == Init => TypeInv
<1> SUFFICES ASSUME Init PROVE TypeInv
  OBVIOUS
<1>1. Idle(0, None) \in Goroutine /\ Idle(0, None).pc = "idle"
  BY IdleType DEF Outcome
<1>2. proc \in [Proc -> Goroutine] /\ KeyKnown
  BY <1>1 DEF Init, KeyKnown
<1>3. loop \in {"select", "round", "gone"} BY DEF Init
<1> QED BY <1>2, <1>3 DEF Init, TypeInv, TypeOK

LEMMA TypeInvHolds == Spec => []TypeInv
BY TypeInvInit, TypeInvStep, PTL DEF Spec

(* Every reachable state of the Go cache is well typed. *)
THEOREM TypeCorrect == Spec => []TypeOK
<1>1. TypeInv => TypeOK BY DEF TypeInv
<1> QED BY <1>1, TypeInvHolds, PTL
-----------------------------------------------------------------------------
(* Single flight and waiting.  c.inflight names the one goroutine whose    *)
(* loader runs, or has panicked, and whoever waits has found it there.     *)

LeadersRegistered == \A p \in Proc, k \in Key : Leads(p, k) => inflight[k] = p

RegisteredLead == \A k \in Key : inflight[k] # None => Leads(inflight[k], k)

WaitersAttended ==
  \A p \in Proc : proc[p].pc = "waiting" =>
    /\ proc[p].on \in Proc
    /\ proc[proc[p].on].key = proc[p].key
    /\ proc[proc[p].on].pc \in Leading \cup {"published"}

FlightInv == LeadersRegistered /\ RegisteredLead /\ WaitersAttended

(* Stages at which a goroutine neither leads a load nor waits for one.     *)
Aside == {"idle", "missed"}

(* A goroutine that was not a leader and does not become one, nor a waiter. *)
LEMMA SideStep ==
  ASSUME TypeInv, FlightInv, NEW p \in Proc, NEW x,
         proc[p].pc \in Aside, x.pc \in Aside,
         proc' = [proc EXCEPT ![p] = x], UNCHANGED inflight
  PROVE  FlightInv'
<1>1. \A q \in Proc : q # p => proc'[q] = proc[q]
  BY DEF TypeInv, TypeOK
<1>2. proc'[p].pc \in Aside
  BY DEF TypeInv, TypeOK
<1>3. LeadersRegistered'
  BY <1>1, <1>2 DEF FlightInv, LeadersRegistered, Leads, Leading, Aside
<1>4. RegisteredLead'
  <2> SUFFICES ASSUME NEW k \in Key, inflight[k] # None PROVE Leads(inflight[k], k)'
    BY DEF RegisteredLead
  <2>1. inflight[k] \in Proc /\ Leads(inflight[k], k)
    BY DEF FlightInv, RegisteredLead, TypeInv, TypeOK
  <2>2. inflight[k] # p BY <2>1 DEF Leads, Leading, Aside
  <2> QED BY <1>1, <2>1, <2>2 DEF Leads
<1>5. WaitersAttended'
  <2> SUFFICES ASSUME NEW q \in Proc, proc'[q].pc = "waiting"
               PROVE  /\ proc'[q].on \in Proc
                      /\ proc'[proc'[q].on].key = proc'[q].key
                      /\ proc'[proc'[q].on].pc \in Leading \cup {"published"}
    BY DEF WaitersAttended
  <2>1. proc'[q] = proc[q] BY <1>1, <1>2 DEF Aside
  <2>2. /\ proc[q].on \in Proc
        /\ proc[proc[q].on].key = proc[q].key
        /\ proc[proc[q].on].pc \in Leading \cup {"published"}
    BY <2>1 DEF FlightInv, WaitersAttended
  <2>3. proc[q].on # p BY <2>2 DEF Leading, Aside
  <2> QED BY <1>1, <2>1, <2>2, <2>3
<1> QED BY <1>3, <1>4, <1>5 DEF FlightInv

(* A leader that goes from one stage of its load to another.              *)
LEMMA LeaderStep ==
  ASSUME TypeInv, FlightInv, NEW p \in Proc, NEW x, proc[p].pc \in Leading,
         x.pc \in Leading, x.key = proc[p].key,
         proc' = [proc EXCEPT ![p] = x], UNCHANGED inflight
  PROVE  FlightInv'
<1>1. /\ \A q \in Proc : q # p => proc'[q] = proc[q]
      /\ proc'[p] = x
  BY DEF TypeInv, TypeOK
<1>2. LeadersRegistered'
  BY <1>1 DEF FlightInv, LeadersRegistered, Leads
<1>3. RegisteredLead'
  BY <1>1 DEF FlightInv, RegisteredLead, Leads, TypeInv, TypeOK
<1>4. WaitersAttended'
  BY <1>1 DEF FlightInv, WaitersAttended, Leading
<1> QED BY <1>2, <1>3, <1>4 DEF FlightInv

LEMMA LoadSectionFlight ==
  ASSUME TypeInv, FlightInv, NEW p \in Proc, NEW k \in Key, NEW force \in BOOLEAN,
         NEW floor, proc[p].pc \in Aside, LoadSection(p, k, force, floor)
  PROVE  FlightInv'
<1> USE GoCacheAssumption
<1>1. ASSUME NEW o, proc' = [proc EXCEPT ![p] = Idle(floor, o)], UNCHANGED inflight
      PROVE  FlightInv'
  <2> DEFINE x == Idle(floor, o)
  <2>1. x.pc \in Aside BY DEF Idle, Aside
  <2>2. proc' = [proc EXCEPT ![p] = x] BY <1>1
  <2> HIDE DEF x
  <2> QED BY <1>1, <2>1, <2>2, SideStep
<1>2. CASE Joinable(k) /\ proc' = [proc EXCEPT ![p] = Waits(p, k, floor)] /\ UNCHANGED inflight
  <2>1. /\ \A q \in Proc : q # p => proc'[q] = proc[q]
        /\ proc'[p].pc = "waiting" /\ proc'[p].key = k /\ proc'[p].on = inflight[k]
    BY <1>2 DEF Waits, Idle, TypeInv, TypeOK
  <2>2. inflight[k] \in Proc /\ Leads(inflight[k], k) /\ inflight[k] # p
    BY <1>2 DEF Joinable, FlightInv, RegisteredLead, Leads, Leading, Aside, TypeInv, TypeOK
  <2>3. LeadersRegistered'
    BY <1>2, <2>1 DEF FlightInv, LeadersRegistered, Leads, Leading, Aside
  <2>4. RegisteredLead'
    <3> SUFFICES ASSUME NEW q \in Key, inflight[q] # None PROVE Leads(inflight[q], q)'
      BY <1>2 DEF RegisteredLead
    <3>1. inflight[q] \in Proc /\ Leads(inflight[q], q)
      BY DEF FlightInv, RegisteredLead, TypeInv, TypeOK
    <3> QED BY <1>2, <2>1, <3>1 DEF Leads, Leading, Aside
  <2>5. WaitersAttended'
    <3> SUFFICES ASSUME NEW q \in Proc, proc'[q].pc = "waiting"
                 PROVE  /\ proc'[q].on \in Proc
                        /\ proc'[proc'[q].on].key = proc'[q].key
                        /\ proc'[proc'[q].on].pc \in Leading \cup {"published"}
      BY DEF WaitersAttended
    <3>1. CASE q = p
      BY <2>1, <2>2, <3>1 DEF Leads
    <3>2. CASE q # p
      BY <2>1, <3>2 DEF FlightInv, WaitersAttended, Leading, Aside
    <3> QED BY <3>1, <3>2
  <2> QED BY <2>3, <2>4, <2>5 DEF FlightInv
<1>3. CASE /\ ~Joinable(k) /\ proc' = [proc EXCEPT ![p] = Starts(k, floor)]
           /\ inflight' = [inflight EXCEPT ![k] = p]
  <2>1. /\ \A q \in Proc : q # p => proc'[q] = proc[q]
        /\ proc'[p].pc = "loading" /\ proc'[p].key = k
    BY <1>3 DEF Starts, Idle, TypeInv, TypeOK
  <2>2. /\ \A q \in Key : q # k => inflight'[q] = inflight[q]
        /\ inflight'[k] = p
    BY <1>3 DEF TypeInv, TypeOK
  <2>3. \A q \in Proc : ~Leads(q, k)
    BY <1>3 DEF Joinable, FlightInv, LeadersRegistered, TypeInv, TypeOK
  <2>4. LeadersRegistered'
    BY <2>1, <2>2, <2>3 DEF FlightInv, LeadersRegistered, Leads
  <2>5. RegisteredLead'
    <3> SUFFICES ASSUME NEW q \in Key, inflight'[q] # None
                 PROVE  proc'[inflight'[q]].pc \in Leading /\ proc'[inflight'[q]].key = q
      BY DEF RegisteredLead, Leads
    <3>1. CASE q = k
      BY <2>1, <2>2, <3>1 DEF Leads, Leading, Aside
    <3>2. CASE q # k
      <4>1. inflight[q] \in Proc /\ Leads(inflight[q], q) /\ inflight'[q] = inflight[q]
        BY <2>2, <3>2 DEF FlightInv, RegisteredLead, TypeInv, TypeOK
      <4> QED BY <2>1, <4>1 DEF Leads, Leading, Aside
    <3> QED BY <3>1, <3>2
  <2>6. WaitersAttended'
    BY <2>1 DEF FlightInv, WaitersAttended, Leading, Aside
  <2> QED BY <2>4, <2>5, <2>6 DEF FlightInv
<1> QED BY <1>1, <1>2, <1>3 DEF LoadSection

LEMMA FlightInvStep == TypeInv /\ FlightInv /\ [Next]_vars => FlightInv'
<1> SUFFICES ASSUME TypeInv, FlightInv, [Next]_vars PROVE FlightInv'
  OBVIOUS
<1> USE GoCacheAssumption
<1>a. ASSUME UNCHANGED <<inflight, proc>> PROVE FlightInv'
  BY <1>a DEF FlightInv, LeadersRegistered, RegisteredLead, WaitersAttended, Leads
<1>1. ASSUME NEW p \in Caller, NEW k \in Key, Get(p, k) PROVE FlightInv'
  <2> DEFINE x == IF Fresh(k) THEN Idle(newest[k], entries[k])
                  ELSE [Idle(newest[k], proc[p].out) EXCEPT !.pc = "missed", !.key = k]
  <2>1. p \in Proc BY DEF Proc
  <2>2. x.pc \in Aside BY DEF Idle, Aside
  <2>3. /\ proc' = [proc EXCEPT ![p] = x]
        /\ proc[p].pc \in Aside /\ UNCHANGED inflight
    BY <1>1, <2>1 DEF Get, TypeInv, TypeOK, Aside
  <2> HIDE DEF x
  <2> QED BY <2>1, <2>2, <2>3, SideStep
<1>2. ASSUME NEW p \in Caller, NEW k \in Key, Refresh(p, k) PROVE FlightInv'
  <2>1. /\ p \in Proc /\ proc[p].pc \in Aside /\ TRUE \in BOOLEAN
        /\ LoadSection(p, k, TRUE, newest[k])
    BY <1>2 DEF Refresh, Proc, Aside
  <2> QED BY <2>1, LoadSectionFlight
<1>3. ASSUME NEW p \in Proc, LoadAfterMiss(p) PROVE FlightInv'
  <2>1. /\ proc[p].key \in Key /\ proc[p].pc \in Aside /\ FALSE \in BOOLEAN
        /\ LoadSection(p, proc[p].key, FALSE, proc[p].floor)
    BY <1>3 DEF LoadAfterMiss, TypeInv, KeyKnown, Aside
  <2> QED BY <2>1, LoadSectionFlight
<1>4. ASSUME NEW p \in Proc, LoaderAnswers(p) PROVE FlightInv'
  <2> DEFINE x == [proc[p] EXCEPT !.pc = "answered", !.ver = origin]
  <2>0. proc[p] \in Goroutine BY DEF TypeInv, TypeOK
  <2>1. x.pc = "answered" /\ x.key = proc[p].key BY <2>0 DEF Goroutine
  <2>2. proc' = [proc EXCEPT ![p] = x] BY <2>0, <1>4 DEF LoaderAnswers, Goroutine
  <2>3. proc[p].pc \in Leading /\ x.pc \in Leading BY <1>4, <2>1 DEF LoaderAnswers, Leading
  <2> QED BY <1>4, <2>1, <2>2, <2>3, LeaderStep DEF LoaderAnswers
<1>5. ASSUME NEW p \in Proc, LoaderFails(p) PROVE FlightInv'
  <2> DEFINE x == [proc[p] EXCEPT !.pc = "failed"]
  <2>0. proc[p] \in Goroutine BY DEF TypeInv, TypeOK
  <2>1. x.pc = "failed" /\ x.key = proc[p].key BY <2>0 DEF Goroutine
  <2>2. proc' = [proc EXCEPT ![p] = x] BY <2>0, <1>5 DEF LoaderFails, Goroutine
  <2>3. proc[p].pc \in Leading /\ x.pc \in Leading BY <1>5, <2>1 DEF LoaderFails, Leading
  <2> QED BY <1>5, <2>1, <2>2, <2>3, LeaderStep DEF LoaderFails
<1>6. ASSUME NEW p \in Proc, LoaderPanics(p) PROVE FlightInv'
  <2> DEFINE x == [proc[p] EXCEPT !.pc = "panicked"]
  <2>0. proc[p] \in Goroutine BY DEF TypeInv, TypeOK
  <2>1. x.pc = "panicked" /\ x.key = proc[p].key BY <2>0 DEF Goroutine
  <2>2. proc' = [proc EXCEPT ![p] = x] BY <2>0, <1>6 DEF LoaderPanics, Goroutine
  <2>3. proc[p].pc \in Leading /\ x.pc \in Leading BY <1>6, <2>1 DEF LoaderPanics, Leading
  <2> QED BY <1>6, <2>1, <2>2, <2>3, LeaderStep DEF LoaderPanics
<1>7. ASSUME NEW p \in Proc, Publish(p) PROVE FlightInv'
  <2> DEFINE k == proc[p].key
  <2>1. k \in Key /\ Leads(p, k)
    BY <1>7 DEF Publish, Leads, Leading, TypeInv, KeyKnown
  <2>2. /\ \A q \in Proc : q # p => proc'[q] = proc[q]
        /\ proc'[p].pc = "published" /\ proc'[p].key = k
    <3>1. proc[p] \in Goroutine BY DEF TypeInv, TypeOK
    <3> QED BY <1>7, <3>1 DEF Publish, Goroutine, TypeInv, TypeOK
  <2>3. /\ \A q \in Key : q # k => inflight'[q] = inflight[q]
        /\ inflight'[k] = None
    BY <1>7, <2>1 DEF Publish, Deregistered, TypeInv, TypeOK
  <2>4. \A q \in Proc : Leads(q, k) => q = p
    BY <2>1 DEF FlightInv, LeadersRegistered
  <2>5. LeadersRegistered'
    BY <2>2, <2>3, <2>4 DEF FlightInv, LeadersRegistered, Leads, Leading
  <2>6. RegisteredLead'
    <3> SUFFICES ASSUME NEW q \in Key, inflight'[q] # None
                 PROVE  proc'[inflight'[q]].pc \in Leading /\ proc'[inflight'[q]].key = q
      BY DEF RegisteredLead, Leads
    <3>1. q # k /\ inflight'[q] = inflight[q] BY <2>3
    <3>2. inflight[q] \in Proc /\ Leads(inflight[q], q)
      BY <3>1 DEF FlightInv, RegisteredLead, TypeInv, TypeOK
    <3>3. inflight[q] # p BY <3>1, <3>2 DEF Leads
    <3> QED BY <2>2, <3>1, <3>2, <3>3 DEF Leads
  <2>7. WaitersAttended'
    BY <2>2 DEF FlightInv, WaitersAttended, Leading
  <2> QED BY <2>5, <2>6, <2>7 DEF FlightInv
<1>8. ASSUME NEW p \in Proc, Done(p) PROVE FlightInv'
  <2>1. \A q \in Proc :
          IF q = p \/ (proc[q].pc = "waiting" /\ proc[q].on = p)
          THEN proc'[q].pc = "idle" ELSE proc'[q] = proc[q]
    BY <1>8 DEF Done, Idle
  <2>2. UNCHANGED inflight /\ proc[p].pc = "published" BY <1>8 DEF Done
  <2>3. \A q \in Proc, k \in Key : Leads(q, k)' <=> Leads(q, k)
    BY <2>1, <2>2 DEF Leads, Leading
  <2>4. LeadersRegistered'
    BY <2>2, <2>3 DEF FlightInv, LeadersRegistered
  <2>5. RegisteredLead'
    <3> SUFFICES ASSUME NEW k \in Key, inflight[k] # None PROVE Leads(inflight[k], k)'
      BY <2>2 DEF RegisteredLead
    <3>1. inflight[k] \in Proc /\ Leads(inflight[k], k)
      BY DEF FlightInv, RegisteredLead, TypeInv, TypeOK
    <3>2. proc'[inflight[k]] = proc[inflight[k]]
      BY <2>1, <2>2, <3>1 DEF Leads, Leading
    <3> QED BY <2>2, <3>1, <3>2 DEF Leads
  <2>6. WaitersAttended'
    BY <2>1, <2>2 DEF FlightInv, WaitersAttended, Leading
  <2> QED BY <2>4, <2>5, <2>6 DEF FlightInv
<1>9. CASE RoundStarts
  BY <1>9, <1>a DEF RoundStarts
<1>10. ASSUME NEW k \in Key, RoundRefresh(k) PROVE FlightInv'
  <2>1. /\ Refresher \in Proc /\ proc[Refresher].pc \in Aside /\ TRUE \in BOOLEAN
        /\ LoadSection(Refresher, k, TRUE, newest[k])
    BY <1>10 DEF RoundRefresh, Proc, Aside
  <2> QED BY <2>1, LoadSectionFlight
<1>11. CASE RoundEnds
  BY <1>11, <1>a DEF RoundEnds
<1>12. CASE LoopStops
  BY <1>12, <1>a DEF LoopStops
<1>13. ASSUME NEW k \in Key, Delete(k) PROVE FlightInv'
  BY <1>13, <1>a DEF Delete
<1>14. CASE EvictExpired
  BY <1>14, <1>a DEF EvictExpired
<1>15. CASE Dispose
  BY <1>15, <1>a DEF Dispose
<1>16. CASE CloseStop
  BY <1>16, <1>a DEF CloseStop
<1>17. CASE Tick
  BY <1>17, <1>a DEF Tick
<1>18. CASE Rotate
  BY <1>18, <1>a DEF Rotate
<1>19. CASE UNCHANGED vars
  BY <1>19, <1>a DEF vars
<1> QED
  BY <1>1, <1>2, <1>3, <1>4, <1>5, <1>6, <1>7, <1>8, <1>9, <1>10, <1>11, <1>12, <1>13,
     <1>14, <1>15, <1>16, <1>17, <1>18, <1>19
     DEF Next, Runs, RoundGoesOn

LEMMA FlightInvHolds == Spec => []FlightInv
<1>1. Init => FlightInv
  BY GoCacheAssumption
     DEF Init, Idle, FlightInv, LeadersRegistered, RegisteredLead, WaitersAttended, Leads,
         Leading
<1> QED BY <1>1, FlightInvStep, TypeInvHolds, PTL DEF Spec

(* At most one loader per key runs at any time. *)
THEOREM SingleFlightTheorem == Spec => []SingleFlight
<1>1. FlightInv => SingleFlight
  BY DEF FlightInv, LeadersRegistered, SingleFlight
<1> QED BY <1>1, FlightInvHolds, PTL

(* Whoever waits for a call waits for one that a goroutine still works on, *)
(* has finished, or has left behind in a panic; there is no other way to   *)
(* wait for ever.                                                          *)
THEOREM NoOrphanWaitTheorem == Spec => []NoOrphanWait
<1>1. FlightInv => NoOrphanWait
  BY DEF FlightInv, WaitersAttended, NoOrphanWait
<1> QED BY <1>1, FlightInvHolds, PTL
-----------------------------------------------------------------------------
(* Versions.  What is held of a key is the newest version that landed, and *)
(* an answer on its way is no older, because nobody else's load of the key *)
(* can land meanwhile: single flight is what NeverGoesBack rests on.       *)

Calling == {"missed", "waiting"} \cup Leading

NewestIsOld == \A k \in Key : newest[k] =< origin

EntriesAreNewest == \A k \in Key : entries[k] # None => entries[k].ver = newest[k]

(* g has promised its caller nothing it does not have. *)
Sound(g) ==
  /\ g.pc = "answered" => newest[g.key] =< g.ver /\ g.ver =< origin
  /\ g.pc \in Calling => g.floor =< newest[g.key]
  /\ g.pc = "idle" /\ IsValue(g.out) => g.out.ver >= g.floor

AllSound == \A p \in Proc : Sound(proc[p])

FloorsMet ==
  \A p \in Proc : proc[p].pc = "published" /\ IsValue(proc[p].out) =>
    /\ proc[p].out.ver >= proc[p].floor
    /\ \A q \in Proc : proc[q].pc = "waiting" /\ proc[q].on = p
                         => proc[p].out.ver >= proc[q].floor

VersionInv == NewestIsOld /\ EntriesAreNewest /\ AllSound /\ FloorsMet

LEMMA IdleSound ==
  ASSUME NEW floor, NEW o, IsValue(o) => o.ver >= floor
  PROVE  Sound(Idle(floor, o)) /\ Idle(floor, o).pc = "idle"
  BY DEF Sound, Idle, Calling, Leading

(* One goroutine moves, and joins no call that is published already. *)
LEMMA SoundStep ==
  ASSUME TypeInv, VersionInv, NEW p \in Proc, NEW x, Sound(x), x.pc # "published",
         x.pc = "waiting" => proc[x.on].pc # "published",
         proc' = [proc EXCEPT ![p] = x], UNCHANGED <<newest, origin, entries>>
  PROVE  VersionInv'
<1>1. /\ \A q \in Proc : q # p => proc'[q] = proc[q]
      /\ proc'[p] = x
  BY DEF TypeInv, TypeOK
<1>2. NewestIsOld' /\ EntriesAreNewest'
  BY DEF VersionInv, NewestIsOld, EntriesAreNewest
<1>3. AllSound'
  BY <1>1 DEF VersionInv, AllSound, Sound
<1>4. FloorsMet'
  <2> SUFFICES ASSUME NEW q \in Proc, proc'[q].pc = "published", IsValue(proc'[q].out)
               PROVE  /\ proc'[q].out.ver >= proc'[q].floor
                      /\ \A r \in Proc : proc'[r].pc = "waiting" /\ proc'[r].on = q
                                           => proc'[q].out.ver >= proc'[r].floor
    BY DEF FloorsMet, IsValue
  <2>1. q # p /\ proc'[q] = proc[q] BY <1>1
  <2>2. /\ proc[q].out.ver >= proc[q].floor
        /\ \A r \in Proc : proc[r].pc = "waiting" /\ proc[r].on = q
                             => proc[q].out.ver >= proc[r].floor
    BY <2>1 DEF VersionInv, FloorsMet
  <2> QED BY <1>1, <2>1, <2>2
<1> QED BY <1>2, <1>3, <1>4 DEF VersionInv

LEMMA LoadSectionVersions ==
  ASSUME TypeInv, FlightInv, VersionInv, NEW p \in Proc, NEW k \in Key,
         NEW force \in BOOLEAN, NEW floor \in Nat, floor =< newest[k],
         LoadSection(p, k, force, floor)
  PROVE  VersionInv'
<1> USE GoCacheAssumption
<1>0. UNCHANGED <<newest, origin, entries>> BY DEF LoadSection
<1>1. ASSUME NEW o, IsValue(o) => o.ver >= floor, proc' = [proc EXCEPT ![p] = Idle(floor, o)]
      PROVE  VersionInv'
  <2> DEFINE x == Idle(floor, o)
  <2>1. Sound(x) /\ x.pc = "idle" BY <1>1, IdleSound
  <2>2. proc' = [proc EXCEPT ![p] = x] BY <1>1
  <2> HIDE DEF x
  <2> QED BY <1>0, <2>1, <2>2, SoundStep
<1>2. CASE proc' = [proc EXCEPT ![p] = Idle(floor, Refused)]
  <2>1. ~IsValue(Refused) BY DEF IsValue
  <2> QED BY <1>1, <1>2, <2>1
<1>3. CASE Fresh(k) /\ proc' = [proc EXCEPT ![p] = Idle(floor, entries[k])]
  <2>1. entries[k].ver = newest[k] BY <1>3 DEF Fresh, VersionInv, EntriesAreNewest
  <2>2. entries[k].ver >= floor BY <2>1 DEF TypeInv, TypeOK
  <2> QED BY <1>1, <1>3, <2>2
<1>4. CASE Joinable(k) /\ proc' = [proc EXCEPT ![p] = Waits(p, k, floor)]
  <2> DEFINE x == Waits(p, k, floor)
  <2>1. /\ x.pc = "waiting" /\ x.key = k /\ x.floor = floor /\ x.on = inflight[k]
    BY DEF Waits, Idle
  <2>2. proc[x.on].pc # "published"
    BY <1>4, <2>1 DEF Joinable, FlightInv, RegisteredLead, Leads, Leading
  <2>3. Sound(x) BY <2>1 DEF Sound
  <2>4. proc' = [proc EXCEPT ![p] = x] BY <1>4
  <2> HIDE DEF x
  <2> QED BY <1>0, <2>1, <2>2, <2>3, <2>4, SoundStep
<1>5. CASE proc' = [proc EXCEPT ![p] = Starts(k, floor)]
  <2> DEFINE x == Starts(k, floor)
  <2>1. /\ x.pc = "loading" /\ x.key = k /\ x.floor = floor
    BY DEF Starts, Idle
  <2>2. Sound(x) BY <2>1 DEF Sound
  <2>3. proc' = [proc EXCEPT ![p] = x] BY <1>5
  <2> HIDE DEF x
  <2> QED BY <1>0, <2>1, <2>2, <2>3, SoundStep
<1> QED BY <1>2, <1>3, <1>4, <1>5 DEF LoadSection

LEMMA VersionInvStep == TypeInv /\ FlightInv /\ VersionInv /\ [Next]_vars => VersionInv'
<1> SUFFICES ASSUME TypeInv, FlightInv, VersionInv, [Next]_vars PROVE VersionInv'
  OBVIOUS
<1> USE GoCacheAssumption
<1>a. ASSUME UNCHANGED <<proc, newest, origin>>,
             \A k \in Key : entries'[k] # None => entries'[k] = entries[k]
      PROVE  VersionInv'
  BY <1>a DEF VersionInv, NewestIsOld, EntriesAreNewest, AllSound, FloorsMet, Sound, IsValue
<1>1. ASSUME NEW p \in Caller, NEW k \in Key, Get(p, k) PROVE VersionInv'
  <2>0. p \in Proc /\ UNCHANGED <<newest, origin, entries>> BY <1>1 DEF Proc, Get
  <2>1. CASE Fresh(k)
    <3> DEFINE x == Idle(newest[k], entries[k])
    <3>1. entries[k].ver = newest[k] BY <2>1 DEF Fresh, VersionInv, EntriesAreNewest
    <3>2. entries[k].ver >= newest[k] BY <3>1 DEF TypeInv, TypeOK
    <3>3. Sound(x) /\ x.pc = "idle" BY <3>2, IdleSound
    <3>4. proc' = [proc EXCEPT ![p] = x] BY <1>1, <2>1 DEF Get
    <3> HIDE DEF x
    <3> QED BY <2>0, <3>3, <3>4, SoundStep
  <2>2. CASE ~Fresh(k)
    <3> DEFINE x == [Idle(newest[k], proc[p].out) EXCEPT !.pc = "missed", !.key = k]
    <3>1. x.pc = "missed" /\ x.key = k /\ x.floor = newest[k] BY DEF Idle
    <3>2. newest[k] =< newest[k] BY DEF TypeInv, TypeOK
    <3>3. Sound(x) BY <3>1, <3>2 DEF Sound
    <3>4. proc' = [proc EXCEPT ![p] = x] BY <1>1, <2>0, <2>2 DEF Get, TypeInv, TypeOK
    <3> HIDE DEF x
    <3> QED BY <2>0, <3>1, <3>3, <3>4, SoundStep
  <2> QED BY <2>1, <2>2
<1>2. ASSUME NEW p \in Caller, NEW k \in Key, Refresh(p, k) PROVE VersionInv'
  <2>1. p \in Proc /\ TRUE \in BOOLEAN BY DEF Proc
  <2>2. newest[k] \in Nat /\ newest[k] =< newest[k] BY DEF TypeInv, TypeOK
  <2>3. LoadSection(p, k, TRUE, newest[k]) BY <1>2 DEF Refresh
  <2> QED BY <2>1, <2>2, <2>3, LoadSectionVersions
<1>3. ASSUME NEW p \in Proc, LoadAfterMiss(p) PROVE VersionInv'
  <2>1. proc[p].key \in Key /\ proc[p].floor \in Nat /\ FALSE \in BOOLEAN
    BY <1>3 DEF LoadAfterMiss, TypeInv, TypeOK, KeyKnown, Goroutine
  <2>2. proc[p].floor =< newest[proc[p].key]
    BY <1>3 DEF LoadAfterMiss, VersionInv, AllSound, Sound, Calling
  <2>3. LoadSection(p, proc[p].key, FALSE, proc[p].floor) BY <1>3 DEF LoadAfterMiss
  <2> QED BY <2>1, <2>2, <2>3, LoadSectionVersions
<1>4. ASSUME NEW p \in Proc, LoaderAnswers(p) PROVE VersionInv'
  <2> DEFINE x == [proc[p] EXCEPT !.pc = "answered", !.ver = origin]
  <2>0. proc[p] \in Goroutine /\ proc[p].key \in Key
    BY <1>4 DEF LoaderAnswers, TypeInv, TypeOK, KeyKnown
  <2>1. x.pc = "answered" /\ x.key = proc[p].key /\ x.floor = proc[p].floor /\ x.ver = origin
    BY <2>0 DEF Goroutine
  <2>2. proc' = [proc EXCEPT ![p] = x] BY <2>0, <1>4 DEF LoaderAnswers, Goroutine
  <2>3. proc[p].floor =< newest[proc[p].key] /\ newest[proc[p].key] =< origin
    BY <2>0, <1>4 DEF LoaderAnswers, VersionInv, AllSound, Sound, NewestIsOld, Calling, Leading
  <2>4. Sound(x) BY <2>1, <2>3 DEF Sound, TypeInv, TypeOK
  <2>5. UNCHANGED <<newest, origin, entries>> BY <1>4 DEF LoaderAnswers
  <2> HIDE DEF x
  <2> QED BY <2>1, <2>2, <2>4, <2>5, SoundStep
<1>5. ASSUME NEW p \in Proc, LoaderFails(p) PROVE VersionInv'
  <2> DEFINE x == [proc[p] EXCEPT !.pc = "failed"]
  <2>0. proc[p] \in Goroutine /\ proc[p].key \in Key
    BY <1>5 DEF LoaderFails, TypeInv, TypeOK, KeyKnown
  <2>1. x.pc = "failed" /\ x.key = proc[p].key /\ x.floor = proc[p].floor
    BY <2>0 DEF Goroutine
  <2>2. proc' = [proc EXCEPT ![p] = x] BY <2>0, <1>5 DEF LoaderFails, Goroutine
  <2>3. proc[p].floor =< newest[proc[p].key] /\ newest[proc[p].key] =< origin
    BY <2>0, <1>5 DEF LoaderFails, VersionInv, AllSound, Sound, NewestIsOld, Calling, Leading
  <2>4. Sound(x) BY <2>1, <2>3 DEF Sound
  <2>5. UNCHANGED <<newest, origin, entries>> BY <1>5 DEF LoaderFails
  <2> HIDE DEF x
  <2> QED BY <2>1, <2>2, <2>4, <2>5, SoundStep
<1>6. ASSUME NEW p \in Proc, LoaderPanics(p) PROVE VersionInv'
  <2> DEFINE x == [proc[p] EXCEPT !.pc = "panicked"]
  <2>0. proc[p] \in Goroutine /\ proc[p].key \in Key
    BY <1>6 DEF LoaderPanics, TypeInv, TypeOK, KeyKnown
  <2>1. x.pc = "panicked" /\ x.key = proc[p].key /\ x.floor = proc[p].floor
    BY <2>0 DEF Goroutine
  <2>2. proc' = [proc EXCEPT ![p] = x] BY <2>0, <1>6 DEF LoaderPanics, Goroutine
  <2>3. proc[p].floor =< newest[proc[p].key] /\ newest[proc[p].key] =< origin
    BY <2>0, <1>6 DEF LoaderPanics, VersionInv, AllSound, Sound, NewestIsOld, Calling, Leading
  <2>4. Sound(x) BY <2>1, <2>3 DEF Sound
  <2>5. UNCHANGED <<newest, origin, entries>> BY <1>6 DEF LoaderPanics
  <2> HIDE DEF x
  <2> QED BY <2>1, <2>2, <2>4, <2>5, SoundStep
<1>7. ASSUME NEW p \in Proc, Publish(p) PROVE VersionInv'
  <2> DEFINE k == proc[p].key
  <2>0. proc[p] \in Goroutine /\ k \in Key /\ Leads(p, k)
    BY <1>7 DEF Publish, Leads, Leading, TypeInv, TypeOK, KeyKnown
  <2>1. /\ \A q \in Proc : q # p => proc'[q] = proc[q]
        /\ proc'[p].pc = "published" /\ proc'[p].floor = proc[p].floor
    BY <1>7, <2>0 DEF Publish, Goroutine, TypeInv, TypeOK
  <2>2. /\ \A q \in Key : q # k => newest'[q] = newest[q] /\ entries'[q] = entries[q]
        /\ origin' = origin
        /\ newest[k] \in Nat /\ newest[k] =< newest'[k] /\ newest'[k] =< origin
        /\ entries'[k] # None => entries'[k].ver = newest'[k]
        /\ IsValue(proc'[p].out) => proc'[p].out.ver = newest'[k]
    <3>1. newest[k] \in Nat /\ newest[k] =< origin /\ proc[p].ver \in Nat
      BY <2>0 DEF VersionInv, NewestIsOld, TypeInv, TypeOK, Goroutine
    <3>2. CASE proc[p].pc = "answered"
      <4>1. newest[k] =< proc[p].ver /\ proc[p].ver =< origin
        BY <2>0, <3>2 DEF VersionInv, AllSound, Sound
      <4>2. /\ entries' = [entries EXCEPT ![k] = Landing(p)]
            /\ newest' = [newest EXCEPT ![k] = IF @ > proc[p].ver THEN @ ELSE proc[p].ver]
            /\ proc' = [proc EXCEPT ![p].pc = "published", ![p].out = Landing(p)]
            /\ origin' = origin
        BY <1>7, <3>2 DEF Publish
      <4>3. newest'[k] = proc[p].ver
        BY <2>0, <3>1, <4>1, <4>2 DEF TypeInv, TypeOK
      <4>4. Landing(p).ver = proc[p].ver BY DEF Landing
      <4>5. entries'[k] = Landing(p) /\ proc'[p].out = Landing(p)
        BY <2>0, <4>2 DEF TypeInv, TypeOK, Goroutine
      <4>6. \A q \in Key : q # k => newest'[q] = newest[q] /\ entries'[q] = entries[q]
        BY <4>2 DEF TypeInv, TypeOK
      <4> QED BY <3>1, <4>1, <4>2, <4>3, <4>4, <4>5, <4>6
    <3>3. CASE proc[p].pc = "failed"
      <4>1. /\ proc' = [proc EXCEPT ![p].pc = "published", ![p].out = StandIn(k)]
            /\ UNCHANGED <<entries, newest, origin>>
        BY <1>7, <3>3 DEF Publish
      <4>2. proc'[p].out = StandIn(k)
        BY <2>0, <4>1 DEF TypeInv, TypeOK, Goroutine
      <4>3. entries[k] # None => entries[k].ver = newest[k]
        BY <2>0 DEF VersionInv, EntriesAreNewest
      <4>4. IsValue(StandIn(k)) => StandIn(k).ver = newest[k]
        BY <4>3 DEF StandIn, IsValue
      <4> QED BY <3>1, <4>1, <4>2, <4>3, <4>4
    <3> QED BY <1>7, <3>2, <3>3 DEF Publish
  <2>3. NewestIsOld'
    BY <2>2 DEF VersionInv, NewestIsOld
  <2>4. EntriesAreNewest'
    BY <2>2 DEF VersionInv, EntriesAreNewest
  <2>5. AllSound'
    <3> SUFFICES ASSUME NEW q \in Proc PROVE Sound(proc[q])'
      BY DEF AllSound
    <3>1. CASE q = p
      BY <2>1, <3>1 DEF Sound, Calling, Leading
    <3>2. CASE q # p
      <4>1. Sound(proc[q]) /\ proc'[q] = proc[q] BY <2>1, <3>2 DEF VersionInv, AllSound
      <4>2. proc[q].floor \in Nat BY DEF TypeInv, TypeOK, Goroutine
      <4>3. proc[q].pc # "idle" => proc[q].key \in Key BY DEF TypeInv, KeyKnown
      <4>4. proc[q].pc = "answered" => proc[q].key # k
        BY <2>0, <3>2 DEF FlightInv, LeadersRegistered, Leads, Leading
      <4>5. \A j \in Key : newest[j] \in Nat /\ newest'[j] \in Nat /\ newest[j] =< newest'[j]
        BY <1>7, <2>2, TypeInvStep DEF TypeInv, TypeOK, Next, Runs
      <4>6. proc[q].pc = "answered" =>
              newest'[proc[q].key] =< proc[q].ver /\ proc[q].ver =< origin'
        BY <2>2, <4>1, <4>3, <4>4 DEF Sound
      <4>7. proc[q].pc \in Calling => proc[q].floor =< newest'[proc[q].key]
        BY <4>1, <4>2, <4>3, <4>5 DEF Sound, Calling, Leading
      <4> QED BY <4>1, <4>6, <4>7 DEF Sound, IsValue
    <3> QED BY <3>1, <3>2
  <2>6. FloorsMet'
    <3> SUFFICES ASSUME NEW q \in Proc, proc'[q].pc = "published", IsValue(proc'[q].out)
                 PROVE  /\ proc'[q].out.ver >= proc'[q].floor
                        /\ \A r \in Proc : proc'[r].pc = "waiting" /\ proc'[r].on = q
                                             => proc'[q].out.ver >= proc'[r].floor
      BY DEF FloorsMet, IsValue
    <3>0. \A r \in Proc : proc[r].floor \in Nat BY DEF TypeInv, TypeOK, Goroutine
    <3>1. CASE q = p
      <4>1. proc'[q].out.ver = newest'[k] /\ newest'[k] \in Nat
        BY <1>7, <2>0, <2>2, <3>1, TypeInvStep DEF TypeInv, TypeOK, Next, Runs
      <4>2. proc[p].floor =< newest[k]
        BY <2>0 DEF VersionInv, AllSound, Sound, Calling, Leads
      <4>3. ASSUME NEW r \in Proc, proc'[r].pc = "waiting", proc'[r].on = q
            PROVE  proc'[q].out.ver >= proc'[r].floor
        <5>1. proc'[r] = proc[r] BY <2>1, <4>3
        <5>2. proc[r].key = k BY <3>1, <4>3, <5>1 DEF FlightInv, WaitersAttended
        <5>3. proc[r].floor =< newest[k]
          BY <4>3, <5>1, <5>2 DEF VersionInv, AllSound, Sound, Calling
        <5> QED BY <2>2, <3>0, <4>1, <5>1, <5>3
      <4> QED BY <2>1, <2>2, <3>0, <3>1, <4>1, <4>2, <4>3
    <3>2. CASE q # p
      <4>1. proc'[q] = proc[q] BY <2>1, <3>2
      <4>2. \A r \in Proc : proc'[r].pc = "waiting" => proc'[r] = proc[r] BY <2>1
      <4> QED BY <4>1, <4>2 DEF VersionInv, FloorsMet, IsValue
    <3> QED BY <3>1, <3>2
  <2> QED BY <2>3, <2>4, <2>5, <2>6 DEF VersionInv
<1>8. ASSUME NEW p \in Proc, Done(p) PROVE VersionInv'
  <2> DEFINE back(q) == q = p \/ (proc[q].pc = "waiting" /\ proc[q].on = p)
  <2>1. /\ proc[p].pc = "published"
        /\ \A q \in Proc : back(q) => proc'[q] = Idle(proc[q].floor, proc[p].out)
        /\ \A q \in Proc : ~back(q) => proc'[q] = proc[q]
        /\ UNCHANGED <<newest, origin, entries>>
    BY <1>8 DEF Done
  <2>2. NewestIsOld' /\ EntriesAreNewest'
    BY <2>1 DEF VersionInv, NewestIsOld, EntriesAreNewest
  <2>3. \A q \in Proc : back(q) /\ IsValue(proc[p].out) => proc[p].out.ver >= proc[q].floor
    BY <2>1 DEF VersionInv, FloorsMet
  <2>4. \A q \in Proc : back(q) => Sound(proc'[q]) /\ proc'[q].pc = "idle"
    BY <2>1, <2>3, IdleSound
  <2>5. \A q \in Proc : ~back(q) => Sound(proc[q])
    BY DEF VersionInv, AllSound
  <2>6. AllSound'
    BY <2>1, <2>4, <2>5 DEF AllSound, Sound, IsValue
  <2>7. FloorsMet'
    BY <2>1, <2>4 DEF VersionInv, FloorsMet, IsValue
  <2> QED BY <2>2, <2>6, <2>7 DEF VersionInv
<1>9. CASE RoundStarts
  BY <1>9, <1>a DEF RoundStarts
<1>10. ASSUME NEW k \in Key, RoundRefresh(k) PROVE VersionInv'
  <2>1. Refresher \in Proc /\ TRUE \in BOOLEAN BY DEF Proc
  <2>2. newest[k] \in Nat /\ newest[k] =< newest[k] BY DEF TypeInv, TypeOK
  <2>3. LoadSection(Refresher, k, TRUE, newest[k]) BY <1>10 DEF RoundRefresh
  <2> QED BY <2>1, <2>2, <2>3, LoadSectionVersions
<1>11. CASE RoundEnds
  BY <1>11, <1>a DEF RoundEnds
<1>12. CASE LoopStops
  BY <1>12, <1>a DEF LoopStops
<1>13. ASSUME NEW k \in Key, Delete(k) PROVE VersionInv'
  BY <1>13, <1>a DEF Delete, TypeInv, TypeOK
<1>14. CASE EvictExpired
  BY <1>14, <1>a DEF EvictExpired
<1>15. CASE Dispose
  BY <1>15, <1>a DEF Dispose
<1>16. CASE CloseStop
  BY <1>16, <1>a DEF CloseStop
<1>17. CASE Tick
  BY <1>17, <1>a DEF Tick
<1>18. CASE Rotate
  <2>1. /\ UNCHANGED <<proc, newest, entries>> /\ origin' = origin + 1
        /\ origin \in Nat
    BY <1>18 DEF Rotate, TypeInv, TypeOK
  <2>2. NewestIsOld' /\ EntriesAreNewest'
    BY <2>1 DEF VersionInv, NewestIsOld, EntriesAreNewest, TypeInv, TypeOK
  <2>3. AllSound'
    BY <2>1 DEF VersionInv, AllSound, Sound, IsValue, TypeInv, TypeOK, Goroutine
  <2>4. FloorsMet'
    BY <2>1 DEF VersionInv, FloorsMet, IsValue
  <2> QED BY <2>2, <2>3, <2>4 DEF VersionInv
<1>19. CASE UNCHANGED vars
  BY <1>19, <1>a DEF vars
<1> QED
  BY <1>1, <1>2, <1>3, <1>4, <1>5, <1>6, <1>7, <1>8, <1>9, <1>10, <1>11, <1>12, <1>13,
     <1>14, <1>15, <1>16, <1>17, <1>18, <1>19
     DEF Next, Runs, RoundGoesOn

LEMMA VersionInvHolds == Spec => []VersionInv
<1>1. Init => VersionInv
  BY GoCacheAssumption
     DEF Init, Idle, VersionInv, NewestIsOld, EntriesAreNewest, AllSound, FloorsMet, Sound,
         IsValue, Calling, Leading
<1> QED BY <1>1, VersionInvStep, FlightInvHolds, TypeInvHolds, PTL DEF Spec

(* No call of Get or Refresh returns an older version than one that had    *)
(* landed when it was made, whatever fails, is deleted or disposed of.     *)
THEOREM NeverGoesBackTheorem == Spec => []NeverGoesBack
<1>1. VersionInv => NeverGoesBack
  BY DEF VersionInv, AllSound, Sound, NeverGoesBack
<1> QED BY <1>1, VersionInvHolds, PTL
-----------------------------------------------------------------------------
(* Grace.  Loads began in the past, and the grace is asked about when a    *)
(* load fails, not when its answer is picked up.                           *)

StartedBefore == \A p \in Proc : proc[p].startedAt =< now

GraceInv == StartedBefore /\ ServedWithinGrace

LEMMA GraceMove ==
  ASSUME TypeInv, GraceInv, NEW p \in Proc, NEW x, x.startedAt =< now, x.pc # "published",
         proc' = [proc EXCEPT ![p] = x], UNCHANGED now
  PROVE  GraceInv'
<1>1. /\ \A q \in Proc : q # p => proc'[q] = proc[q]
      /\ proc'[p] = x
  BY DEF TypeInv, TypeOK
<1>2. StartedBefore'
  BY <1>1 DEF GraceInv, StartedBefore
<1>3. ServedWithinGrace'
  <2> SUFFICES ASSUME NEW q \in Proc, proc'[q].pc = "published", IsValue(proc'[q].out)
               PROVE  proc'[q].startedAt < proc'[q].out.expiresAt + Grace
    BY DEF ServedWithinGrace, IsValue
  <2>1. q # p /\ proc'[q] = proc[q] BY <1>1
  <2> QED BY <2>1 DEF GraceInv, ServedWithinGrace
<1> QED BY <1>2, <1>3 DEF GraceInv

LEMMA LoadSectionGrace ==
  ASSUME TypeInv, GraceInv, NEW p \in Proc, NEW k \in Key, NEW force \in BOOLEAN,
         NEW floor, LoadSection(p, k, force, floor)
  PROVE  GraceInv'
<1>0. UNCHANGED now /\ now \in Nat BY DEF LoadSection, TypeInv, TypeOK
<1>1. ASSUME NEW x, x.startedAt \in {0, now}, x.pc # "published",
             proc' = [proc EXCEPT ![p] = x]
      PROVE  GraceInv'
  <2>1. x.startedAt =< now BY <1>0, <1>1
  <2> QED BY <1>0, <1>1, <2>1, GraceMove
<1>2. \A o : Idle(floor, o).startedAt = 0 /\ Idle(floor, o).pc = "idle"
  BY DEF Idle
<1>3. Waits(p, k, floor).startedAt = 0 /\ Waits(p, k, floor).pc = "waiting"
  BY DEF Waits, Idle
<1>4. Starts(k, floor).startedAt = now /\ Starts(k, floor).pc = "loading"
  BY DEF Starts, Idle
<1>5. \/ proc' = [proc EXCEPT ![p] = Idle(floor, Refused)]
      \/ proc' = [proc EXCEPT ![p] = Idle(floor, entries[k])]
      \/ proc' = [proc EXCEPT ![p] = Waits(p, k, floor)]
      \/ proc' = [proc EXCEPT ![p] = Starts(k, floor)]
  BY DEF LoadSection
<1> QED BY <1>1, <1>2, <1>3, <1>4, <1>5

LEMMA GraceInvStep == TypeInv /\ GraceInv /\ [Next]_vars => GraceInv'
<1> SUFFICES ASSUME TypeInv, GraceInv, [Next]_vars PROVE GraceInv'
  OBVIOUS
<1> USE GoCacheAssumption
<1>a. ASSUME UNCHANGED <<proc, now>> PROVE GraceInv'
  BY <1>a DEF GraceInv, StartedBefore, ServedWithinGrace, IsValue
<1>0. \A q \in Proc : proc[q] \in Goroutine /\ proc[q].startedAt =< now
  BY DEF GraceInv, StartedBefore, TypeInv, TypeOK
<1>1. ASSUME NEW p \in Caller, NEW k \in Key, Get(p, k) PROVE GraceInv'
  <2> DEFINE x == IF Fresh(k) THEN Idle(newest[k], entries[k])
                  ELSE [Idle(newest[k], proc[p].out) EXCEPT !.pc = "missed", !.key = k]
  <2>1. p \in Proc /\ now \in Nat BY DEF Proc, TypeInv, TypeOK
  <2>2. x.startedAt = 0 /\ x.pc # "published" BY DEF Idle
  <2>3. proc' = [proc EXCEPT ![p] = x] /\ UNCHANGED now
    BY <1>1, <2>1 DEF Get, TypeInv, TypeOK
  <2> HIDE DEF x
  <2>4. x.startedAt =< now BY <2>1, <2>2
  <2> QED BY <2>1, <2>2, <2>3, <2>4, GraceMove
<1>2. ASSUME NEW p \in Caller, NEW k \in Key, Refresh(p, k) PROVE GraceInv'
  <2>1. p \in Proc /\ TRUE \in BOOLEAN BY DEF Proc
  <2>2. LoadSection(p, k, TRUE, newest[k]) BY <1>2 DEF Refresh
  <2> QED BY <2>1, <2>2, LoadSectionGrace
<1>3. ASSUME NEW p \in Proc, LoadAfterMiss(p) PROVE GraceInv'
  <2>1. proc[p].key \in Key /\ FALSE \in BOOLEAN BY <1>3 DEF LoadAfterMiss, TypeInv, KeyKnown
  <2>2. LoadSection(p, proc[p].key, FALSE, proc[p].floor) BY <1>3 DEF LoadAfterMiss
  <2> QED BY <2>1, <2>2, LoadSectionGrace
<1>4. ASSUME NEW p \in Proc, LoaderAnswers(p) PROVE GraceInv'
  <2> DEFINE x == [proc[p] EXCEPT !.pc = "answered", !.ver = origin]
  <2>1. x.startedAt = proc[p].startedAt /\ x.pc = "answered" BY <1>0 DEF Goroutine
  <2>2. proc' = [proc EXCEPT ![p] = x] BY <1>0, <1>4 DEF LoaderAnswers, Goroutine
  <2> HIDE DEF x
  <2> QED BY <1>0, <1>4, <2>1, <2>2, GraceMove DEF LoaderAnswers
<1>5. ASSUME NEW p \in Proc, LoaderFails(p) PROVE GraceInv'
  <2> DEFINE x == [proc[p] EXCEPT !.pc = "failed"]
  <2>1. x.startedAt = proc[p].startedAt /\ x.pc = "failed" BY <1>0 DEF Goroutine
  <2>2. proc' = [proc EXCEPT ![p] = x] BY <1>0, <1>5 DEF LoaderFails, Goroutine
  <2> HIDE DEF x
  <2> QED BY <1>0, <1>5, <2>1, <2>2, GraceMove DEF LoaderFails
<1>6. ASSUME NEW p \in Proc, LoaderPanics(p) PROVE GraceInv'
  <2> DEFINE x == [proc[p] EXCEPT !.pc = "panicked"]
  <2>1. x.startedAt = proc[p].startedAt /\ x.pc = "panicked" BY <1>0 DEF Goroutine
  <2>2. proc' = [proc EXCEPT ![p] = x] BY <1>0, <1>6 DEF LoaderPanics, Goroutine
  <2> HIDE DEF x
  <2> QED BY <1>0, <1>6, <2>1, <2>2, GraceMove DEF LoaderPanics
<1>7. ASSUME NEW p \in Proc, Publish(p) PROVE GraceInv'
  <2> DEFINE k == proc[p].key
  <2>0. k \in Key /\ now \in Nat /\ proc[p].startedAt \in Nat
    BY <1>0, <1>7 DEF Publish, TypeInv, TypeOK, KeyKnown, Goroutine
  <2>1. /\ \A q \in Proc : q # p => proc'[q] = proc[q]
        /\ proc'[p].startedAt = proc[p].startedAt
        /\ proc'[p].out \in {Landing(p), StandIn(k)}
        /\ UNCHANGED now
    BY <1>0, <1>7 DEF Publish, Goroutine, TypeInv, TypeOK
  <2>2. now < Landing(p).expiresAt + Grace
    BY <2>0, GraceType DEF Landing
  <2>3. IsValue(StandIn(k)) => now < StandIn(k).expiresAt + Grace
    BY DEF StandIn, InGrace, IsValue
  <2>4. \A o : IsValue(o) /\ o \in {Landing(p), StandIn(k)} => o.expiresAt \in Nat
    <3>1. Landing(p).expiresAt \in Nat BY <2>0 DEF Landing
    <3>2. IsValue(StandIn(k)) => StandIn(k) = entries[k] /\ entries[k] # None
      BY DEF StandIn, IsValue
    <3>3. entries[k] # None => entries[k].expiresAt \in Nat
      BY <2>0 DEF TypeInv, TypeOK, Entry
    <3> QED BY <3>1, <3>2, <3>3
  <2>5. IsValue(proc'[p].out) => proc'[p].startedAt < proc'[p].out.expiresAt + Grace
    <3>1. proc'[p].startedAt \in Nat /\ proc'[p].startedAt =< now BY <1>0, <2>0, <2>1
    <3>2. IsValue(proc'[p].out) => /\ now < proc'[p].out.expiresAt + Grace
                                   /\ proc'[p].out.expiresAt \in Nat
      BY <2>1, <2>2, <2>3, <2>4
    <3> QED BY <2>0, <3>1, <3>2, GraceType
  <2>6. StartedBefore'
    BY <1>0, <2>1 DEF StartedBefore
  <2>7. ServedWithinGrace'
    <3> SUFFICES ASSUME NEW q \in Proc, proc'[q].pc = "published", IsValue(proc'[q].out)
                 PROVE  proc'[q].startedAt < proc'[q].out.expiresAt + Grace
      BY DEF ServedWithinGrace, IsValue
    <3>1. CASE q = p
      BY <2>5, <3>1
    <3>2. CASE q # p
      BY <2>1, <3>2 DEF GraceInv, ServedWithinGrace
    <3> QED BY <3>1, <3>2
  <2> QED BY <2>6, <2>7 DEF GraceInv
<1>8. ASSUME NEW p \in Proc, Done(p) PROVE GraceInv'
  <2>1. now \in Nat /\ UNCHANGED now BY <1>8 DEF Done, TypeInv, TypeOK
  <2>2. \A q \in Proc : \/ proc'[q] = proc[q]
                        \/ proc'[q].startedAt = 0 /\ proc'[q].pc = "idle"
    BY <1>8 DEF Done, Idle
  <2>3. StartedBefore'
    BY <1>0, <2>1, <2>2 DEF StartedBefore
  <2>4. ServedWithinGrace'
    BY <2>2 DEF GraceInv, ServedWithinGrace, IsValue
  <2> QED BY <2>3, <2>4 DEF GraceInv
<1>9. CASE RoundStarts
  BY <1>9, <1>a DEF RoundStarts
<1>10. ASSUME NEW k \in Key, RoundRefresh(k) PROVE GraceInv'
  <2>1. Refresher \in Proc /\ TRUE \in BOOLEAN BY DEF Proc
  <2>2. LoadSection(Refresher, k, TRUE, newest[k]) BY <1>10 DEF RoundRefresh
  <2> QED BY <2>1, <2>2, LoadSectionGrace
<1>11. CASE RoundEnds
  BY <1>11, <1>a DEF RoundEnds
<1>12. CASE LoopStops
  BY <1>12, <1>a DEF LoopStops
<1>13. ASSUME NEW k \in Key, Delete(k) PROVE GraceInv'
  BY <1>13, <1>a DEF Delete
<1>14. CASE EvictExpired
  BY <1>14, <1>a DEF EvictExpired
<1>15. CASE Dispose
  BY <1>15, <1>a DEF Dispose
<1>16. CASE CloseStop
  BY <1>16, <1>a DEF CloseStop
<1>17. CASE Tick
  <2>1. UNCHANGED proc /\ now \in Nat /\ now' = now + 1
    BY <1>17 DEF Tick, TypeInv, TypeOK
  <2>2. StartedBefore'
    BY <1>0, <2>1 DEF StartedBefore, Goroutine
  <2> QED BY <2>1, <2>2 DEF GraceInv, ServedWithinGrace, IsValue
<1>18. CASE Rotate
  BY <1>18, <1>a DEF Rotate
<1>19. CASE UNCHANGED vars
  BY <1>19, <1>a DEF vars
<1> QED
  BY <1>1, <1>2, <1>3, <1>4, <1>5, <1>6, <1>7, <1>8, <1>9, <1>10, <1>11, <1>12, <1>13,
     <1>14, <1>15, <1>16, <1>17, <1>18, <1>19
     DEF Next, Runs, RoundGoesOn

(* An entry stands in for a failed load only if its grace was not over     *)
(* when the load began; landed entries always are within it.               *)
THEOREM ServedWithinGraceTheorem == Spec => []ServedWithinGrace
<1>1. Init => GraceInv
  BY GoCacheAssumption DEF Init, Idle, GraceInv, StartedBefore, ServedWithinGrace
<1>2. GraceInv => ServedWithinGrace
  BY DEF GraceInv
<1> QED BY <1>1, <1>2, GraceInvStep, TypeInvHolds, PTL DEF Spec
-----------------------------------------------------------------------------
(***************************************************************************)
(* The Go key cache implements KeyCache, for any values of the constants.  *)
(* The leader of a load is the flight; its second critical section is the  *)
(* one step in which the flight decides and closes, and what comes after,  *)
(* the wake-ups of wg.Done(), changes nothing a caller could tell.         *)
(***************************************************************************)

(* Seen as a flight. *)

LEMMA NoFlight ==
  ASSUME NEW ps, NEW k, \A p \in Proc : ~(ps[p].pc \in Leading /\ ps[p].key = k)
  PROVE  FlightIn(ps, k) = None
  BY DEF FlightIn

LEMMA TheFlight ==
  ASSUME NEW ps, NEW k, NEW p \in Proc, ps[p].pc \in Leading, ps[p].key = k,
         \A q \in Proc : ps[q].pc \in Leading /\ ps[q].key = k => q = p
  PROVE  FlightIn(ps, k) = [since |-> ps[p].since, out |-> None]
<1>1. {q \in Proc : ps[q].pc \in Leading /\ ps[q].key = k} = {p}
  OBVIOUS
<1>2. (CHOOSE q \in {p} : TRUE) = p
  OBVIOUS
<1> QED BY <1>1, <1>2 DEF FlightIn

(* The flight depends on who leads, and since when. *)
LEMMA SameFlight ==
  ASSUME NEW ps, NEW qs, NEW k,
         \A p \in Proc : /\ ps[p].pc \in Leading /\ ps[p].key = k
                              <=> qs[p].pc \in Leading /\ qs[p].key = k
                         /\ ps[p].pc \in Leading => ps[p].since = qs[p].since
  PROVE  FlightIn(ps, k) = FlightIn(qs, k)
<1> DEFINE leaders == {p \in Proc : ps[p].pc \in Leading /\ ps[p].key = k}
<1>1. leaders = {p \in Proc : qs[p].pc \in Leading /\ qs[p].key = k}
  OBVIOUS
<1>2. leaders # {} => (CHOOSE p \in leaders : TRUE) \in leaders
  OBVIOUS
<1>3. leaders # {} => ps[CHOOSE p \in leaders : TRUE].since = qs[CHOOSE p \in leaders : TRUE].since
  BY <1>2
<1> QED BY <1>1, <1>3 DEF FlightIn

(* What the abstract steps need to know of a load beyond its being alone.  *)
Dated ==
  \A p \in Proc :
    /\ proc[p].pc \in Leading => proc[p].since =< origin
    /\ proc[p].pc = "answered" => proc[p].since =< proc[p].ver

RefInv == TypeInv /\ FlightInv /\ VersionInv /\ Dated

LEMMA DatedMove ==
  ASSUME TypeInv, Dated, NEW p \in Proc, NEW x, proc' = [proc EXCEPT ![p] = x],
         UNCHANGED origin, x.pc \in Leading => x.since =< origin,
         x.pc = "answered" => x.since =< x.ver
  PROVE  Dated'
<1>1. /\ \A q \in Proc : q # p => proc'[q] = proc[q]
      /\ proc'[p] = x
  BY DEF TypeInv, TypeOK
<1> QED BY <1>1 DEF Dated

LEMMA LoadSectionDated ==
  ASSUME TypeInv, Dated, NEW p \in Proc, NEW k \in Key, NEW force \in BOOLEAN,
         NEW floor, LoadSection(p, k, force, floor)
  PROVE  Dated'
<1>0. UNCHANGED origin /\ origin =< origin BY DEF LoadSection, TypeInv, TypeOK
<1>1. ASSUME NEW x, x.pc \in {"idle", "waiting"}, proc' = [proc EXCEPT ![p] = x]
      PROVE  Dated'
  <2>1. x.pc \notin Leading /\ x.pc # "answered" BY <1>1 DEF Leading
  <2> QED BY <1>0, <1>1, <2>1, DatedMove
<1>2. \A o : Idle(floor, o).pc = "idle"
  BY DEF Idle
<1>3. Waits(p, k, floor).pc = "waiting"
  BY DEF Waits, Idle
<1>4. ASSUME proc' = [proc EXCEPT ![p] = Starts(k, floor)] PROVE Dated'
  <2> DEFINE x == Starts(k, floor)
  <2>1. x.pc = "loading" /\ x.since = origin BY DEF Starts, Idle
  <2>2. proc' = [proc EXCEPT ![p] = x] BY <1>4
  <2> HIDE DEF x
  <2>3. x.pc # "answered" /\ x.since =< origin BY <1>0, <2>1
  <2> QED BY <1>0, <2>2, <2>3, DatedMove
<1>5. \/ proc' = [proc EXCEPT ![p] = Idle(floor, Refused)]
      \/ proc' = [proc EXCEPT ![p] = Idle(floor, entries[k])]
      \/ proc' = [proc EXCEPT ![p] = Waits(p, k, floor)]
      \/ proc' = [proc EXCEPT ![p] = Starts(k, floor)]
  BY DEF LoadSection
<1> QED BY <1>1, <1>2, <1>3, <1>4, <1>5

LEMMA DatedStep == TypeInv /\ Dated /\ [Next]_vars => Dated'
<1> SUFFICES ASSUME TypeInv, Dated, [Next]_vars PROVE Dated'
  OBVIOUS
<1>a. ASSUME UNCHANGED <<proc, origin>> PROVE Dated'
  BY <1>a DEF Dated
<1>0. \A q \in Proc : proc[q] \in Goroutine BY DEF TypeInv, TypeOK
<1>1. ASSUME NEW p \in Caller, NEW k \in Key, Get(p, k) PROVE Dated'
  <2> DEFINE x == IF Fresh(k) THEN Idle(newest[k], entries[k])
                  ELSE [Idle(newest[k], proc[p].out) EXCEPT !.pc = "missed", !.key = k]
  <2>1. p \in Proc BY DEF Proc
  <2>2. x.pc \notin Leading /\ x.pc # "answered" BY DEF Idle, Leading
  <2>3. proc' = [proc EXCEPT ![p] = x] /\ UNCHANGED origin
    BY <1>1, <2>1 DEF Get, TypeInv, TypeOK
  <2> HIDE DEF x
  <2> QED BY <2>1, <2>2, <2>3, DatedMove
<1>2. ASSUME NEW p \in Caller, NEW k \in Key, Refresh(p, k) PROVE Dated'
  <2>1. p \in Proc /\ TRUE \in BOOLEAN BY DEF Proc
  <2>2. LoadSection(p, k, TRUE, newest[k]) BY <1>2 DEF Refresh
  <2> QED BY <2>1, <2>2, LoadSectionDated
<1>3. ASSUME NEW p \in Proc, LoadAfterMiss(p) PROVE Dated'
  <2>1. proc[p].key \in Key /\ FALSE \in BOOLEAN BY <1>3 DEF LoadAfterMiss, TypeInv, KeyKnown
  <2>2. LoadSection(p, proc[p].key, FALSE, proc[p].floor) BY <1>3 DEF LoadAfterMiss
  <2> QED BY <2>1, <2>2, LoadSectionDated
<1>4. ASSUME NEW p \in Proc, LoaderAnswers(p) \/ LoaderFails(p) \/ LoaderPanics(p)
      PROVE  Dated'
  <2>1. proc[p].pc = "loading" /\ UNCHANGED origin
    BY <1>4 DEF LoaderAnswers, LoaderFails, LoaderPanics
  <2>2. proc[p].since =< origin BY <2>1 DEF Dated, Leading
  <2>3. /\ \A q \in Proc : q # p => proc'[q] = proc[q]
        /\ proc'[p].since = proc[p].since
        /\ proc'[p].pc = "answered" => proc'[p].ver = origin
    BY <1>0, <1>4 DEF LoaderAnswers, LoaderFails, LoaderPanics, Goroutine, TypeInv, TypeOK
  <2> QED BY <2>1, <2>2, <2>3 DEF Dated
<1>5. ASSUME NEW p \in Proc, Publish(p) PROVE Dated'
  <2>1. /\ \A q \in Proc : q # p => proc'[q] = proc[q]
        /\ proc'[p].pc = "published" /\ UNCHANGED origin
    BY <1>0, <1>5 DEF Publish, Goroutine, TypeInv, TypeOK
  <2> QED BY <2>1 DEF Dated, Leading
<1>6. ASSUME NEW p \in Proc, Done(p) PROVE Dated'
  <2>1. \A q \in Proc : proc'[q] = proc[q] \/ proc'[q].pc = "idle"
    BY <1>6 DEF Done, Idle
  <2> QED BY <1>6, <2>1 DEF Done, Dated, Leading
<1>7. ASSUME NEW k \in Key, RoundRefresh(k) PROVE Dated'
  <2>1. Refresher \in Proc /\ TRUE \in BOOLEAN BY DEF Proc
  <2>2. LoadSection(Refresher, k, TRUE, newest[k]) BY <1>7 DEF RoundRefresh
  <2> QED BY <2>1, <2>2, LoadSectionDated
<1>8. CASE RoundStarts \/ RoundEnds \/ LoopStops \/ (\E k \in Key : Delete(k)) \/ EvictExpired
           \/ Dispose \/ CloseStop \/ Tick
  BY <1>8, <1>a DEF RoundStarts, RoundEnds, LoopStops, Delete, EvictExpired, Dispose,
                    CloseStop, Tick
<1>9. CASE Rotate
  <2>1. UNCHANGED proc /\ origin' = origin + 1 /\ origin \in Nat
    BY <1>9 DEF Rotate, TypeInv, TypeOK
  <2>2. \A p \in Proc : proc[p].since \in Nat BY <1>0 DEF Goroutine
  <2> QED BY <2>1, <2>2 DEF Dated
<1>10. CASE UNCHANGED vars
  BY <1>10, <1>a DEF vars
<1> QED
  BY <1>1, <1>2, <1>3, <1>4, <1>5, <1>6, <1>7, <1>8, <1>9, <1>10
     DEF Next, Runs, RoundGoesOn

LEMMA RefInvHolds == Spec => []RefInv
<1>1. Init => Dated
  BY DEF Init, Idle, Dated, Leading
<1>2. TypeInv /\ FlightInv /\ VersionInv /\ Dated => RefInv
  BY DEF RefInv
<1> QED
  BY <1>1, <1>2, DatedStep, TypeInvHolds, FlightInvHolds, VersionInvHolds, PTL DEF Spec
-----------------------------------------------------------------------------
(* Steps.  Each lemma turns a critical section into a step of KeyCache.    *)

LEMMA FlightsAre ==
  ASSUME RefInv, NEW k \in Key
  PROVE  /\ \A p \in Proc : Leads(p, k) =>
              Flights[k] = [since |-> proc[p].since, out |-> None] /\ Flights[k] # None
         /\ (\A p \in Proc : ~Leads(p, k)) => Flights[k] = None
<1>1. ASSUME NEW p \in Proc, Leads(p, k)
      PROVE  Flights[k] = [since |-> proc[p].since, out |-> None] /\ Flights[k] # None
  <2>1. \A q \in Proc : Leads(q, k) => q = p
    BY <1>1 DEF RefInv, FlightInv, LeadersRegistered
  <2>2. Flights[k] = [since |-> proc[p].since, out |-> None]
    BY <1>1, <2>1, TheFlight DEF Flights, Leads
  <2>3. proc[p].since \in Nat BY DEF RefInv, TypeInv, TypeOK, Goroutine
  <2>4. Flights[k] \in [since : Nat, out : {None}] BY <2>2, <2>3
  <2>5. None \notin [since : Nat, out : {None}] BY GoCacheAssumption
  <2> QED BY <2>2, <2>4, <2>5
<1>2. ASSUME \A p \in Proc : ~Leads(p, k) PROVE Flights[k] = None
  BY <1>2, NoFlight DEF Flights, Leads
<1> QED BY <1>1, <1>2

(* Nobody waits on a goroutine that is aside.                              *)
LEMMA AsideTasks ==
  ASSUME RefInv, NEW p \in Proc, proc[p].pc \in Aside, NEW x, proc' = [proc EXCEPT ![p] = x]
  PROVE  Tasks' = [Tasks EXCEPT ![p] = TaskSeen(proc', p)]
<1>1. /\ \A q \in Proc : q # p => proc'[q] = proc[q]
      /\ proc'[p] = x
  BY DEF RefInv, TypeInv, TypeOK
<1>2. ASSUME NEW q \in Proc, q # p PROVE TaskSeen(proc', q) = TaskSeen(proc, q)
  <2>1. CASE proc[q].pc = "waiting"
    <3>1. proc[q].on \in Proc /\ proc[proc[q].on].pc \in Leading \cup {"published"}
      BY <2>1 DEF RefInv, FlightInv, WaitersAttended
    <3>2. proc[q].on # p BY <3>1 DEF Aside, Leading
    <3>3. proc'[q] = proc[q] /\ proc'[proc[q].on] = proc[proc[q].on]
      BY <1>1, <1>2, <3>1, <3>2
    <3> QED BY <3>3 DEF TaskSeen
  <2>2. CASE proc[q].pc # "waiting"
    BY <1>1, <1>2, <2>2 DEF TaskSeen
  <2> QED BY <2>1, <2>2
<1> QED BY <1>2 DEF Tasks

(* Flights stay as they are while the same goroutines lead the same loads. *)
LEMMA SameFlights ==
  ASSUME \A p \in Proc : /\ proc[p].pc \in Leading <=> proc'[p].pc \in Leading
                         /\ proc[p].pc \in Leading => /\ proc[p].key = proc'[p].key
                                                      /\ proc[p].since = proc'[p].since
  PROVE  UNCHANGED Flights
<1>1. \A k \in Key : FlightIn(proc, k) = FlightIn(proc', k)
  <2> SUFFICES ASSUME NEW k \in Key PROVE FlightIn(proc, k) = FlightIn(proc', k)
    OBVIOUS
  <2>1. \A p \in Proc : /\ proc[p].pc \in Leading /\ proc[p].key = k
                             <=> proc'[p].pc \in Leading /\ proc'[p].key = k
                        /\ proc[p].pc \in Leading => proc[p].since = proc'[p].since
    OBVIOUS
  <2> QED BY <2>1, SameFlight
<1> QED BY <1>1 DEF Flights

LEMMA AsideFlights ==
  ASSUME RefInv, NEW p \in Proc, proc[p].pc \notin Leading, NEW x, x.pc \notin Leading,
         proc' = [proc EXCEPT ![p] = x]
  PROVE  UNCHANGED Flights
<1>1. /\ \A q \in Proc : q # p => proc'[q] = proc[q]
      /\ proc'[p] = x
  BY DEF RefInv, TypeInv, TypeOK
<1>2. \A q \in Proc : /\ proc[q].pc \in Leading <=> proc'[q].pc \in Leading
                      /\ proc[q].pc \in Leading => /\ proc[q].key = proc'[q].key
                                                   /\ proc[q].since = proc'[q].since
  BY <1>1
<1> QED BY <1>2, SameFlights

LEMMA LoadSectionRefines ==
  ASSUME RefInv, NEW p \in Proc, NEW k \in Key, NEW force \in BOOLEAN,
         NEW floor \in Nat, proc[p].pc \in Aside, LoadSection(p, k, force, floor)
  PROVE  KC!Hit(p, k) \/ KC!Refuse(p) \/ KC!Board(p, k)
<1> USE GoCacheAssumption
<1>0. /\ UNCHANGED <<now, origin, entries, disposed>>
      /\ proc[p].pc \notin Leading /\ proc[p].pc # "waiting"
      /\ proc \in [Proc -> Goroutine]
  BY DEF LoadSection, Aside, Leading, RefInv, TypeInv, TypeOK
<1>1. Tasks[p].waiting = FALSE
  <2>1. TaskSeen(proc, p).waiting = FALSE BY <1>0 DEF TaskSeen
  <2> QED BY <2>1 DEF Tasks
(* An answer without a load. *)
<1>2. ASSUME NEW o, proc' = [proc EXCEPT ![p] = Idle(floor, o)]
      PROVE  /\ Tasks' = [Tasks EXCEPT ![p] = [waiting |-> FALSE, key |-> None, out |-> o]]
             /\ UNCHANGED Flights
  <2> DEFINE x == Idle(floor, o)
  <2>1. x.pc = "idle" /\ x.out = o BY DEF Idle
  <2>2. proc' = [proc EXCEPT ![p] = x] BY <1>2
  <2> HIDE DEF x
  <2>3. x.pc \notin Leading /\ x.pc # "waiting" BY <2>1 DEF Leading
  <2>4. proc'[p] = x BY <1>0, <2>2
  <2>5. TaskSeen(proc', p) = [waiting |-> FALSE, key |-> None, out |-> o]
    BY <2>1, <2>3, <2>4 DEF TaskSeen
  <2>6. Tasks' = [Tasks EXCEPT ![p] = TaskSeen(proc', p)] BY <2>2, AsideTasks
  <2> QED BY <1>0, <2>2, <2>3, <2>5, <2>6, AsideFlights
<1>3. CASE disposed /\ proc' = [proc EXCEPT ![p] = Idle(floor, Refused)]
  BY <1>0, <1>1, <1>2, <1>3 DEF KC!Refuse, KC!Ended
<1>4. CASE Fresh(k) /\ proc' = [proc EXCEPT ![p] = Idle(floor, entries[k])]
  <2>1. KC!Fresh(entries[k]) BY <1>4 DEF Fresh, KC!Fresh
  <2> QED BY <1>0, <1>1, <1>2, <1>4, <2>1 DEF KC!Hit, KC!Ended
<1>5. CASE ~disposed /\ Joinable(k) /\ proc' = [proc EXCEPT ![p] = Waits(p, k, floor)]
  <2> DEFINE x == Waits(p, k, floor)
             l == inflight[k]
  <2>1. x.pc = "waiting" /\ x.on = l BY DEF Waits, Idle
  <2>2. proc' = [proc EXCEPT ![p] = x] BY <1>5
  <2>3. l \in Proc /\ Leads(l, k) /\ l # p
    BY <1>0, <1>5 DEF Joinable, RefInv, FlightInv, RegisteredLead, Leads, TypeInv, TypeOK
  <2> HIDE DEF x, l
  <2>4. proc'[p] = x /\ proc'[l] = proc[l] BY <1>0, <2>2, <2>3
  <2>5. x.pc \notin Leading BY <2>1 DEF Leading
  <2>6. TaskSeen(proc', p) = [waiting |-> TRUE, key |-> k, out |-> None]
    BY <2>1, <2>3, <2>4 DEF TaskSeen, Leads
  <2>7. Tasks' = [Tasks EXCEPT ![p] = [waiting |-> TRUE, key |-> k, out |-> None]]
    BY <2>2, <2>6, AsideTasks
  <2>8. UNCHANGED Flights BY <1>0, <2>2, <2>5, AsideFlights
  <2>9. Flights[k] # None BY <2>3, FlightsAre
  <2> QED BY <1>0, <1>1, <1>5, <2>7, <2>8, <2>9 DEF KC!Board, KC!Aboard
<1>6. CASE /\ ~disposed /\ ~Joinable(k) /\ proc' = [proc EXCEPT ![p] = Starts(k, floor)]
  <2> DEFINE x == Starts(k, floor)
  <2>1. x.pc = "loading" /\ x.key = k /\ x.since = origin BY DEF Starts, Idle
  <2>2. proc' = [proc EXCEPT ![p] = x] BY <1>6
  <2>3. \A q \in Proc : ~Leads(q, k)
    BY <1>6 DEF Joinable, RefInv, FlightInv, LeadersRegistered, TypeInv, TypeOK
  <2> HIDE DEF x
  <2>4. proc'[p] = x /\ \A q \in Proc : q # p => proc'[q] = proc[q] BY <1>0, <2>2
  <2>5. x.pc \in Leading BY <2>1 DEF Leading
  <2>6. TaskSeen(proc', p) = [waiting |-> TRUE, key |-> k, out |-> None]
    BY <2>1, <2>4, <2>5 DEF TaskSeen
  <2>7. Tasks' = [Tasks EXCEPT ![p] = [waiting |-> TRUE, key |-> k, out |-> None]]
    BY <2>2, <2>6, AsideTasks
  <2>8. FlightIn(proc', k) = [since |-> origin, out |-> None]
    <3>1. \A q \in Proc : proc'[q].pc \in Leading /\ proc'[q].key = k => q = p
      BY <2>3, <2>4 DEF Leads
    <3>2. FlightIn(proc', k) = [since |-> proc'[p].since, out |-> None]
      BY <2>1, <2>4, <2>5, <3>1, TheFlight
    <3> QED BY <2>1, <2>4, <3>2
  <2>9. ASSUME NEW j \in Key, j # k PROVE FlightIn(proc', j) = FlightIn(proc, j)
    <3>1. \A q \in Proc : /\ proc[q].pc \in Leading /\ proc[q].key = j
                               <=> proc'[q].pc \in Leading /\ proc'[q].key = j
                          /\ proc[q].pc \in Leading => proc[q].since = proc'[q].since
      BY <1>0, <2>1, <2>4, <2>9
    <3> QED BY <3>1, SameFlight
  <2>10. Flights' = [Flights EXCEPT ![k] = [since |-> origin, out |-> None]]
    BY <2>8, <2>9 DEF Flights
  <2>11. Flights[k] = None BY <2>3, FlightsAre
  <2> QED BY <1>0, <1>1, <1>6, <2>7, <2>10, <2>11 DEF KC!Board, KC!Aboard, KC!Open
<1> QED BY <1>3, <1>4, <1>5, <1>6 DEF LoadSection

(* The second critical section decides the flight and closes it.           *)
LEMMA PublishRefines ==
  ASSUME RefInv, NEW p \in Proc, Publish(p)
  PROVE  \E k \in Key : KC!DecideAndClose(k)
<1> USE GoCacheAssumption
<1> DEFINE k == proc[p].key
           o == IF proc[p].pc = "answered" THEN Landing(p) ELSE StandIn(k)
           ended == [waiting |-> FALSE, key |-> None, out |-> o]
<1>1. /\ proc[p] \in Goroutine /\ k \in Key /\ Leads(p, k)
      /\ now \in Nat /\ origin \in Nat /\ proc \in [Proc -> Goroutine]
      /\ UNCHANGED <<now, origin, disposed>>
  BY DEF Publish, Leads, Leading, RefInv, TypeInv, TypeOK, KeyKnown
<1>2. \A q \in Proc : Leads(q, k) => q = p
  BY <1>1 DEF RefInv, FlightInv, LeadersRegistered
<1>3. Flights[k] = [since |-> proc[p].since, out |-> None] /\ Flights[k] # None
  BY <1>1, FlightsAre
<1>4. KC!Undecided(k) BY <1>3 DEF KC!Undecided
<1>5. /\ \A q \in Proc : q # p => proc'[q] = proc[q]
      /\ proc'[p].pc = "published" /\ proc'[p].out = o
  BY <1>1 DEF Publish, Goroutine
<1>6. Flights' = [Flights EXCEPT ![k] = None]
  <2> HIDE DEF o, k
  <2>1. \A q \in Proc : ~(proc'[q].pc \in Leading /\ proc'[q].key = k)
    BY <1>2, <1>5 DEF Leads, Leading
  <2>2. FlightIn(proc', k) = None BY <2>1, NoFlight
  <2>3. ASSUME NEW j \in Key, j # k PROVE FlightIn(proc', j) = FlightIn(proc, j)
    <3>1. \A q \in Proc : /\ proc[q].pc \in Leading /\ proc[q].key = j
                               <=> proc'[q].pc \in Leading /\ proc'[q].key = j
                          /\ proc[q].pc \in Leading /\ q # p => proc[q].since = proc'[q].since
      BY <1>1, <1>5, <2>3 DEF Leads, Leading
    <3>2. proc[p].since = proc'[p].since BY <1>1 DEF Publish, Goroutine
    <3>3. \A q \in Proc : proc[q].pc \in Leading => proc[q].since = proc'[q].since
      BY <3>1, <3>2
    <3> QED BY <3>1, <3>3, SameFlight
  <2> QED BY <2>2, <2>3 DEF Flights
<1>7. Tasks' = KC!Delivered(k, o)
  <2>1. ASSUME NEW q \in Proc
        PROVE  Tasks'[q] = IF Tasks[q].waiting /\ Tasks[q].key = k THEN ended ELSE Tasks[q]
    <3>0. Tasks[q] = TaskSeen(proc, q) /\ Tasks'[q] = TaskSeen(proc', q) BY DEF Tasks
    <3>1. CASE q = p \/ (proc[q].pc = "waiting" /\ proc[q].on = p)
      <4>1. TaskSeen(proc, q) = [waiting |-> TRUE, key |-> k, out |-> None]
        <5>1. CASE q = p
          BY <1>1, <5>1 DEF TaskSeen, Leads, Leading
        <5>2. CASE proc[q].pc = "waiting" /\ proc[q].on = p
          BY <1>1, <5>2 DEF TaskSeen, Leads
        <5> QED BY <3>1, <5>1, <5>2
      <4>2. TaskSeen(proc', q) = ended
        <5> HIDE DEF o
        <5>1. proc'[p].pc \notin Leading /\ proc'[p].pc # "waiting" BY <1>5 DEF Leading
        <5>2. CASE q = p
          BY <1>5, <5>1, <5>2 DEF TaskSeen
        <5>3. CASE proc[q].pc = "waiting" /\ proc[q].on = p /\ q # p
          <6>1. proc'[q] = proc[q] BY <1>5, <5>3
          <6> QED BY <1>5, <5>1, <5>3, <6>1 DEF TaskSeen
        <5> QED BY <3>1, <5>2, <5>3
      <4> HIDE DEF ended, k
      <4>3. Tasks[q].waiting /\ Tasks[q].key = k BY <3>0, <4>1
      <4> QED BY <3>0, <4>2, <4>3
    <3>2. CASE ~(q = p \/ (proc[q].pc = "waiting" /\ proc[q].on = p))
      <4>1. proc'[q] = proc[q] BY <1>5, <3>2
      <4>2. TaskSeen(proc', q) = TaskSeen(proc, q)
        <5>1. CASE proc[q].pc = "waiting"
          <6>1. proc[q].on \in Proc /\ proc[q].on # p
            BY <3>2, <5>1 DEF RefInv, FlightInv, WaitersAttended
          <6>2. proc'[proc[q].on] = proc[proc[q].on] BY <1>5, <6>1
          <6> QED BY <4>1, <6>2 DEF TaskSeen
        <5>2. CASE proc[q].pc # "waiting"
          BY <4>1, <5>2 DEF TaskSeen
        <5> QED BY <5>1, <5>2
      <4>3. ~(TaskSeen(proc, q).waiting /\ TaskSeen(proc, q).key = k)
        <5> SUFFICES ASSUME TaskSeen(proc, q).waiting, TaskSeen(proc, q).key = k PROVE FALSE
          OBVIOUS
        <5>1. CASE proc[q].pc = "waiting"
          <6>1. proc[q].on \in Proc /\ proc[q].on # p
            BY <3>2, <5>1 DEF RefInv, FlightInv, WaitersAttended
          <6>2. Leads(proc[q].on, k) BY <5>1 DEF TaskSeen, Leads
          <6> QED BY <1>2, <6>1, <6>2
        <5>2. CASE proc[q].pc # "waiting"
          <6>1. Leads(q, k) BY <5>2 DEF TaskSeen, Leads
          <6> QED BY <1>2, <3>2, <6>1
        <5> QED BY <5>1, <5>2
      <4> QED BY <3>0, <4>2, <4>3
    <3> QED BY <3>1, <3>2
  <2>2. Tasks' = [q \in Proc |-> Tasks'[q]] BY DEF Tasks
  <2> QED BY <2>1, <2>2 DEF KC!Delivered, KC!Ended
<1>8. ASSUME o \in KC!Candidates(k), KC!Decides(k, o) PROVE KC!DecideAndClose(k)
  <2> HIDE DEF o, k
  <2> QED BY <1>1, <1>4, <1>6, <1>7, <1>8 DEF KC!DecideAndClose
<1>9. CASE proc[p].pc = "answered"
  <2>1. o = [ver |-> proc[p].ver, expiresAt |-> now + TTL]
        /\ entries' = [entries EXCEPT ![k] = o]
    BY <1>9 DEF Landing, Publish
  <2>2. proc[p].ver \in proc[p].since .. origin
    <3>1. proc[p].since =< proc[p].ver /\ proc[p].ver =< origin
      BY <1>9 DEF RefInv, Dated, VersionInv, AllSound, Sound
    <3>2. proc[p].since \in Nat /\ proc[p].ver \in Nat BY <1>1 DEF Goroutine
    <3> QED BY <1>1, <3>1, <3>2
  <2> HIDE DEF o, k
  <2>3. o \in [ver : Flights[k].since .. origin, expiresAt : {now + TTL}]
    BY <1>3, <2>1, <2>2
  <2>4. KC!Success(k, o) BY <2>1, <2>3 DEF KC!Success
  <2>5. o \in KC!Candidates(k) BY <2>3 DEF KC!Candidates
  <2>6. KC!DecideAndClose(k) BY <1>8, <2>4, <2>5 DEF KC!Decides
  <2> QED BY <1>1, <2>6
<1>10. CASE proc[p].pc # "answered"
  <2>1. o = StandIn(k) /\ UNCHANGED entries BY <1>10 DEF Publish
  <2>2. StandIn(k) = IF KC!InGrace(entries[k]) THEN entries[k] ELSE Failed
    BY DEF StandIn, InGrace, KC!InGrace
  <2> HIDE DEF o, k
  <2>3. KC!Failure(k, o) BY <2>1, <2>2 DEF KC!Failure
  <2>4. o \in KC!Candidates(k) BY <2>1, <2>2 DEF KC!Candidates
  <2>5. KC!DecideAndClose(k) BY <1>8, <2>3, <2>4 DEF KC!Decides
  <2> QED BY <1>1, <2>5
<1> QED BY <1>9, <1>10

(* wg.Done() tells nobody anything new.                                    *)
LEMMA DoneStutters ==
  ASSUME RefInv, NEW p \in Proc, Done(p)
  PROVE  UNCHANGED KC!vars
<1> DEFINE back(q) == q = p \/ (proc[q].pc = "waiting" /\ proc[q].on = p)
<1>1. /\ proc[p].pc = "published"
      /\ \A q \in Proc : back(q) => proc'[q] = Idle(proc[q].floor, proc[p].out)
      /\ \A q \in Proc : ~back(q) => proc'[q] = proc[q]
      /\ UNCHANGED <<now, origin, entries, disposed>>
  BY DEF Done
<1>2. \A f, o : Idle(f, o).pc = "idle" /\ Idle(f, o).out = o
  BY DEF Idle
<1>3. UNCHANGED Flights
  <2>1. \A q \in Proc : back(q) => proc[q].pc \notin Leading /\ proc'[q].pc \notin Leading
    BY <1>1, <1>2 DEF Leading
  <2> HIDE DEF back
  <2>2. \A q \in Proc : /\ proc[q].pc \in Leading <=> proc'[q].pc \in Leading
                        /\ proc[q].pc \in Leading => /\ proc[q].key = proc'[q].key
                                                     /\ proc[q].since = proc'[q].since
    BY <1>1, <2>1
  <2> QED BY <2>2, SameFlights
<1>4. ASSUME NEW q \in Proc PROVE TaskSeen(proc', q) = TaskSeen(proc, q)
  <2>1. CASE back(q)
    <3>1. TaskSeen(proc, q) = [waiting |-> FALSE, key |-> None, out |-> proc[p].out]
      BY <1>1, <2>1 DEF TaskSeen, Leading
    <3>2. proc'[q].pc = "idle" /\ proc'[q].out = proc[p].out BY <1>1, <1>2, <2>1
    <3>3. TaskSeen(proc', q) = [waiting |-> FALSE, key |-> None, out |-> proc[p].out]
      BY <3>2 DEF TaskSeen, Leading
    <3> QED BY <3>1, <3>3
  <2>2. CASE ~back(q) /\ proc[q].pc = "waiting"
    <3>1. proc[q].on \in Proc /\ proc[proc[q].on].pc \in Leading \cup {"published"}
      BY <2>2 DEF RefInv, FlightInv, WaitersAttended
    <3>2. ~back(proc[q].on) BY <2>2, <3>1 DEF Leading
    <3>3. proc'[q] = proc[q] /\ proc'[proc[q].on] = proc[proc[q].on]
      BY <1>1, <2>2, <3>1, <3>2
    <3> QED BY <3>3 DEF TaskSeen
  <2>3. CASE ~back(q) /\ proc[q].pc # "waiting"
    BY <1>1, <2>3 DEF TaskSeen
  <2> QED BY <2>1, <2>2, <2>3
<1>5. UNCHANGED Tasks BY <1>4 DEF Tasks
<1> QED BY <1>1, <1>3, <1>5 DEF KC!vars

LEMMA LoaderStutters ==
  ASSUME RefInv, NEW p \in Proc, LoaderAnswers(p) \/ LoaderFails(p) \/ LoaderPanics(p)
  PROVE  UNCHANGED KC!vars
<1>1. /\ \A q \in Proc : q # p => proc'[q] = proc[q]
      /\ proc'[p].key = proc[p].key /\ proc'[p].since = proc[p].since
      /\ proc[p].pc \in Leading /\ proc'[p].pc \in Leading
      /\ UNCHANGED <<now, origin, entries, disposed>>
  <2>1. proc[p] \in Goroutine /\ proc \in [Proc -> Goroutine]
    BY DEF RefInv, TypeInv, TypeOK
  <2> QED BY <2>1 DEF LoaderAnswers, LoaderFails, LoaderPanics, Goroutine, Leading
<1>2. UNCHANGED Flights
  <2>1. \A q \in Proc : /\ proc[q].pc \in Leading <=> proc'[q].pc \in Leading
                        /\ proc[q].pc \in Leading => /\ proc[q].key = proc'[q].key
                                                     /\ proc[q].since = proc'[q].since
    BY <1>1
  <2> QED BY <2>1, SameFlights
<1>3. ASSUME NEW q \in Proc PROVE TaskSeen(proc', q) = TaskSeen(proc, q)
  <2>1. proc[p].pc # "waiting" /\ proc'[p].pc # "waiting" BY <1>1 DEF Leading
  <2>2. CASE q = p
    BY <1>1, <2>1, <2>2 DEF TaskSeen
  <2>3. CASE q # p /\ proc[q].pc # "waiting"
    BY <1>1, <2>3 DEF TaskSeen
  <2>4. CASE q # p /\ proc[q].pc = "waiting"
    <3>1. proc[q].on \in Proc BY <2>4 DEF RefInv, FlightInv, WaitersAttended
    <3>2. proc'[q] = proc[q] BY <1>1, <2>4
    <3>3. CASE proc[q].on = p
      BY <1>1, <2>4, <3>2, <3>3 DEF TaskSeen
    <3>4. CASE proc[q].on # p
      BY <1>1, <2>4, <3>1, <3>2, <3>4 DEF TaskSeen
    <3> QED BY <3>3, <3>4
  <2> QED BY <2>2, <2>3, <2>4
<1>4. UNCHANGED Tasks BY <1>3 DEF Tasks
<1> QED BY <1>1, <1>2, <1>4 DEF KC!vars

(* Get's first section: a hit, or nothing yet.                             *)
LEMMA GetRefines ==
  ASSUME RefInv, NEW p \in Caller, NEW k \in Key, Get(p, k)
  PROVE  KC!Hit(p, k) \/ UNCHANGED KC!vars
<1>0. /\ p \in Proc /\ proc[p].pc = "idle" /\ proc[p].pc \in Aside
      /\ proc[p].pc \notin Leading /\ proc \in [Proc -> Goroutine]
      /\ UNCHANGED <<now, origin, entries, disposed>>
  BY DEF Get, Proc, Aside, Leading, RefInv, TypeInv, TypeOK
<1>1. Tasks[p] = [waiting |-> FALSE, key |-> None, out |-> proc[p].out]
  BY <1>0 DEF Tasks, TaskSeen
<1>2. ASSUME NEW x, x.pc \in Aside, proc' = [proc EXCEPT ![p] = x]
      PROVE  /\ Tasks' = [Tasks EXCEPT ![p] = [waiting |-> FALSE, key |-> None, out |-> x.out]]
             /\ UNCHANGED Flights
  <2>1. x.pc \notin Leading /\ x.pc # "waiting" BY <1>2 DEF Aside, Leading
  <2>2. proc'[p] = x BY <1>0, <1>2
  <2>3. TaskSeen(proc', p) = [waiting |-> FALSE, key |-> None, out |-> x.out]
    BY <2>1, <2>2 DEF TaskSeen
  <2>4. Tasks' = [Tasks EXCEPT ![p] = TaskSeen(proc', p)] BY <1>0, <1>2, AsideTasks
  <2> QED BY <1>0, <1>2, <2>1, <2>3, <2>4, AsideFlights
<1>3. CASE Fresh(k)
  <2> DEFINE x == Idle(newest[k], entries[k])
  <2>1. x.pc \in Aside /\ x.out = entries[k] BY DEF Idle, Aside
  <2>2. proc' = [proc EXCEPT ![p] = x] BY <1>3 DEF Get
  <2> HIDE DEF x
  <2>3. /\ Tasks' = [Tasks EXCEPT ![p] = [waiting |-> FALSE, key |-> None, out |-> entries[k]]]
        /\ UNCHANGED Flights
    BY <1>2, <2>1, <2>2
  <2>4. KC!Fresh(entries[k]) BY <1>3 DEF Fresh, KC!Fresh
  <2>5. Tasks[p].waiting = FALSE BY <1>1
  <2> QED BY <1>0, <2>3, <2>4, <2>5 DEF KC!Hit, KC!Ended
<1>4. CASE ~Fresh(k)
  <2> DEFINE x == [Idle(newest[k], proc[p].out) EXCEPT !.pc = "missed", !.key = k]
  <2>1. x.pc \in Aside /\ x.out = proc[p].out BY DEF Idle, Aside
  <2>2. proc' = [proc EXCEPT ![p] = x] BY <1>0, <1>4 DEF Get
  <2> HIDE DEF x
  <2>3. /\ Tasks' = [Tasks EXCEPT ![p] = [waiting |-> FALSE, key |-> None, out |-> proc[p].out]]
        /\ UNCHANGED Flights
    BY <1>2, <2>1, <2>2
  <2>4. Tasks' = [Tasks EXCEPT ![p] = Tasks[p]] BY <1>1, <2>3
  <2>5. UNCHANGED Tasks BY <2>4 DEF Tasks
  <2> QED BY <1>0, <2>3, <2>5 DEF KC!vars
<1> QED BY <1>3, <1>4

LEMMA StepRefines == RefInv /\ [Next]_vars => [KC!Next]_(KC!vars)
<1> SUFFICES ASSUME RefInv, [Next]_vars PROVE [KC!Next]_(KC!vars)
  OBVIOUS
<1>a. ASSUME NEW p \in Proc, NEW k \in Key, KC!Hit(p, k) \/ KC!Refuse(p) \/ KC!Board(p, k)
      PROVE  KC!Next
  BY <1>a DEF KC!Next
<1>b. ASSUME UNCHANGED <<now, origin, entries, disposed, proc>> PROVE UNCHANGED KC!vars
  BY <1>b DEF KC!vars, Flights, Tasks
<1>1. ASSUME NEW p \in Caller, NEW k \in Key, Get(p, k) PROVE [KC!Next]_(KC!vars)
  <2>1. p \in Proc BY DEF Proc
  <2> QED BY <1>1, <1>a, <2>1, GetRefines
<1>2. ASSUME NEW p \in Caller, NEW k \in Key, Refresh(p, k) PROVE KC!Next
  <2>1. p \in Proc /\ TRUE \in BOOLEAN /\ proc[p].pc \in Aside
    BY <1>2 DEF Refresh, Proc, Aside
  <2>2. newest[k] \in Nat BY DEF RefInv, TypeInv, TypeOK
  <2>3. LoadSection(p, k, TRUE, newest[k]) BY <1>2 DEF Refresh
  <2> QED BY <1>a, <2>1, <2>2, <2>3, LoadSectionRefines
<1>3. ASSUME NEW p \in Proc, LoadAfterMiss(p) PROVE KC!Next
  <2>1. /\ proc[p].key \in Key /\ proc[p].floor \in Nat /\ FALSE \in BOOLEAN
        /\ proc[p].pc \in Aside
    BY <1>3 DEF LoadAfterMiss, RefInv, TypeInv, TypeOK, KeyKnown, Goroutine, Aside
  <2>2. LoadSection(p, proc[p].key, FALSE, proc[p].floor) BY <1>3 DEF LoadAfterMiss
  <2> QED BY <1>a, <2>1, <2>2, LoadSectionRefines
<1>4. ASSUME NEW p \in Proc, LoaderAnswers(p) \/ LoaderFails(p) \/ LoaderPanics(p)
      PROVE  UNCHANGED KC!vars
  BY <1>4, LoaderStutters
<1>5. ASSUME NEW p \in Proc, Publish(p) PROVE KC!Next
  BY <1>5, PublishRefines DEF KC!Next
<1>6. ASSUME NEW p \in Proc, Done(p) PROVE UNCHANGED KC!vars
  BY <1>6, DoneStutters
<1>7. ASSUME NEW k \in Key, RoundRefresh(k) PROVE KC!Next
  <2>1. Refresher \in Proc /\ TRUE \in BOOLEAN /\ proc[Refresher].pc \in Aside
    BY <1>7 DEF RoundRefresh, Proc, Aside
  <2>2. newest[k] \in Nat BY DEF RefInv, TypeInv, TypeOK
  <2>3. LoadSection(Refresher, k, TRUE, newest[k]) BY <1>7 DEF RoundRefresh
  <2> QED BY <1>a, <2>1, <2>2, <2>3, LoadSectionRefines
<1>8. CASE RoundStarts \/ RoundEnds \/ LoopStops \/ CloseStop \/ UNCHANGED vars
  BY <1>8, <1>b DEF RoundStarts, RoundEnds, LoopStops, CloseStop, vars
<1>9. ASSUME NEW k \in Key, Delete(k) PROVE KC!Next
  <2>1. entries' = [q \in Key |-> IF q \in {k} THEN None ELSE entries[q]]
    BY <1>9 DEF Delete, RefInv, TypeInv, TypeOK
  <2>2. KC!Drop({k}) BY <1>9, <2>1 DEF Delete, KC!Drop, Flights, Tasks
  <2>3. {k} \in SUBSET Key OBVIOUS
  <2> QED BY <2>2, <2>3 DEF KC!Next
<1>10. CASE EvictExpired
  <2> DEFINE gone == {q \in Key : ~Fresh(q)}
  <2>1. entries' = [q \in Key |-> IF q \in gone THEN None ELSE entries[q]]
    BY <1>10 DEF EvictExpired
  <2>2. KC!Drop(gone) BY <1>10, <2>1 DEF EvictExpired, KC!Drop, Flights, Tasks
  <2>3. gone \in SUBSET Key OBVIOUS
  <2> HIDE DEF gone
  <2> QED BY <2>2, <2>3 DEF KC!Next
<1>11. CASE Dispose
  BY <1>11 DEF Dispose, KC!Dispose, KC!Next, Flights, Tasks
<1>12. CASE Tick
  BY <1>12 DEF Tick, KC!Tick, KC!Next, Flights, Tasks
<1>13. CASE Rotate
  BY <1>13 DEF Rotate, KC!Rotate, KC!Next, Flights, Tasks
<1> QED
  BY <1>1, <1>2, <1>3, <1>4, <1>5, <1>6, <1>7, <1>8, <1>9, <1>10, <1>11, <1>12, <1>13
     DEF Next, Runs, RoundGoesOn

(* The Go cache keeps every promise of KeyCache, with any number of        *)
(* goroutines, panicking loaders included: a flight that never decides is  *)
(* one of the things KeyCache leaves open.                                 *)
THEOREM Refinement == Spec => ImplementsKeyCache
<1>1. Init => KC!Init
  <2> SUFFICES ASSUME Init PROVE KC!Init
    OBVIOUS
  <2>1. \A p \in Proc : /\ proc[p].pc = "idle" /\ proc[p].out = None
    BY DEF Init, Idle
  <2>2. ASSUME NEW k \in Key PROVE FlightIn(proc, k) = None
    <3>1. \A p \in Proc : ~(proc[p].pc \in Leading /\ proc[p].key = k)
      BY <2>1 DEF Leading
    <3> QED BY <3>1, NoFlight
  <2>3. Flights = [k \in Key |-> None] BY <2>2 DEF Flights
  <2>4. Tasks = [p \in Proc |-> KC!Ended(None)]
    BY <2>1 DEF Tasks, TaskSeen, Leading, KC!Ended
  <2>5. /\ now = 0 /\ origin \in Nat /\ entries = [k \in Key |-> None] /\ disposed = FALSE
    BY DEF Init
  <2> QED BY <2>3, <2>4, <2>5 DEF KC!Init
<1> QED BY <1>1, StepRefines, RefInvHolds, PTL DEF Spec, ImplementsKeyCache, KC!Spec
=============================================================================
