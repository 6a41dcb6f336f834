------------------------------ MODULE KeyCache ------------------------------
(***************************************************************************)
(* What the key cache promises its callers, whichever language it is       *)
(* written in: per key at most one flight, whose members all receive what  *)
(* the flight decides; a flight decides once, between opening and closing; *)
(* a value it fetched was current at the source during the flight; a       *)
(* failed flight hands out the cached value while its grace lasts and the  *)
(* failure otherwise.  MemoryKeyCache (Node) and GoKeyCache (Go) implement *)
(* this specification.                                                     *)
(***************************************************************************)
EXTENDS Naturals

CONSTANTS Key, Caller,
          TTL,           \* a landed value is fresh for TTL
          StaleIfError,  \* and may stand in for a failure for StaleIfError more
          None, Failed, Refused

VARIABLES now,      \* the clock
          origin,   \* version of the data the loader reads
          entries,  \* [Key -> Entry or None], the cached values
          flight,   \* [Key -> Flight or None], the load under way for a key
          disposed, \* whether Dispose was called
          task      \* [Caller -> Task], the call each caller is in

vars == <<now, origin, entries, flight, disposed, task>>

Entry   == [ver : Nat, expiresAt : Nat]
Outcome == Entry \cup {None, Failed, Refused}
Flight  == [since : Nat, out : Outcome]
Task    == [waiting : BOOLEAN, key : Key \cup {None}, out : Outcome]

Fresh(e)    == e # None /\ now < e.expiresAt
InGrace(e)  == e # None /\ now < e.expiresAt + StaleIfError
Open        == [since |-> origin, out |-> None]
Ended(o)    == [waiting |-> FALSE, key |-> None, out |-> o]
Aboard(k)   == [waiting |-> TRUE, key |-> k, out |-> None]
Delivered(k, o) ==
  [c \in Caller |-> IF task[c].waiting /\ task[c].key = k THEN Ended(o) ELSE task[c]]

Init ==
  /\ now = 0
  /\ origin \in Nat
  /\ entries = [k \in Key |-> None]
  /\ flight = [k \in Key |-> None]
  /\ disposed = FALSE
  /\ task = [c \in Caller |-> Ended(None)]

(* A fresh value is handed out at once. *)
Hit(c, k) ==
  /\ ~task[c].waiting
  /\ Fresh(entries[k])
  /\ task' = [task EXCEPT ![c] = Ended(entries[k])]
  /\ UNCHANGED <<now, origin, entries, flight, disposed>>

(* A disposed cache refuses. *)
Refuse(c) ==
  /\ ~task[c].waiting
  /\ disposed
  /\ task' = [task EXCEPT ![c] = Ended(Refused)]
  /\ UNCHANGED <<now, origin, entries, flight, disposed>>

(* The caller boards the key's flight, opening one when there is none. *)
Board(c, k) ==
  /\ ~task[c].waiting
  /\ ~disposed
  /\ flight' = IF flight[k] = None THEN [flight EXCEPT ![k] = Open] ELSE flight
  /\ task' = [task EXCEPT ![c] = Aboard(k)]
  /\ UNCHANGED <<now, origin, entries, disposed>>

(* The background refresh opens flights nobody waits for yet. *)
OpenAll(K) ==
  /\ ~disposed
  /\ \A k \in K : flight[k] = None
  /\ flight' = [k \in Key |-> IF k \in K THEN Open ELSE flight[k]]
  /\ UNCHANGED <<now, origin, entries, disposed, task>>

(* What a flight may decide, and what its decision does to the entry. *)
Success(k, e) ==
  /\ e \in [ver : flight[k].since .. origin, expiresAt : {now + TTL}]
  /\ entries' = [entries EXCEPT ![k] = e]

Failure(k, o) ==
  /\ o = IF InGrace(entries[k]) THEN entries[k] ELSE Failed
  /\ UNCHANGED entries

Decides(k, o) == Success(k, o) \/ Failure(k, o)

Undecided(k) == flight[k] # None /\ flight[k].out = None

(* Every outcome a flight for k can have now: finite, so TLC can try them. *)
Candidates(k) ==
  [ver : flight[k].since .. origin, expiresAt : {now + TTL}]
    \cup {entries[k], Failed}

Decide(k) ==
  /\ Undecided(k)
  /\ \E o \in Candidates(k) :
       /\ Decides(k, o)
       /\ flight' = [flight EXCEPT ![k].out = o]
  /\ UNCHANGED <<now, origin, disposed, task>>

Close(k) ==
  /\ flight[k] # None
  /\ flight[k].out # None
  /\ flight' = [flight EXCEPT ![k] = None]
  /\ task' = Delivered(k, flight[k].out)
  /\ UNCHANGED <<now, origin, entries, disposed>>

(* Deciding and closing in one step: the Go cache does both under its lock. *)
DecideAndClose(k) ==
  /\ Undecided(k)
  /\ \E o \in Candidates(k) :
       /\ Decides(k, o)
       /\ task' = Delivered(k, o)
  /\ flight' = [flight EXCEPT ![k] = None]
  /\ UNCHANGED <<now, origin, disposed>>

(* Entries go by Delete, Clear and EvictExpired; flights are left alone. *)
Drop(K) ==
  /\ entries' = [k \in Key |-> IF k \in K THEN None ELSE entries[k]]
  /\ UNCHANGED <<now, origin, flight, disposed, task>>

Dispose ==
  /\ disposed' = TRUE
  /\ entries' = [k \in Key |-> None]
  /\ UNCHANGED <<now, origin, flight, task>>

Tick ==
  /\ now' \in {now + 1}
  /\ UNCHANGED <<origin, entries, flight, disposed, task>>

Rotate ==
  /\ origin' \in {origin + 1}
  /\ UNCHANGED <<now, entries, flight, disposed, task>>

Next ==
  \/ \E c \in Caller, k \in Key : Hit(c, k) \/ Refuse(c) \/ Board(c, k)
  \/ \E k \in Key : Decide(k) \/ Close(k) \/ DecideAndClose(k)
  \/ \E K \in SUBSET Key : OpenAll(K) \/ Drop(K)
  \/ Dispose
  \/ Tick
  \/ Rotate

Spec == Init /\ [][Next]_vars
=============================================================================
