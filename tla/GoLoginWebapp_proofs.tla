------------------------ MODULE GoLoginWebapp_proofs ------------------------
(***************************************************************************)
(* The Go login webapp, for any number of goroutines, sessions, providers  *)
(* and attempts, and for every interleaving of the accesses they race in:  *)
(* who can pass the nonce check, who can still be refused, and what a      *)
(* logout leaves behind.                                                   *)
(***************************************************************************)
EXTENDS GoLoginWebapp, TLAPS

CallbackPC == {"opening", "awaiting", "checking", "signing"}
Busy(r)    == proc[r].pc # "idle"
CallsBack(r) == proc[r].pc \in CallbackPC

(* A goroutine works in a session that was handed out: a login for an      *)
(* attempt of its own, a callback on a query that was sent.                *)
LoginsBelong ==
  \A r \in Request : LogsIn(r) =>
    /\ proc[r].own \in Attempts
    /\ proc[r].sid = attempt[proc[r].own].sid
    /\ proc[r].req.flow = attempt[proc[r].own].flow
    /\ proc[r].left \subseteq {"state", "nonce", "flow"}
    /\ proc[r].pc = "redirecting" => "flow" \notin proc[r].left
    /\ \A q \in Request \ {r} : LogsIn(q) => proc[q].own # proc[r].own

CallbacksBelong ==
  \A r \in Request : CallsBack(r) =>
    /\ proc[r].req \in asked
    /\ proc[r].own = proc[r].req.nonce
    /\ proc[r].pc = "opening" => proc[r].left \subseteq {"flow", "state"}

UndrawnAreUnused ==
  /\ \A r \in Request : Busy(r) => proc[r].sid \in drawn
  /\ \A s \in Sid \ drawn : session[s].user = None

(* Numbers are those of attempts made. *)
Made == Maybe(Attempts)
NumbersAreMade ==
  /\ \A s \in Sid : session[s].state \in Made /\ session[s].nonce \in Made
  /\ \A query \in asked : query.state \in Made /\ query.nonce \in Made
  /\ \A r \in Request : proc[r].req.state \in Made /\ proc[r].req.nonce \in Made

(* The login of attempt n has yet to write its nonce, or to finish. *)
NonceDue(n) == \E r \in Request :
  proc[r].pc = "starting" /\ proc[r].own = n /\ "nonce" \in proc[r].left
Starting(n) == \E r \in Request : proc[r].pc = "starting" /\ proc[r].own = n

(* A session's state and nonce are of attempts made in it. *)
NoncesBelong ==
  \A s \in Sid, n \in Attempts :
    /\ session[s].state = n => attempt[n].sid = s
    /\ session[s].nonce = n => attempt[n].sid = s /\ ~NonceDue(n)

WrittenAreOver == \A n \in written : ~Starting(n)

(* The nonces of the queries that have signed somebody in. *)
SignedNonces == {query.nonce : query \in signedIn} \ {None}

(* An attempt that passed is spent as soon as its nonce has been cleared. *)
PassedAreSpent ==
  /\ \A n \in passed : ~NonceDue(n)
  /\ \A r \in Request : proc[r].pc = "signing" /\ proc[r].own # None =>
       /\ proc[r].own \in passed
       /\ proc[r].sid = attempt[proc[r].own].sid
       /\ "nonce" \notin proc[r].left => session[proc[r].sid].nonce # proc[r].own
  /\ \A n \in SignedNonces : n \in passed /\ session[attempt[n].sid].nonce # n

(* A later login leaves nothing of an attempt that was over before it. *)
LaterNonceReplaces ==
  \A m \in Attempts : \A n \in attempt[m].after :
    /\ n \in written /\ n # m
    /\ attempt[m].sid = attempt[n].sid /\ ~NonceDue(m) => session[attempt[n].sid].nonce # n

(* A login disturbs the others of its session with its first write. *)
LoginsDisturb ==
  \A r \in Request :
    proc[r].pc = "redirecting" =>
      \A n \in Attempts : attempt[n].sid = proc[r].sid => n = proc[r].own \/ n \in disturbed

(* What an undisturbed login has written is there ... *)
Stands(n, x) ==
  session[attempt[n].sid][x] = IF x = "flow" THEN attempt[n].flow ELSE n
LoginFields == {"state", "nonce", "flow"}
Spoilt == disturbed \cup passed

UndisturbedStand ==
  /\ \A n \in written : n \notin Spoilt => \A x \in LoginFields : Stands(n, x)
  /\ \A r \in Request : proc[r].pc = "starting" /\ proc[r].own \notin Spoilt =>
       \A x \in LoginFields \ proc[r].left : Stands(proc[r].own, x)

(* ... and only its own query names it. *)
Names(query, n) == query.state = n \/ query.nonce = n
UndisturbedAreTheirOwn ==
  /\ \A r \in Request : proc[r].pc = "redirecting" =>
       /\ proc[r].own \in written
       /\ \A n \in Attempts : Names(proc[r].req, n) => n = proc[r].own \/ n \in disturbed
  /\ \A r \in Request : proc[r].pc = "starting" => proc[r].req.state = None /\ proc[r].req.nonce = None
  /\ \A query \in asked : \A n \in Attempts :
       Names(query, n) => n \in written \/ n \in disturbed

(* So a callback of it reads what it looks for. *)
CallbacksRead ==
  \A r \in Request : LET n == proc[r].own IN
    /\ proc[r].pc = "opening" /\ n \in Attempts \ Spoilt
    /\ proc[r].req.state = n /\ attempt[n].sid = proc[r].sid
    => /\ "flow" \in proc[r].left \/ proc[r].flow # None
       /\ "state" \in proc[r].left \/ proc[r].state = n

GInv ==
  /\ TypeOK /\ LoginsBelong /\ CallbacksBelong /\ UndrawnAreUnused /\ NumbersAreMade
  /\ NoncesBelong /\ WrittenAreOver /\ PassedAreSpent /\ LaterNonceReplaces
  /\ LoginsDisturb /\ UndisturbedStand /\ UndisturbedAreTheirOwn /\ CallbacksRead
-----------------------------------------------------------------------------
(***************************************************************************)
(* What the steps do to a goroutine and to a session, field by field.      *)

Field == {"state", "nonce", "flow", "user"}

LEMMA AttemptsAre ==
  ASSUME TypeOK
  PROVE  /\ Attempts = 1 .. Len(attempt) /\ Attempts \subseteq Number /\ None \notin Attempts
         /\ \A n \in Attempts : attempt[n] \in Attempt
<1>1. attempt \in Seq(Attempt) /\ Len(attempt) \in Nat /\ Len(attempt) <= MaxAttempt
  BY DEF TypeOK
<1>2. Attempts = 1 .. Len(attempt)
  BY <1>1 DEF Attempts
<1>3. Attempts \subseteq Number /\ None \notin Attempts
  BY <1>1, <1>2, GoWebappAssumption DEF Number
<1>4. \A n \in Attempts : attempt[n] \in Attempt
  BY <1>1, <1>2
<1> QED BY <1>2, <1>3, <1>4

LEMMA OneMoreAttempt ==
  ASSUME TypeOK, Len(attempt) < MaxAttempt, NEW a \in Attempt, attempt' = Append(attempt, a)
  PROVE  /\ attempt' \in Seq(Attempt) /\ Len(attempt') <= MaxAttempt
         /\ Attempts' = Attempts \cup {Len(attempt) + 1}
         /\ Len(attempt) + 1 \notin Attempts /\ Len(attempt) + 1 \in Number
         /\ \A n \in Attempts : attempt'[n] = attempt[n]
         /\ attempt'[Len(attempt) + 1] = a
<1>1. attempt \in Seq(Attempt) /\ Len(attempt) \in Nat /\ Len(attempt) <= MaxAttempt
  BY DEF TypeOK
<1>2. /\ attempt' \in Seq(Attempt) /\ Len(attempt') = Len(attempt) + 1
      /\ attempt'[Len(attempt) + 1] = a
      /\ \A n \in 1 .. Len(attempt) : attempt'[n] = attempt[n]
  BY <1>1
<1>3. Attempts' = 1 .. Len(attempt')
  BY <1>2 DEF Attempts
<1>4. 1 .. (Len(attempt) + 1) = (1 .. Len(attempt)) \cup {Len(attempt) + 1}
  BY <1>1
<1>5. Len(attempt') <= MaxAttempt /\ Len(attempt) + 1 \in Number
  BY <1>1, <1>2, GoWebappAssumption DEF Number
<1>6. Len(attempt) + 1 \notin Attempts
  BY <1>1, AttemptsAre
<1> QED BY <1>2, <1>3, <1>4, <1>5, <1>6, AttemptsAre

LEMMA IdleType ==
  /\ NoReq \in Asked
  /\ Idle \in Goroutine /\ Idle.pc = "idle" /\ Idle.own = None /\ Idle.req = NoReq
  /\ NoReq.state = None /\ NoReq.nonce = None
  BY DEF Idle, Goroutine, NoReq, Asked, PC, Maybe

LEMMA ProcType == ASSUME TypeOK, NEW r \in Request PROVE proc[r] \in Goroutine
  BY DEF TypeOK

(* The value of one access: the others are as they were. *)
LEMMA AccessedIs ==
  ASSUME TypeOK, NEW r \in Request, NEW x \in proc[r].left, NEW new \in Goroutine,
         NEW then \in Goroutine, new.left = proc[r].left, Accessed(r, x, new, then)
  PROVE  /\ proc' \in [Request -> Goroutine]
         /\ \A q \in Request \ {r} : proc'[q] = proc[q]
         /\ proc[r].left = {x} => proc'[r] = then
         /\ proc[r].left # {x} =>
              /\ proc'[r].left = proc[r].left \ {x}
              /\ proc'[r].pc = new.pc /\ proc'[r].sid = new.sid /\ proc'[r].own = new.own
              /\ proc'[r].req = new.req /\ proc'[r].flow = new.flow /\ proc'[r].state = new.state
<1> DEFINE val == IF proc[r].left = {x} THEN then ELSE [new EXCEPT !.left = @ \ {x}]
<1>1. proc \in [Request -> Goroutine] /\ proc' = [proc EXCEPT ![r] = val]
  BY DEF TypeOK, Accessed
<1>2. /\ [new EXCEPT !.left = @ \ {x}] \in Goroutine
      /\ [new EXCEPT !.left = @ \ {x}].left = proc[r].left \ {x}
      /\ [new EXCEPT !.left = @ \ {x}].pc = new.pc /\ [new EXCEPT !.left = @ \ {x}].sid = new.sid
      /\ [new EXCEPT !.left = @ \ {x}].own = new.own /\ [new EXCEPT !.left = @ \ {x}].req = new.req
      /\ [new EXCEPT !.left = @ \ {x}].flow = new.flow
      /\ [new EXCEPT !.left = @ \ {x}].state = new.state
  BY DEF Goroutine
<1>3. val \in Goroutine
  BY <1>2
<1>4. proc'[r] = val /\ \A q \in Request \ {r} : proc'[q] = proc[q]
  BY <1>1
<1>5. proc' \in [Request -> Goroutine]
  BY <1>1, <1>3
<1> QED BY <1>2, <1>4, <1>5

(* What field x of a session may hold. *)
FieldType(x) == CASE x = "flow" -> Maybe(Flow) [] x = "user" -> Maybe(0 .. MaxAttempt)
                  [] OTHER -> Maybe(Number)

LEMMA SessionWrite ==
  ASSUME TypeOK, NEW s \in Sid, NEW x \in Field, NEW v \in FieldType(x),
         session' = [session EXCEPT ![s][x] = v]
  PROVE  /\ session' \in [Sid -> Session]
         /\ session'[s][x] = v
         /\ \A y \in Field \ {x} : session'[s][y] = session[s][y]
         /\ \A t \in Sid \ {s} : session'[t] = session[t]
<1>1. session \in [Sid -> Session] /\ session[s] \in Session
  BY DEF TypeOK
<1>2. /\ [session[s] EXCEPT ![x] = v] \in Session /\ [session[s] EXCEPT ![x] = v][x] = v
      /\ \A y \in Field \ {x} : [session[s] EXCEPT ![x] = v][y] = session[s][y]
  <2>1. CASE x = "state" BY <1>1, <2>1 DEF Session, Field, FieldType
  <2>2. CASE x = "nonce" BY <1>1, <2>2 DEF Session, Field, FieldType
  <2>3. CASE x = "flow" BY <1>1, <2>3 DEF Session, Field, FieldType
  <2>4. CASE x = "user" BY <1>1, <2>4 DEF Session, Field, FieldType
  <2> QED BY <2>1, <2>2, <2>3, <2>4 DEF Field
<1>3. session' = [session EXCEPT ![s] = [session[s] EXCEPT ![x] = v]]
  BY <1>1
<1>4. session'[s] = [session[s] EXCEPT ![x] = v] /\ \A t \in Sid \ {s} : session'[t] = session[t]
  BY <1>1, <1>3
<1>5. session' \in [Sid -> Session]
  BY <1>1, <1>2, <1>3
<1> QED BY <1>2, <1>4, <1>5

LEMMA GetSessionIs ==
  ASSUME TypeOK, NEW s \in Sid, GetSession(s)
  PROVE  /\ stored' \subseteq drawn' /\ drawn' \subseteq Sid
         /\ drawn \subseteq drawn' /\ s \in drawn'
         /\ s \in stored \/ s \notin drawn
         /\ stored' \subseteq stored \cup {s}
  BY DEF TypeOK, GetSession

(* A refused callback leaves the session as it is. *)
LEMMA RefusalIs ==
  ASSUME TypeOK, NEW r \in Request, Refuses(r), proc[r].sid \in Sid
  PROVE  session' = session /\ proc' = [proc EXCEPT ![r] = Idle]
  BY DEF TypeOK, Refuses, AfterRefusal

(* What the invariant says of a goroutine. *)
LEMMA AtWork ==
  ASSUME GInv, NEW r \in Request
  PROVE  /\ proc[r] \in Goroutine
         /\ Busy(r) => proc[r].sid \in drawn /\ proc[r].sid \in Sid
         /\ LogsIn(r) => Busy(r) /\ ~CallsBack(r) /\ proc[r].own \in Attempts
         /\ CallsBack(r) => Busy(r) /\ proc[r].own \in Made
         /\ proc[r].pc # "idle" => LogsIn(r) \/ CallsBack(r)
         /\ proc[r].req \in Asked /\ proc[r].left \subseteq Field
<1>1. TypeOK /\ proc[r] \in Goroutine
  BY ProcType DEF GInv
<1>2. Busy(r) => proc[r].sid \in drawn /\ proc[r].sid \in Sid
  BY <1>1 DEF GInv, UndrawnAreUnused, TypeOK
<1>3. LogsIn(r) => Busy(r) /\ ~CallsBack(r) /\ proc[r].own \in Attempts
  BY DEF GInv, LoginsBelong, LogsIn, Busy, CallsBack, CallbackPC
<1>4. CallsBack(r) => Busy(r) /\ proc[r].own \in Made
  BY DEF GInv, CallbacksBelong, NumbersAreMade, Busy, CallsBack, CallbackPC
<1>5. proc[r].pc # "idle" => LogsIn(r) \/ CallsBack(r)
  BY <1>1 DEF Goroutine, PC, LogsIn, CallsBack, CallbackPC
<1>6. proc[r].req \in Asked /\ proc[r].left \subseteq Field
  BY <1>1 DEF Goroutine, Field
<1> QED BY <1>1, <1>2, <1>3, <1>4, <1>5, <1>6

(* The fields of a session, by name. *)
LEMMA ByName ==
  ASSUME TypeOK, NEW s \in Sid
  PROVE  /\ session[s] \in Session
         /\ session[s]["nonce"] = session[s].nonce /\ session[s]["state"] = session[s].state
         /\ session[s]["flow"] = session[s].flow /\ session[s]["user"] = session[s].user
         /\ session[s].nonce \in Maybe(Number) /\ session[s].state \in Maybe(Number)
         /\ session[s].flow \in Maybe(Flow) /\ session[s].user \in Maybe(0 .. MaxAttempt)
  BY DEF TypeOK, Session

-----------------------------------------------------------------------------
(***************************************************************************)
(* Steps that write to no session: Look, Logout, a goroutine that ends,    *)
(* and a callback that goes on.                                            *)

LEMMA GoroutineEndsInv ==
  ASSUME GInv, NEW r \in Request, proc[r].pc # "starting", proc' = [proc EXCEPT ![r] = Idle],
         UNCHANGED <<stored, drawn, session, attempt, asked, written, disturbed, overtaken,
                     passed, signedIn>>
  PROVE  GInv'
<1>1. /\ proc'[r] = Idle /\ \A q \in Request \ {r} : proc'[q] = proc[q]
      /\ proc' \in [Request -> Goroutine]
  BY IdleType DEF GInv, TypeOK
<1>2. /\ proc'[r].pc = "idle" /\ proc'[r].own = None
      /\ proc'[r].req.state = None /\ proc'[r].req.nonce = None
      /\ ~LogsIn(r)' /\ ~CallsBack(r)' /\ ~Busy(r)'
  BY <1>1, IdleType DEF LogsIn, CallsBack, Busy, CallbackPC
<1>3. TypeOK'
  BY <1>1 DEF GInv, TypeOK, Attempts
<1>4. LoginsBelong'
  BY <1>1, <1>2 DEF GInv, LoginsBelong, LogsIn, Attempts
<1>5. CallbacksBelong'
  BY <1>1, <1>2 DEF GInv, CallbacksBelong, CallsBack
<1>6. UndrawnAreUnused'
  BY <1>1, <1>2 DEF GInv, UndrawnAreUnused, Busy
<1>7. NumbersAreMade'
  BY <1>1, <1>2 DEF GInv, NumbersAreMade, Made, Maybe, Attempts
<1>8. \A n : (NonceDue(n)' => NonceDue(n)) /\ (Starting(n)' => Starting(n))
  BY <1>1, <1>2 DEF NonceDue, Starting
<1>9. NoncesBelong' /\ WrittenAreOver'
  BY <1>8 DEF GInv, NoncesBelong, WrittenAreOver, Attempts
<1>10. PassedAreSpent'
  BY <1>1, <1>2, <1>8 DEF GInv, PassedAreSpent, SignedNonces
<1>11. LaterNonceReplaces'
  <2> SUFFICES ASSUME NEW m \in Attempts, NEW n \in attempt[m].after
               PROVE  /\ n \in written /\ n # m
                      /\ attempt[m].sid = attempt[n].sid /\ ~NonceDue(m)' =>
                           session[attempt[n].sid].nonce # n
    BY DEF LaterNonceReplaces, Attempts
  <2>1. NonceDue(m) => NonceDue(m)'
    BY <1>1 DEF NonceDue
  <2> QED BY <2>1 DEF GInv, LaterNonceReplaces
<1>12. LoginsDisturb'
  BY <1>1, <1>2 DEF GInv, LoginsDisturb, Attempts
<1>13. UndisturbedStand'
  BY <1>1, <1>2 DEF GInv, UndisturbedStand, Stands, Spoilt
<1>14. UndisturbedAreTheirOwn'
  BY <1>1, <1>2 DEF GInv, UndisturbedAreTheirOwn, Names, Attempts
<1>15. CallbacksRead'
  BY <1>1, <1>2 DEF GInv, CallbacksRead, Attempts, Spoilt
<1> QED BY <1>3, <1>4, <1>5, <1>6, <1>7, <1>9, <1>10, <1>11, <1>12, <1>13, <1>14, <1>15 DEF GInv

LEMMA LookInv == GInv /\ Look => GInv'
<1> SUFFICES ASSUME GInv, Look PROVE GInv'
  OBVIOUS
<1>1. PICK s \in Sid : GetSession(s)
  BY DEF Look
<1>2. /\ UNCHANGED <<session, attempt, asked, proc, written, disturbed, overtaken, passed, signedIn>>
      /\ stored' \subseteq drawn' /\ drawn' \subseteq Sid /\ drawn \subseteq drawn'
  BY <1>1, GetSessionIs DEF GInv, Look
<1>3. TypeOK' /\ UndrawnAreUnused'
  BY <1>2 DEF GInv, TypeOK, UndrawnAreUnused, Attempts, Busy
<1> QED BY <1>2, <1>3 DEF GInv, LoginsBelong, CallbacksBelong, NumbersAreMade, NoncesBelong,
     WrittenAreOver, PassedAreSpent, LaterNonceReplaces, LoginsDisturb, UndisturbedStand,
     UndisturbedAreTheirOwn, CallbacksRead, LogsIn, CallsBack, Attempts, Made, NonceDue, Starting,
     Stands, Spoilt, Names, SignedNonces

LEMMA LogoutInv == ASSUME GInv, NEW s \in Sid, Logout(s) PROVE GInv'
<1>1. UNCHANGED <<drawn, session, attempt, asked, proc, written, disturbed, overtaken,
                  passed, signedIn>>
      /\ stored' \subseteq stored
  BY DEF Logout
<1>2. TypeOK' /\ UndrawnAreUnused'
  BY <1>1 DEF GInv, TypeOK, UndrawnAreUnused, Attempts, Busy
<1> QED BY <1>1, <1>2 DEF GInv, LoginsBelong, CallbacksBelong, NumbersAreMade, NoncesBelong,
     WrittenAreOver, PassedAreSpent, LaterNonceReplaces, LoginsDisturb, UndisturbedStand,
     UndisturbedAreTheirOwn, CallbacksRead, LogsIn, CallsBack, Attempts, Made, NonceDue, Starting,
     Stands, Spoilt, Names, SignedNonces

LEMMA ObtainsNothingInv == ASSUME GInv, NEW r \in Request, ObtainsNothing(r) PROVE GInv'
  BY GoroutineEndsInv DEF ObtainsNothing

LEMMA TornInv == ASSUME GInv, NEW r \in Request, Torn(r) PROVE GInv'
  BY GoroutineEndsInv DEF Torn

(* A callback that begins or goes on: what it has to show of itself. *)
LEMMA CallbackProceedsInv ==
  ASSUME GInv, NEW r \in Request, ~LogsIn(r), CallsBack(r)',
         \A q \in Request \ {r} : proc'[q] = proc[q],
         UNCHANGED <<session, attempt, asked, written, disturbed, signedIn>>,
         TypeOK', drawn \subseteq drawn', proc[r].pc = "signing" => proc'[r] = proc[r],
         proc'[r].sid \in drawn', proc'[r].req \in asked, proc'[r].own = proc'[r].req.nonce,
         proc'[r].pc = "opening" => proc'[r].left \subseteq {"flow", "state"},
         \/ passed' = passed
         \/ /\ passed' = passed \cup ({proc'[r].own} \ {None})
            /\ session[proc'[r].sid].nonce = proc'[r].own,
         proc'[r].pc = "signing" /\ proc'[r].own # None =>
           /\ proc'[r].own \in passed'
           /\ proc'[r].sid = attempt[proc'[r].own].sid
           /\ "nonce" \notin proc'[r].left => session[proc'[r].sid].nonce # proc'[r].own,
         proc'[r].pc = "opening" /\ proc'[r].own \in Attempts \ Spoilt
           /\ proc'[r].req.state = proc'[r].own /\ attempt[proc'[r].own].sid = proc'[r].sid
         => /\ "flow" \in proc'[r].left \/ proc'[r].flow # None
            /\ "state" \in proc'[r].left \/ proc'[r].state = proc'[r].own
  PROVE  GInv'
<1>1. /\ proc'[r].pc \notin {"idle", "starting", "redirecting"} /\ Busy(r)' /\ ~LogsIn(r)'
      /\ proc[r].pc # "starting" /\ proc[r].pc # "redirecting"
  BY DEF LogsIn, CallsBack, Busy, CallbackPC
<1>2. Attempts' = Attempts /\ Made' = Made /\ Spoilt \subseteq Spoilt'
  BY DEF Attempts, Made, Spoilt
<1>3. \A n : (NonceDue(n)' <=> NonceDue(n)) /\ (Starting(n)' <=> Starting(n))
  BY <1>1 DEF NonceDue, Starting
<1>4. LoginsBelong'
  BY <1>1, <1>2 DEF GInv, LoginsBelong, LogsIn
<1>5. CallbacksBelong'
  BY <1>1 DEF GInv, CallbacksBelong, CallsBack
<1>6. UndrawnAreUnused'
  BY <1>1 DEF GInv, UndrawnAreUnused, Busy
<1>7. NumbersAreMade'
  BY <1>1, <1>2 DEF GInv, NumbersAreMade
<1>8. NoncesBelong' /\ WrittenAreOver'
  BY <1>2, <1>3 DEF GInv, NoncesBelong, WrittenAreOver
<1>9. PassedAreSpent'
  <2>1. \A n \in passed' : ~NonceDue(n)'
    <3>1. proc'[r].sid \in Sid /\ passed' \subseteq Attempts
      BY <1>2 DEF TypeOK
    <3> QED BY <1>3, <3>1 DEF GInv, PassedAreSpent, NoncesBelong
  <2>2. \A q \in Request : proc'[q].pc = "signing" /\ proc'[q].own # None =>
       /\ proc'[q].own \in passed'
       /\ proc'[q].sid = attempt[proc'[q].own].sid
       /\ "nonce" \notin proc'[q].left => session[proc'[q].sid].nonce # proc'[q].own
    BY DEF GInv, PassedAreSpent
  <2>3. \A n \in SignedNonces' : n \in passed' /\ session[attempt[n].sid].nonce # n
    BY DEF GInv, PassedAreSpent, SignedNonces
  <2> QED BY <2>1, <2>2, <2>3 DEF PassedAreSpent
<1>10. LaterNonceReplaces'
  BY <1>2, <1>3 DEF GInv, LaterNonceReplaces
<1>11. LoginsDisturb'
  BY <1>1, <1>2 DEF GInv, LoginsDisturb
<1>12. UndisturbedStand'
  BY <1>1, <1>2 DEF GInv, UndisturbedStand, Stands
<1>13. UndisturbedAreTheirOwn'
  BY <1>1, <1>2 DEF GInv, UndisturbedAreTheirOwn, Names
<1>14. CallbacksRead'
  <2> SUFFICES ASSUME NEW q \in Request, proc'[q].pc = "opening",
                      proc'[q].own \in Attempts \ Spoilt',
                      proc'[q].req.state = proc'[q].own,
                      attempt[proc'[q].own].sid = proc'[q].sid
               PROVE  /\ "flow" \in proc'[q].left \/ proc'[q].flow # None
                      /\ "state" \in proc'[q].left \/ proc'[q].state = proc'[q].own
    BY <1>2 DEF CallbacksRead
  <2>1. proc'[q].own \in Attempts \ Spoilt
    BY <1>2
  <2> QED BY <2>1 DEF GInv, CallbacksRead
<1> QED BY <1>4, <1>5, <1>6, <1>7, <1>8, <1>9, <1>10, <1>11, <1>12, <1>13, <1>14 DEF GInv

LEMMA HandleCallbackInv ==
  ASSUME GInv, NEW r \in Request, NEW query \in asked, HandleCallback(r, query) PROVE GInv'
<1> DEFINE Opens(s) == [Idle EXCEPT !.pc = "opening", !.sid = s, !.left = {"flow", "state"},
                                   !.own = query.nonce, !.req = query]
<1>1. PICK s \in Sid : GetSession(s) /\ proc' = [proc EXCEPT ![r] = Opens(s)]
  BY DEF HandleCallback
<1> DEFINE new == Opens(s)
<1>2. /\ proc[r].pc = "idle"
      /\ UNCHANGED <<session, attempt, asked, written, disturbed, overtaken, passed, signedIn>>
      /\ TypeOK /\ query \in Asked
  BY DEF HandleCallback, GInv, TypeOK
<1>3. /\ new \in Goroutine /\ new.pc = "opening" /\ new.sid = s /\ new.left = {"flow", "state"}
      /\ new.own = query.nonce /\ new.req = query
  BY <1>2 DEF Idle, Goroutine, PC, Maybe, Asked
<1>4. /\ proc'[r] = new /\ \A q \in Request \ {r} : proc'[q] = proc[q]
      /\ proc' \in [Request -> Goroutine]
  BY <1>1, <1>2, <1>3 DEF TypeOK
<1>5. /\ stored' \subseteq drawn' /\ drawn' \subseteq Sid /\ drawn \subseteq drawn' /\ s \in drawn'
  BY <1>1, <1>2, GetSessionIs
<1>6. TypeOK'
  BY <1>2, <1>4, <1>5 DEF TypeOK, Attempts
<1> HIDE DEF Opens
<1>7. ~LogsIn(r) /\ CallsBack(r)'
  BY <1>2, <1>3, <1>4 DEF LogsIn, CallsBack, CallbackPC
<1> QED BY <1>2, <1>3, <1>4, <1>5, <1>6, <1>7, CallbackProceedsInv

LEMMA ObtainsInv == ASSUME GInv, NEW r \in Request, Obtains(r) PROVE GInv'
<1>1. /\ proc[r].pc = "awaiting" /\ proc' = [proc EXCEPT ![r].pc = "checking"]
      /\ UNCHANGED <<stored, drawn, session, attempt, asked, written, disturbed, overtaken,
                     passed, signedIn>>
      /\ TypeOK /\ proc[r] \in Goroutine
  BY AtWork DEF Obtains, GInv
<1>2. ~LogsIn(r) /\ CallsBack(r) /\ Busy(r)
  BY <1>1 DEF LogsIn, CallsBack, CallbackPC, Busy
<1>3. /\ proc'[r] \in Goroutine /\ proc'[r].pc = "checking" /\ proc'[r].sid = proc[r].sid
      /\ proc'[r].own = proc[r].own /\ proc'[r].req = proc[r].req
      /\ \A q \in Request \ {r} : proc'[q] = proc[q]
      /\ proc' \in [Request -> Goroutine]
  BY <1>1 DEF TypeOK, Goroutine, PC
<1>4. TypeOK'
  BY <1>1, <1>3 DEF TypeOK, Attempts
<1>5. CallsBack(r)'
  BY <1>3 DEF CallsBack, CallbackPC
<1>6. proc[r].sid \in drawn /\ proc[r].req \in asked /\ proc[r].own = proc[r].req.nonce
  BY <1>2, AtWork DEF GInv, CallbacksBelong
<1> QED BY <1>1, <1>2, <1>3, <1>4, <1>5, <1>6, CallbackProceedsInv

LEMMA BlankFields == DOMAIN Blank = Field
  BY DEF Blank, Field

LEMMA ChecksNonceInv == ASSUME GInv, NEW r \in Request, ChecksNonce(r) PROVE GInv'
<1> DEFINE n == proc[r].own
           s == proc[r].sid
<1>1. /\ proc[r].pc = "checking" /\ TypeOK /\ proc[r] \in Goroutine
      /\ UNCHANGED <<stored, drawn, attempt, asked, written, disturbed, overtaken, signedIn>>
  BY AtWork DEF ChecksNonce, GInv
<1>2. ~LogsIn(r) /\ CallsBack(r) /\ Busy(r)
  BY <1>1 DEF LogsIn, CallsBack, CallbackPC, Busy
<1>3. s \in drawn /\ s \in Sid /\ proc[r].req \in asked /\ n = proc[r].req.nonce /\ n \in Made
  BY <1>2, AtWork DEF GInv, CallbacksBelong
<1>4. CASE Refuses(r) /\ passed' = passed
  BY <1>1, <1>3, <1>4, RefusalIs, GoroutineEndsInv
<1>5. CASE /\ NonceMatches(r)
           /\ proc' = [proc EXCEPT ![r].pc = "signing", ![r].left = DOMAIN Blank]
           /\ passed' = passed \cup ({n} \ {None}) /\ UNCHANGED session
  <2>1. proc' = [proc EXCEPT ![r].pc = "signing", ![r].left = Field]
    BY <1>5, BlankFields
  <2>2. /\ proc'[r] \in Goroutine /\ proc'[r].pc = "signing" /\ proc'[r].sid = s
        /\ proc'[r].own = n /\ proc'[r].req = proc[r].req /\ proc'[r].left = Field
        /\ \A q \in Request \ {r} : proc'[q] = proc[q]
        /\ proc' \in [Request -> Goroutine]
    BY <1>1, <2>1 DEF TypeOK, Goroutine, PC, Field
  <2>3. passed' \subseteq Attempts
    BY <1>1, <1>3, <1>5 DEF TypeOK, Made, Maybe
  <2>4. TypeOK'
    BY <1>1, <1>5, <2>2, <2>3 DEF TypeOK, Attempts
  <2>5. CallsBack(r)'
    BY <2>2 DEF CallsBack, CallbackPC
  <2>6. session[s].nonce = n
    BY <1>3, <1>5 DEF NonceMatches
  <2>7. n # None => n \in passed' /\ s = attempt[n].sid
    BY <1>3, <1>5, <2>6 DEF GInv, NoncesBelong, Made, Maybe
  <2>8. "nonce" \in Field
    BY DEF Field
  <2> QED BY <1>1, <1>2, <1>3, <1>5, <2>2, <2>4, <2>5, <2>6, <2>7, <2>8, CallbackProceedsInv
<1> QED BY <1>4, <1>5 DEF ChecksNonce

(* What an undisturbed attempt has been asked for is there to be read. *)
LEMMA UndisturbedIsRead ==
  ASSUME GInv, NEW r \in Request, CallsBack(r), proc[r].own \in Attempts \ Spoilt,
         attempt[proc[r].own].sid = proc[r].sid
  PROVE  /\ proc[r].own \in written
         /\ session[proc[r].sid].state = proc[r].own /\ session[proc[r].sid].nonce = proc[r].own
         /\ session[proc[r].sid].flow # None
<1> DEFINE n == proc[r].own
           s == proc[r].sid
<1>1. /\ proc[r].req \in asked /\ n = proc[r].req.nonce /\ s \in Sid /\ TypeOK
  BY AtWork DEF GInv, CallbacksBelong
<1>2. n \in written
  BY <1>1 DEF GInv, UndisturbedAreTheirOwn, Names, Spoilt
<1>3. /\ session[s]["state"] = n /\ session[s]["nonce"] = n
      /\ session[s]["flow"] = attempt[n].flow
  BY <1>1, <1>2 DEF GInv, UndisturbedStand, Stands, LoginFields
<1>4. attempt[n].flow # None
  BY <1>1, AttemptsAre, GoWebappAssumption DEF Attempt
<1> QED BY <1>1, <1>2, <1>3, <1>4, ByName

LEMMA CallbackReadsInv ==
  ASSUME GInv, NEW r \in Request, NEW x \in proc[r].left, CallbackReads(r, x) PROVE GInv'
<1> DEFINE n == proc[r].own
           s == proc[r].sid
           new == [proc[r] EXCEPT ![x] = session[s][x]]
           then == [new EXCEPT !.pc = "awaiting", !.left = {}]
<1>1. /\ proc[r].pc = "opening" /\ TypeOK /\ proc[r] \in Goroutine
      /\ UNCHANGED <<stored, drawn, attempt, asked, written, disturbed, overtaken, passed, signedIn>>
  BY AtWork DEF CallbackReads, GInv
<1>2. ~LogsIn(r) /\ CallsBack(r) /\ Busy(r)
  BY <1>1 DEF LogsIn, CallsBack, CallbackPC, Busy
<1>3. /\ s \in drawn /\ s \in Sid /\ proc[r].req \in asked /\ n = proc[r].req.nonce
      /\ proc[r].left \subseteq {"flow", "state"}
  BY <1>1, <1>2, AtWork DEF GInv, CallbacksBelong
<1>4. /\ session[s].flow \in Maybe(Flow) /\ session[s].state \in Maybe(Number)
      /\ session[s]["flow"] = session[s].flow /\ session[s]["state"] = session[s].state
  BY <1>1, <1>3, ByName
<1>5. /\ new \in Goroutine /\ new.pc = "opening" /\ new.sid = s /\ new.own = n
      /\ new.req = proc[r].req /\ new.left = proc[r].left
      /\ new.flow = (IF x = "flow" THEN session[s].flow ELSE proc[r].flow)
      /\ new.state = (IF x = "state" THEN session[s].state ELSE proc[r].state)
  <2>1. CASE x = "flow" BY <1>1, <1>4, <2>1 DEF Goroutine
  <2>2. CASE x = "state" BY <1>1, <1>4, <2>2 DEF Goroutine
  <2> QED BY <1>3, <2>1, <2>2
<1>6. CASE Refuses(r)
  BY <1>1, <1>3, <1>6, RefusalIs, GoroutineEndsInv
<1>7. CASE Accessed(r, x, new, then) /\ UNCHANGED session
  <2>1. /\ then \in Goroutine /\ then.pc = "awaiting" /\ then.sid = s /\ then.own = n
        /\ then.req = proc[r].req
    <3> HIDE DEF new
    <3> QED BY <1>5 DEF Goroutine, PC
  <2> HIDE DEF new, then
  <2>2. /\ proc' \in [Request -> Goroutine]
        /\ \A q \in Request \ {r} : proc'[q] = proc[q]
        /\ proc[r].left = {x} => proc'[r] = then
        /\ proc[r].left # {x} =>
              /\ proc'[r].left = proc[r].left \ {x}
              /\ proc'[r].pc = new.pc /\ proc'[r].sid = new.sid /\ proc'[r].own = new.own
              /\ proc'[r].req = new.req /\ proc'[r].flow = new.flow /\ proc'[r].state = new.state
    BY <1>1, <1>5, <1>7, <2>1, AccessedIs
  <2>3. /\ proc'[r].pc \in {"opening", "awaiting"} /\ proc'[r].sid = s /\ proc'[r].own = n
        /\ proc'[r].req = proc[r].req /\ CallsBack(r)'
        /\ proc'[r].pc = "opening" => /\ proc'[r].left = proc[r].left \ {x}
                                      /\ proc'[r].flow = new.flow /\ proc'[r].state = new.state
    BY <1>5, <2>1, <2>2 DEF CallsBack, CallbackPC
  <2>4. TypeOK'
    BY <1>1, <1>7, <2>2 DEF TypeOK, Attempts
  <2>5. ASSUME proc'[r].pc = "opening", n \in Attempts \ Spoilt, proc[r].req.state = n,
               attempt[n].sid = s
        PROVE  /\ "flow" \in proc'[r].left \/ proc'[r].flow # None
               /\ "state" \in proc'[r].left \/ proc'[r].state = n
    <3>1. session[s].state = n /\ session[s].flow # None
      BY <1>2, <2>5, UndisturbedIsRead
    <3>2. /\ "flow" \in proc[r].left \/ proc[r].flow # None
          /\ "state" \in proc[r].left \/ proc[r].state = n
      BY <1>1, <2>5 DEF GInv, CallbacksRead
    <3> QED BY <1>5, <2>3, <2>5, <3>1, <3>2
  <2> QED BY <1>1, <1>2, <1>3, <1>7, <2>2, <2>3, <2>4, <2>5, CallbackProceedsInv
<1> QED BY <1>6, <1>7 DEF CallbackReads
-----------------------------------------------------------------------------
(***************************************************************************)
(* The steps of a login.                                                   *)

LEMMA StartLoginInv ==
  ASSUME GInv, NEW r \in Request, NEW f \in Flow, StartLogin(r, f) PROVE GInv'
<1>0. PICK n : n = Len(attempt) + 1
  OBVIOUS
<1> DEFINE Starts(s) == [Idle EXCEPT !.pc = "starting", !.sid = s,
                           !.left = {"state", "nonce", "flow"}, !.own = n,
                           !.req = [NoReq EXCEPT !.of = n, !.flow = f]]
           Made1(s) == [sid |-> s, flow |-> f, after |-> written]
<1>1. PICK s \in Sid : /\ GetSession(s)
                       /\ attempt' = Append(attempt, Made1(s))
                       /\ proc' = [proc EXCEPT ![r] = Starts(s)]
                       /\ disturbed' = IF LoginUnderWay(s) THEN disturbed \cup {n} ELSE disturbed
  BY <1>0 DEF StartLogin
<1>2. /\ proc[r].pc = "idle" /\ Len(attempt) < MaxAttempt /\ TypeOK
      /\ UNCHANGED <<session, asked, written, overtaken, passed, signedIn>>
      /\ written \subseteq Attempts /\ passed \subseteq Attempts /\ overtaken \subseteq Attempts
      /\ disturbed \subseteq Attempts
  BY DEF StartLogin, GInv, TypeOK
<1>3. Made1(s) \in Attempt
  BY <1>2, AttemptsAre DEF Attempt
<1>4. /\ attempt' \in Seq(Attempt) /\ Len(attempt') <= MaxAttempt
      /\ Attempts' = Attempts \cup {n} /\ n \notin Attempts /\ n \in Number
      /\ \A m \in Attempts : attempt'[m] = attempt[m]
      /\ attempt'[n].sid = s /\ attempt'[n].flow = f /\ attempt'[n].after = written
  <2>1. Made1(s).sid = s /\ Made1(s).flow = f /\ Made1(s).after = written
    OBVIOUS
  <2> HIDE DEF Made1
  <2> QED BY <1>0, <1>1, <1>2, <1>3, <2>1, OneMoreAttempt
<1>5. /\ Starts(s) \in Goroutine /\ Starts(s).pc = "starting" /\ Starts(s).sid = s
      /\ Starts(s).left = LoginFields /\ Starts(s).own = n /\ Starts(s).req.flow = f
      /\ Starts(s).req.state = None /\ Starts(s).req.nonce = None
  <2> DEFINE req == [NoReq EXCEPT !.of = n, !.flow = f]
  <2>1. req \in Asked /\ req.flow = f /\ req.state = None /\ req.nonce = None
    BY <1>4 DEF NoReq, Asked, Maybe
  <2> HIDE DEF req
  <2> DEFINE base == [Idle EXCEPT !.pc = "starting", !.sid = s,
                                  !.left = {"state", "nonce", "flow"}, !.own = n]
  <2>2. base \in Goroutine /\ base.pc = "starting" /\ base.sid = s /\ base.own = n
        /\ base.left = LoginFields
    BY <1>4, IdleType DEF Idle, Goroutine, PC, Maybe, LoginFields
  <2> HIDE DEF base
  <2>3. Starts(s) = [base EXCEPT !.req = req]
    BY DEF base, req
  <2> HIDE DEF Starts
  <2> QED BY <2>1, <2>2, <2>3 DEF Goroutine
<1> HIDE DEF Starts, Made1
<1>6. /\ proc'[r] = Starts(s) /\ \A q \in Request \ {r} : proc'[q] = proc[q]
      /\ proc' \in [Request -> Goroutine]
  BY <1>1, <1>2, <1>5 DEF TypeOK
<1>7. /\ stored' \subseteq drawn' /\ drawn' \subseteq Sid /\ drawn \subseteq drawn' /\ s \in drawn'
  BY <1>1, <1>2, GetSessionIs
<1>8. disturbed' \subseteq Attempts' /\ disturbed \subseteq disturbed'
  BY <1>1, <1>2, <1>4
<1>9. TypeOK'
  BY <1>2, <1>4, <1>6, <1>7, <1>8 DEF TypeOK
<1>10. /\ None \notin Attempts /\ n # None /\ Made \subseteq Made' /\ n \notin Made
       /\ Spoilt \subseteq Spoilt' /\ Spoilt \subseteq Attempts
  BY <1>2, <1>4, <1>8, AttemptsAre, GoWebappAssumption DEF Made, Maybe, Number, Spoilt
<1>11. /\ ~LogsIn(r) /\ ~CallsBack(r) /\ LogsIn(r)' /\ ~CallsBack(r)' /\ Busy(r)'
       /\ \A q \in Request \ {r} :
            (LogsIn(q)' <=> LogsIn(q)) /\ (CallsBack(q)' <=> CallsBack(q)) /\ (Busy(q)' <=> Busy(q))
  BY <1>2, <1>5, <1>6 DEF LogsIn, CallsBack, Busy, CallbackPC
<1>12. LoginsBelong'
  <2>1. \A q \in Request \ {r} : LogsIn(q) => proc[q].own \in Attempts /\ proc[q].own # n
    BY <1>4 DEF GInv, LoginsBelong
  <2>2. proc'[r].own = n /\ proc'[r].sid = s /\ proc'[r].req.flow = f
        /\ proc'[r].left \subseteq {"state", "nonce", "flow"} /\ proc'[r].pc # "redirecting"
    BY <1>5, <1>6 DEF LoginFields
  <2> QED BY <1>4, <1>6, <1>11, <2>1, <2>2 DEF GInv, LoginsBelong
<1>13. CallbacksBelong'
  BY <1>2, <1>6, <1>11 DEF GInv, CallbacksBelong
<1>14. UndrawnAreUnused'
  BY <1>2, <1>5, <1>6, <1>7, <1>11 DEF GInv, UndrawnAreUnused
<1>15. NumbersAreMade'
  <2>1. None \in Made'
    BY DEF Made, Maybe
  <2> QED BY <1>2, <1>5, <1>6, <1>10, <2>1 DEF GInv, NumbersAreMade
<1>16. \A m \in Attempts : (NonceDue(m)' <=> NonceDue(m)) /\ (Starting(m)' <=> Starting(m))
  BY <1>2, <1>4, <1>5, <1>6 DEF NonceDue, Starting
<1>17. NonceDue(n)'
  BY <1>5, <1>6 DEF NonceDue, LoginFields
<1>18. NoncesBelong'
  <2> SUFFICES ASSUME NEW t \in Sid, NEW k \in Attempts'
               PROVE  /\ session[t].state = k => attempt'[k].sid = t
                      /\ session[t].nonce = k => attempt'[k].sid = t /\ ~NonceDue(k)'
    BY <1>2 DEF NoncesBelong
  <2>1. session[t].nonce # n /\ session[t].state # n
    BY <1>10 DEF GInv, NumbersAreMade
  <2>2. CASE k \in Attempts
    BY <1>4, <1>16, <2>2 DEF GInv, NoncesBelong
  <2> QED BY <1>4, <2>1, <2>2
<1>19. WrittenAreOver'
  BY <1>2, <1>16 DEF GInv, WrittenAreOver
<1>20. PassedAreSpent'
  <2>1. SignedNonces' = SignedNonces
    BY <1>2 DEF SignedNonces
  <2> QED BY <1>2, <1>4, <1>5, <1>6, <1>16, <2>1 DEF GInv, PassedAreSpent
<1>21. LaterNonceReplaces'
  <2> SUFFICES ASSUME NEW m \in Attempts', NEW k \in attempt'[m].after
               PROVE  /\ k \in written /\ k # m
                      /\ attempt'[m].sid = attempt'[k].sid /\ ~NonceDue(m)' =>
                           session[attempt'[k].sid].nonce # k
    BY <1>2 DEF LaterNonceReplaces
  <2>1. CASE m = n
    BY <1>2, <1>4, <1>17, <2>1
  <2>2. CASE m \in Attempts
    BY <1>2, <1>4, <1>16, <2>2 DEF GInv, LaterNonceReplaces
  <2> QED BY <1>4, <2>1, <2>2
<1>22. LoginsDisturb'
  <2> SUFFICES ASSUME NEW q \in Request, proc'[q].pc = "redirecting", NEW k \in Attempts',
                      attempt'[k].sid = proc'[q].sid
               PROVE  k = proc'[q].own \/ k \in disturbed'
    BY DEF LoginsDisturb
  <2>1. q # r /\ proc'[q] = proc[q]
    BY <1>5, <1>6
  <2>2. CASE k = n
    BY <1>1, <1>4, <2>1, <2>2 DEF LoginUnderWay, LogsIn
  <2>3. CASE k \in Attempts
    BY <1>4, <1>8, <2>1, <2>3 DEF GInv, LoginsDisturb
  <2> QED BY <1>4, <2>2, <2>3
<1>23. UndisturbedStand'
  <2>1. \A k \in Attempts, x \in LoginFields : Stands(k, x)' <=> Stands(k, x)
    BY <1>2, <1>4 DEF Stands
  <2>2. \A q \in Request \ {r} : proc[q].pc = "starting" => proc[q].own \in Attempts
    BY DEF GInv, LoginsBelong, LogsIn
  <2> QED BY <1>2, <1>5, <1>6, <1>10, <2>1, <2>2 DEF GInv, UndisturbedStand
<1>24. UndisturbedAreTheirOwn'
  <2>1. \A q \in Request : proc[q].req.state # n /\ proc[q].req.nonce # n
    BY <1>10 DEF GInv, NumbersAreMade
  <2>2. \A query \in asked : query.state # n /\ query.nonce # n
    BY <1>10 DEF GInv, NumbersAreMade
  <2> QED BY <1>2, <1>4, <1>5, <1>6, <1>8, <1>10, <2>1, <2>2 DEF GInv, UndisturbedAreTheirOwn, Names
<1>25. CallbacksRead'
  <2> SUFFICES ASSUME NEW q \in Request, proc'[q].pc = "opening",
                      proc'[q].own \in Attempts' \ Spoilt',
                      proc'[q].req.state = proc'[q].own,
                      attempt'[proc'[q].own].sid = proc'[q].sid
               PROVE  /\ "flow" \in proc'[q].left \/ proc'[q].flow # None
                      /\ "state" \in proc'[q].left \/ proc'[q].state = proc'[q].own
    BY DEF CallbacksRead
  <2>1. q # r /\ proc'[q] = proc[q]
    BY <1>5, <1>6
  <2>2. proc[q].own \in Attempts \ Spoilt
    BY <1>4, <1>10, <2>1 DEF GInv, CallbacksBelong, CallsBack, CallbackPC, NumbersAreMade
  <2> QED BY <1>4, <2>1, <2>2 DEF GInv, CallbacksRead
<1> QED BY <1>9, <1>12, <1>13, <1>14, <1>15, <1>18, <1>19, <1>20, <1>21, <1>22, <1>23, <1>24, <1>25
     DEF GInv

LEMMA SessionByName ==
  ASSUME NEW rec \in Session
  PROVE  /\ rec["nonce"] = rec.nonce /\ rec["state"] = rec.state
         /\ rec["flow"] = rec.flow /\ rec["user"] = rec.user
  BY DEF Session

LEMMA LoginWritesInv ==
  ASSUME GInv, NEW r \in Request, NEW x \in proc[r].left, LoginWrites(r, x) PROVE GInv'
<1>0. PICK n, s, v : /\ n = proc[r].own /\ s = proc[r].sid
                     /\ v = (IF x = "flow" THEN proc[r].req.flow ELSE proc[r].own)
  OBVIOUS
<1> DEFINE p == proc[r]
           then == [p EXCEPT !.pc = "redirecting", !.left = {"state", "nonce"}]
<1>1. /\ p.pc = "starting" /\ TypeOK /\ p \in Goroutine
      /\ session' = [session EXCEPT ![s][x] = v]
      /\ disturbed' = disturbed \cup ({k \in Attempts : attempt[k].sid = s} \ {n})
      /\ Accessed(r, x, p, then)
      /\ written' = IF p.left = {x} THEN written \cup {n} ELSE written
      /\ UNCHANGED <<stored, drawn, attempt, asked, overtaken, passed, signedIn>>
  BY <1>0, AtWork DEF LoginWrites, GInv, Disturbs
<1>2. LogsIn(r) /\ ~CallsBack(r) /\ Busy(r)
  BY <1>1 DEF LogsIn, CallsBack, CallbackPC, Busy
<1>3. /\ n \in Attempts /\ s \in Sid /\ s \in drawn /\ s = attempt[n].sid /\ n \in Number /\ n # None
      /\ p.req.flow = attempt[n].flow /\ x \in LoginFields /\ p.left \subseteq LoginFields
      /\ p.req.state = None /\ p.req.nonce = None
      /\ \A q \in Request \ {r} : LogsIn(q) => proc[q].own # n
  BY <1>0, <1>1, <1>2, AtWork, AttemptsAre
     DEF GInv, LoginsBelong, LoginFields, UndisturbedAreTheirOwn
<1>4. x \in Field /\ v \in FieldType(x) /\ x # "user" /\ v = (IF x = "flow" THEN attempt[n].flow ELSE n)
  <2>1. attempt[n].flow \in Flow
    BY <1>1, <1>3, AttemptsAre DEF Attempt
  <2>2. x \in Field /\ x # "user"
    BY <1>3 DEF LoginFields, Field
  <2>3. CASE x = "flow" BY <1>0, <1>3, <2>1, <2>2, <2>3 DEF FieldType, Maybe
  <2>4. CASE x # "flow" BY <1>0, <1>3, <2>2, <2>4 DEF FieldType, Maybe
  <2> QED BY <2>2, <2>3, <2>4, <1>0, <1>3
<1>5. /\ session' \in [Sid -> Session] /\ session'[s][x] = v
      /\ \A y \in Field \ {x} : session'[s][y] = session[s][y]
      /\ \A t \in Sid \ {s} : session'[t] = session[t]
  <2>1. session' = [session EXCEPT ![s][x] = v]
    BY <1>1
  <2>2. TypeOK /\ s \in Sid /\ x \in Field /\ v \in FieldType(x)
    BY <1>1, <1>3, <1>4
  <2> QED BY ONLY <2>1, <2>2, SessionWrite, Zenon
<1>6. /\ then \in Goroutine /\ then.pc = "redirecting" /\ then.sid = s /\ then.own = n
      /\ then.req = p.req /\ then.left = {"state", "nonce"}
  BY <1>0, <1>1 DEF Goroutine, PC
<1> HIDE DEF then
<1>7. /\ proc' \in [Request -> Goroutine]
      /\ \A q \in Request \ {r} : proc'[q] = proc[q]
      /\ proc'[r].sid = s /\ proc'[r].own = n /\ proc'[r].req = p.req
      /\ p.left = {x} => proc'[r].pc = "redirecting" /\ proc'[r].left = {"state", "nonce"}
      /\ p.left # {x} => proc'[r].pc = "starting" /\ proc'[r].left = p.left \ {x}
  BY <1>0, <1>1, <1>6, AccessedIs
<1>8. /\ LogsIn(r)' /\ ~CallsBack(r)' /\ Busy(r)'
      /\ \A q \in Request \ {r} :
            (LogsIn(q)' <=> LogsIn(q)) /\ (CallsBack(q)' <=> CallsBack(q)) /\ (Busy(q)' <=> Busy(q))
  BY <1>7 DEF LogsIn, CallsBack, CallbackPC, Busy
<1>9. /\ Attempts' = Attempts /\ Made' = Made /\ Spoilt \subseteq Spoilt'
      /\ written \subseteq written' /\ disturbed \subseteq disturbed'
      /\ \A k \in Attempts \ Spoilt' : k = n \/ attempt[k].sid # s
      /\ written \subseteq Attempts /\ passed \subseteq Attempts
      /\ disturbed \subseteq Attempts /\ overtaken \subseteq Attempts
      /\ SignedNonces' = SignedNonces /\ SignedNonces \subseteq passed
  BY <1>1 DEF Attempts, Made, Spoilt, TypeOK, SignedNonces, GInv, PassedAreSpent
<1>10. TypeOK'
  BY <1>1, <1>3, <1>5, <1>7, <1>9 DEF TypeOK
(* The nonce and the state, by name. *)
<1>11. /\ session'[s].nonce = (IF x = "nonce" THEN n ELSE session[s].nonce)
       /\ session'[s].state = (IF x = "state" THEN n ELSE session[s].state)
       /\ session'[s].user = session[s].user
  <2>1. session'[s] \in Session /\ session[s] \in Session
    BY <1>1, <1>3, <1>5 DEF TypeOK
  <2>2. /\ session'[s]["nonce"] = (IF x = "nonce" THEN n ELSE session[s]["nonce"])
        /\ session'[s]["state"] = (IF x = "state" THEN n ELSE session[s]["state"])
        /\ session'[s]["user"] = session[s]["user"]
    BY <1>3, <1>4, <1>5 DEF Field, LoginFields
  <2> QED BY <2>1, <2>2, SessionByName
<1>12. LoginsBelong'
  BY <1>1, <1>3, <1>7, <1>8, <1>9 DEF GInv, LoginsBelong, LoginFields
<1>13. CallbacksBelong'
  BY <1>1, <1>7, <1>8 DEF GInv, CallbacksBelong
<1>14. UndrawnAreUnused'
  BY <1>1, <1>3, <1>5, <1>7, <1>8, <1>11 DEF GInv, UndrawnAreUnused
<1>15. NumbersAreMade'
  <2>1. n \in Made
    BY <1>3 DEF Made, Maybe
  <2>2. \A t \in Sid : session'[t].state \in Made /\ session'[t].nonce \in Made
    BY <1>5, <1>11, <2>1 DEF GInv, NumbersAreMade
  <2> QED BY <1>1, <1>7, <1>9, <2>2 DEF GInv, NumbersAreMade
<1>16. /\ \A k : (NonceDue(k)' => NonceDue(k)) /\ (Starting(k)' => Starting(k))
       /\ \A k : k # n => (NonceDue(k)' <=> NonceDue(k))
       /\ x = "nonce" => NonceDue(n) /\ ~NonceDue(n)'
       /\ x # "nonce" => (NonceDue(n)' <=> NonceDue(n))
       /\ Starting(n) /\ n \notin written
  <2>1. Starting(n) /\ n \notin written
    BY <1>0, <1>1 DEF Starting, GInv, WrittenAreOver
  <2>2. \A k : Starting(k)' => Starting(k)
    BY <1>0, <1>1, <1>7 DEF Starting
  <2>3. \A k : NonceDue(k)' => NonceDue(k)
    BY <1>0, <1>1, <1>7 DEF NonceDue
  <2>4. \A k : k # n => (NonceDue(k)' <=> NonceDue(k))
    BY <1>0, <1>1, <1>7 DEF NonceDue
  <2>5. x = "nonce" => NonceDue(n)
    BY <1>0, <1>1 DEF NonceDue
  <2>6. x = "nonce" => ~NonceDue(n)'
    BY <1>3, <1>7, <1>8 DEF NonceDue, LogsIn
  <2>7. x # "nonce" /\ NonceDue(n) => NonceDue(n)'
    <3> SUFFICES ASSUME x # "nonce", NonceDue(n) PROVE NonceDue(n)'
      OBVIOUS
    <3>1. PICK q \in Request :
            proc[q].pc = "starting" /\ proc[q].own = n /\ "nonce" \in proc[q].left
      BY DEF NonceDue
    <3>2. CASE q = r
      BY <1>7, <3>1, <3>2 DEF NonceDue
    <3>3. CASE q # r
      BY <1>7, <3>1, <3>3 DEF NonceDue
    <3> QED BY <3>2, <3>3
  <2> QED BY <2>1, <2>2, <2>3, <2>4, <2>5, <2>6, <2>7
<1>17. NoncesBelong'
  BY <1>1, <1>3, <1>5, <1>9, <1>11, <1>16 DEF GInv, NoncesBelong
<1>18. WrittenAreOver'
  <2>1. p.left = {x} => ~Starting(n)'
    BY <1>3, <1>7 DEF Starting, LogsIn
  <2> QED BY <1>1, <1>16, <2>1 DEF GInv, WrittenAreOver
<1>19. x = "nonce" => n \notin passed
  BY <1>16 DEF GInv, PassedAreSpent
<1>20. PassedAreSpent'
  <2>1. \A k \in passed : ~NonceDue(k)'
    BY <1>16 DEF GInv, PassedAreSpent
  <2>2. ASSUME NEW q \in Request, proc'[q].pc = "signing", proc'[q].own # None
        PROVE  /\ proc'[q].own \in passed /\ proc'[q].sid = attempt[proc'[q].own].sid
               /\ "nonce" \notin proc'[q].left => session'[proc'[q].sid].nonce # proc'[q].own
    <3>1. q # r /\ proc'[q] = proc[q]
      BY <1>7, <2>2
    <3>2. /\ proc[q].own \in passed /\ proc[q].sid = attempt[proc[q].own].sid
          /\ "nonce" \notin proc[q].left => session[proc[q].sid].nonce # proc[q].own
      BY <2>2, <3>1 DEF GInv, PassedAreSpent
    <3>3. proc[q].sid \in Sid
      BY <1>9, <1>1, <3>2, AttemptsAre DEF Attempt
    <3> QED BY <1>5, <1>11, <1>19, <3>1, <3>2, <3>3
  <2>3. ASSUME NEW k \in SignedNonces PROVE session'[attempt[k].sid].nonce # k
    <3>1. k \in passed /\ attempt[k].sid \in Sid /\ session[attempt[k].sid].nonce # k
      BY <1>1, <1>9, AttemptsAre DEF Attempt, GInv, PassedAreSpent
    <3> QED BY <1>5, <1>11, <1>19, <3>1
  <2> QED BY <1>1, <1>9, <2>1, <2>2, <2>3 DEF PassedAreSpent
<1>21. LaterNonceReplaces'
  <2> SUFFICES ASSUME NEW m \in Attempts, NEW k \in attempt[m].after
               PROVE  /\ k \in written' /\ k # m
                      /\ attempt[m].sid = attempt[k].sid /\ ~NonceDue(m)' =>
                           session'[attempt[k].sid].nonce # k
    BY <1>1, <1>9 DEF LaterNonceReplaces
  <2>1. /\ k \in written /\ k # m /\ k # n
        /\ attempt[m].sid = attempt[k].sid /\ ~NonceDue(m) => session[attempt[k].sid].nonce # k
    BY <1>16 DEF GInv, LaterNonceReplaces
  <2>2. attempt[k].sid \in Sid
    BY <1>1, <1>9, <2>1, AttemptsAre DEF Attempt
  <2>3. CASE x = "nonce" /\ attempt[k].sid = s
    BY <1>9, <1>11, <2>1, <2>3
  <2>4. CASE ~(x = "nonce" /\ attempt[k].sid = s)
    <3>1. session'[attempt[k].sid].nonce = session[attempt[k].sid].nonce
      BY <1>5, <1>11, <2>2, <2>4
    <3>2. attempt[m].sid = attempt[k].sid /\ ~NonceDue(m)' => ~NonceDue(m)
      BY <1>3, <1>16, <2>4
    <3> QED BY <1>9, <2>1, <3>1, <3>2
  <2> QED BY <2>3, <2>4
<1>22. LoginsDisturb'
  BY <1>1, <1>7, <1>9 DEF GInv, LoginsDisturb
<1>23. UndisturbedStand'
  <2>1. ASSUME NEW k \in Attempts \ Spoilt', k # n, NEW y \in LoginFields
        PROVE  Stands(k, y)' <=> Stands(k, y)
    <3>1. attempt[k].sid \in Sid /\ attempt[k].sid # s
      BY <1>1, <1>9, <2>1, AttemptsAre DEF Attempt
    <3> QED BY <1>1, <1>5, <3>1 DEF Stands
  <2>2. ASSUME NEW y \in LoginFields, y = x \/ Stands(n, y) PROVE Stands(n, y)'
    <3>1. y \in Field
      BY DEF Field, LoginFields
    <3>2. session'[s][y] = (IF y = "flow" THEN attempt[n].flow ELSE n)
      BY <1>3, <1>4, <1>5, <2>2, <3>1 DEF Stands
    <3> QED BY <1>1, <1>3, <3>2 DEF Stands
  <2>3. n \notin Spoilt' => \A y \in LoginFields \ p.left : Stands(n, y)
    BY <1>0, <1>1, <1>9 DEF GInv, UndisturbedStand
  <2>4. ASSUME NEW k \in written', k \notin Spoilt', NEW y \in LoginFields PROVE Stands(k, y)'
    <3>1. CASE k = n
      <4>1. p.left = {x}
        BY <1>1, <1>16, <2>4, <3>1
      <4> QED BY <2>2, <2>3, <2>4, <3>1, <4>1
    <3>2. CASE k # n
      <4>1. k \in written /\ k \in Attempts /\ k \notin Spoilt
        BY <1>1, <1>9, <2>4, <3>2
      <4> QED BY <2>1, <2>4, <3>2, <4>1 DEF GInv, UndisturbedStand
    <3> QED BY <3>1, <3>2
  <2>5. ASSUME NEW q \in Request, proc'[q].pc = "starting", proc'[q].own \notin Spoilt',
               NEW y \in LoginFields \ proc'[q].left
        PROVE  Stands(proc[q].own, y)'
    <3>1. CASE q = r
      <4>1. y \notin p.left \/ y = x
        BY <1>7, <2>5, <3>1
      <4>2. Stands(n, y)'
        BY <1>7, <2>2, <2>3, <2>5, <3>1, <4>1
      <4> QED BY <1>7, <3>1, <4>2 DEF Stands
    <3>2. CASE q # r
      <4>1. PICK k : k = proc[q].own
        OBVIOUS
      <4>2. /\ proc'[q] = proc[q] /\ k \in Attempts /\ k # n /\ k \notin Spoilt /\ k \notin Spoilt'
            /\ Stands(k, y)
        BY <1>3, <1>7, <1>9, <2>5, <3>2, <4>1
           DEF GInv, LoginsBelong, LogsIn, UndisturbedStand
      <4>3. Stands(k, y)'
        BY <2>1, <4>2
      <4> QED BY <4>1, <4>2, <4>3 DEF Stands
    <3> QED BY <3>1, <3>2
  <2> QED BY <2>4, <2>5 DEF UndisturbedStand, Stands
<1>24. UndisturbedAreTheirOwn'
  <2>1. proc'[r].pc = "redirecting" => n \in written'
    BY <1>1, <1>7
  <2>2. \A k \in Attempts : k # None
    BY <1>1, AttemptsAre
  <2> QED BY <1>1, <1>3, <1>7, <1>9, <2>1, <2>2 DEF GInv, UndisturbedAreTheirOwn, Names
<1>25. CallbacksRead'
  <2> SUFFICES ASSUME NEW q \in Request, proc'[q].pc = "opening",
                      proc'[q].own \in Attempts \ Spoilt',
                      proc'[q].req.state = proc'[q].own,
                      attempt[proc'[q].own].sid = proc'[q].sid
               PROVE  /\ "flow" \in proc'[q].left \/ proc'[q].flow # None
                      /\ "state" \in proc'[q].left \/ proc'[q].state = proc'[q].own
    BY <1>1, <1>9 DEF CallbacksRead
  <2>1. q # r /\ proc'[q] = proc[q]
    BY <1>7
  <2> QED BY <1>9, <2>1 DEF GInv, CallbacksRead
<1> QED BY <1>10, <1>12, <1>13, <1>14, <1>15, <1>17, <1>18, <1>20, <1>21, <1>22, <1>23, <1>24, <1>25
     DEF GInv

LEMMA LoginReadsInv ==
  ASSUME GInv, NEW r \in Request, NEW x \in proc[r].left, LoginReads(r, x) PROVE GInv'
<1>0. PICK n, s : n = proc[r].own /\ s = proc[r].sid
  OBVIOUS
<1> DEFINE p == proc[r]
           Query(val) == [p.req EXCEPT ![x] = val]
           new(val) == [p EXCEPT !.req = Query(val)]
<1>1. PICK val \in {n, session[s][x]} :
        /\ Accessed(r, x, new(val), Idle)
        /\ asked' = IF p.left = {x} THEN asked \cup {Query(val)} ELSE asked
  BY <1>0 DEF LoginReads
<1>2. PICK query : query = Query(val)
  OBVIOUS
<1>3. /\ p.pc = "redirecting" /\ TypeOK /\ p \in Goroutine /\ p.req \in Asked
      /\ UNCHANGED <<stored, drawn, session, attempt, written, disturbed, overtaken, passed, signedIn>>
  BY AtWork DEF LoginReads, GInv
<1>4. LogsIn(r) /\ ~CallsBack(r) /\ Busy(r)
  BY <1>3 DEF LogsIn, CallsBack, CallbackPC, Busy
<1>5. /\ n \in Attempts /\ s \in Sid /\ s \in drawn /\ s = attempt[n].sid
      /\ x \in {"state", "nonce"} /\ p.left \subseteq {"state", "nonce"}
      /\ n \in written
  <2>1. p.left \subseteq {"state", "nonce"}
    BY <1>3, <1>4 DEF GInv, LoginsBelong
  <2> QED BY <1>0, <1>3, <1>4, <2>1, AtWork DEF GInv, LoginsBelong, UndisturbedAreTheirOwn
<1>6. /\ val \in Made /\ val \in Maybe(Number)
      /\ \A k \in Attempts : val = k => k = n \/ k \in disturbed
  <2>1. session[s]["nonce"] = session[s].nonce /\ session[s]["state"] = session[s].state
    BY <1>3, <1>5, ByName
  <2>2. /\ session[s].nonce \in Made /\ session[s].state \in Made /\ n \in Made
        /\ Made \subseteq Maybe(Number) /\ \A k \in Attempts : k # None
    BY <1>3, <1>5, AttemptsAre DEF GInv, NumbersAreMade, Made, Maybe
  <2>3. ASSUME NEW k \in Attempts, session[s].nonce = k \/ session[s].state = k
        PROVE  k = n \/ k \in disturbed
    <3>1. attempt[k].sid = s
      BY <1>5, <2>2, <2>3 DEF GInv, NoncesBelong
    <3> QED BY <1>0, <1>3, <3>1 DEF GInv, LoginsDisturb
  <2>4. val = n \/ val = session[s].nonce \/ val = session[s].state
    BY <1>1, <1>5, <2>1
  <2>5. val \in Made
    BY <2>2, <2>4
  <2> QED BY <2>2, <2>3, <2>4, <2>5
<1>7. /\ query \in Asked /\ query.flow = p.req.flow
      /\ query.state = (IF x = "state" THEN val ELSE p.req.state)
      /\ query.nonce = (IF x = "nonce" THEN val ELSE p.req.nonce)
  <2>1. CASE x = "state" BY <1>2, <1>3, <1>6, <2>1 DEF Asked
  <2>2. CASE x = "nonce" BY <1>2, <1>3, <1>6, <2>2 DEF Asked
  <2> QED BY <1>5, <2>1, <2>2
<1>8. /\ new(val) \in Goroutine /\ new(val).pc = "redirecting" /\ new(val).sid = s
      /\ new(val).own = n /\ new(val).req = query /\ new(val).left = p.left
  <2> HIDE DEF Query
  <2> QED BY <1>0, <1>2, <1>3, <1>7 DEF Goroutine
<1> HIDE DEF new
<1>9. /\ proc' \in [Request -> Goroutine]
      /\ \A q \in Request \ {r} : proc'[q] = proc[q]
      /\ p.left = {x} => proc'[r] = Idle
      /\ p.left # {x} => /\ proc'[r].pc = "redirecting" /\ proc'[r].sid = s /\ proc'[r].own = n
                         /\ proc'[r].req = query /\ proc'[r].left = p.left \ {x}
  <2>1. Accessed(r, x, new(val), Idle) /\ TypeOK
    BY <1>1, <1>3
  <2>2. /\ proc' \in [Request -> Goroutine]
        /\ \A q \in Request \ {r} : proc'[q] = proc[q]
        /\ proc[r].left = {x} => proc'[r] = Idle
        /\ proc[r].left # {x} =>
              /\ proc'[r].left = proc[r].left \ {x}
              /\ proc'[r].pc = new(val).pc /\ proc'[r].sid = new(val).sid
              /\ proc'[r].own = new(val).own /\ proc'[r].req = new(val).req
              /\ proc'[r].flow = new(val).flow /\ proc'[r].state = new(val).state
    BY <1>8, <2>1, IdleType, AccessedIs
  <2> QED BY <1>8, <2>2
<1>10. asked \subseteq asked' /\ asked' \subseteq asked \cup {query}
  BY <1>1, <1>2
<1> HIDE DEF Query
<1>11. /\ proc'[r].pc \in {"idle", "redirecting"} /\ ~CallsBack(r)'
       /\ proc'[r].pc = "idle" => proc'[r].req.state = None /\ proc'[r].req.nonce = None
                                  /\ ~LogsIn(r)' /\ ~Busy(r)'
       /\ proc'[r].pc = "redirecting" =>
            /\ proc'[r].sid = s /\ proc'[r].own = n
            /\ proc'[r].req = query /\ proc'[r].left \subseteq p.left
       /\ \A q \in Request \ {r} :
            (LogsIn(q)' <=> LogsIn(q)) /\ (CallsBack(q)' <=> CallsBack(q)) /\ (Busy(q)' <=> Busy(q))
  BY <1>9, IdleType DEF LogsIn, CallsBack, CallbackPC, Busy
<1>12. Attempts' = Attempts /\ Made' = Made /\ Spoilt' = Spoilt
  BY <1>3 DEF Attempts, Made, Spoilt
<1>13. TypeOK'
  BY <1>3, <1>7, <1>9, <1>10, <1>12 DEF TypeOK
<1>14. LoginsBelong'
  <2>1. LogsIn(r)' => proc'[r].pc = "redirecting"
    BY <1>11 DEF LogsIn
  <2> QED BY <1>0, <1>3, <1>4, <1>5, <1>7, <1>9, <1>11, <1>12, <2>1 DEF GInv, LoginsBelong
<1>15. CallbacksBelong'
  BY <1>9, <1>10, <1>11 DEF GInv, CallbacksBelong
<1>16. UndrawnAreUnused'
  BY <1>3, <1>5, <1>9, <1>11 DEF GInv, UndrawnAreUnused
<1>17. NumbersAreMade'
  <2>1. query.state \in Made /\ query.nonce \in Made /\ None \in Made
    BY <1>6, <1>7 DEF GInv, NumbersAreMade, Made, Maybe
  <2> QED BY <1>3, <1>9, <1>10, <1>11, <1>12, <2>1 DEF GInv, NumbersAreMade
<1>18. \A k : (NonceDue(k)' <=> NonceDue(k)) /\ (Starting(k)' <=> Starting(k))
  BY <1>3, <1>9, <1>11 DEF NonceDue, Starting
<1>19. NoncesBelong' /\ WrittenAreOver'
  BY <1>3, <1>12, <1>18 DEF GInv, NoncesBelong, WrittenAreOver
<1>20. PassedAreSpent'
  BY <1>3, <1>9, <1>11, <1>18 DEF GInv, PassedAreSpent, SignedNonces
<1>21. LaterNonceReplaces'
  BY <1>3, <1>12, <1>18 DEF GInv, LaterNonceReplaces
<1>22. LoginsDisturb'
  BY <1>0, <1>3, <1>9, <1>11, <1>12 DEF GInv, LoginsDisturb
<1>23. UndisturbedStand'
  BY <1>3, <1>9, <1>11, <1>12 DEF GInv, UndisturbedStand, Stands
<1>24. UndisturbedAreTheirOwn'
  <2>1. \A k \in Attempts : Names(query, k) => k = n \/ k \in disturbed
    BY <1>0, <1>3, <1>6, <1>7 DEF GInv, UndisturbedAreTheirOwn, Names
  <2>2. \A q \in Request : proc'[q].pc = "redirecting" =>
       /\ proc'[q].own \in written
       /\ \A k \in Attempts : Names(proc'[q].req, k) => k = proc'[q].own \/ k \in disturbed
    BY <1>5, <1>9, <1>11, <2>1 DEF GInv, UndisturbedAreTheirOwn
  <2>3. \A q \in Request : proc'[q].pc = "starting" =>
          proc'[q].req.state = None /\ proc'[q].req.nonce = None
    BY <1>9, <1>11 DEF GInv, UndisturbedAreTheirOwn
  <2>4. \A qu \in asked' : \A k \in Attempts : Names(qu, k) => k \in written \/ k \in disturbed
    BY <1>5, <1>10, <2>1 DEF GInv, UndisturbedAreTheirOwn
  <2> QED BY <1>3, <1>12, <2>2, <2>3, <2>4 DEF UndisturbedAreTheirOwn, Names
<1>25. CallbacksRead'
  BY <1>3, <1>9, <1>11, <1>12 DEF GInv, CallbacksRead
<1> QED BY <1>13, <1>14, <1>15, <1>16, <1>17, <1>19, <1>20, <1>21, <1>22, <1>23, <1>24, <1>25
     DEF GInv
-----------------------------------------------------------------------------
(***************************************************************************)
(* The writes of a sign-in.                                                *)

LEMMA CallbackWritesInv ==
  ASSUME GInv, NEW r \in Request, NEW x \in proc[r].left, CallbackWrites(r, x) PROVE GInv'
<1>0. PICK n, s, v : n = proc[r].own /\ s = proc[r].sid /\ v = SignedIn(r, x)
  OBVIOUS
<1> DEFINE p == proc[r]
<1>1. /\ p.pc = "signing" /\ TypeOK /\ p \in Goroutine
      /\ session' = [session EXCEPT ![s][x] = v]
      /\ disturbed' = disturbed \cup ({k \in Attempts : attempt[k].sid = s} \ {n})
      /\ Accessed(r, x, p, Idle)
      /\ overtaken' = overtaken \cup
           {proc[q].own : q \in {q \in Request : LogsIn(q) /\ proc[q].sid = s}}
      /\ signedIn' = IF p.left = {x} THEN signedIn \cup {p.req} ELSE signedIn
      /\ UNCHANGED <<stored, drawn, attempt, asked, written, passed>>
  BY <1>0, AtWork DEF CallbackWrites, GInv, Disturbs, Overtakes, StoredAfter
<1>2. ~LogsIn(r) /\ CallsBack(r) /\ Busy(r)
  BY <1>1 DEF LogsIn, CallsBack, CallbackPC, Busy
<1>3. /\ n \in Made /\ s \in Sid /\ s \in drawn /\ p.req \in asked /\ n = p.req.nonce
      /\ p.left \subseteq Field /\ x \in Field /\ n \in Maybe(Number)
      /\ n # None => n \in passed /\ s = attempt[n].sid
                     /\ ("nonce" \notin p.left => session[s].nonce # n)
  BY <1>0, <1>1, <1>2, AtWork DEF GInv, CallbacksBelong, PassedAreSpent, Goroutine
<1>4. v \in FieldType(x) /\ (x # "user" => v = None)
  <2>1. x # "user" => v = None
    BY <1>0 DEF SignedIn
  <2>2. ASSUME x = "user" PROVE v \in Maybe(0 .. MaxAttempt)
    <3>1. v = (IF n = None THEN 0 ELSE n)
      BY <1>0, <1>3, <2>2 DEF SignedIn, UserOf
    <3>2. n # None => n \in 1 .. MaxAttempt
      BY <1>3 DEF Maybe, Number
    <3> QED BY <3>1, <3>2, GoWebappAssumption DEF Maybe
  <2>3. CASE x = "user" BY <2>2, <2>3 DEF FieldType
  <2>4. CASE x # "user" BY <2>1, <2>4 DEF FieldType, Maybe
  <2> QED BY <2>1, <2>3, <2>4
<1>5. /\ session' \in [Sid -> Session] /\ session'[s][x] = v
      /\ \A y \in Field \ {x} : session'[s][y] = session[s][y]
      /\ \A t \in Sid \ {s} : session'[t] = session[t]
  <2>1. session' = [session EXCEPT ![s][x] = v]
    BY <1>1
  <2>2. TypeOK /\ s \in Sid /\ x \in Field /\ v \in FieldType(x)
    BY <1>1, <1>3, <1>4
  <2> QED BY ONLY <2>1, <2>2, SessionWrite, Zenon
<1>6. /\ proc' \in [Request -> Goroutine]
      /\ \A q \in Request \ {r} : proc'[q] = proc[q]
      /\ p.left = {x} => proc'[r] = Idle
      /\ p.left # {x} => /\ proc'[r].pc = "signing" /\ proc'[r].sid = s /\ proc'[r].own = n
                         /\ proc'[r].req = p.req /\ proc'[r].left = p.left \ {x}
  BY <1>0, <1>1, IdleType, AccessedIs
<1>7. /\ proc'[r].pc \in {"idle", "signing"} /\ ~LogsIn(r)'
      /\ proc'[r].pc = "idle" => /\ proc'[r].req.state = None /\ proc'[r].req.nonce = None
                                 /\ ~CallsBack(r)' /\ ~Busy(r)'
      /\ proc'[r].pc = "signing" =>
           /\ proc'[r].sid = s /\ proc'[r].own = n
           /\ proc'[r].req = p.req /\ proc'[r].left = p.left \ {x}
      /\ \A q \in Request \ {r} :
            (LogsIn(q)' <=> LogsIn(q)) /\ (CallsBack(q)' <=> CallsBack(q)) /\ (Busy(q)' <=> Busy(q))
  BY <1>6, IdleType DEF LogsIn, CallsBack, CallbackPC, Busy
<1>8. /\ Attempts' = Attempts /\ Made' = Made /\ Spoilt \subseteq Spoilt'
      /\ disturbed \subseteq disturbed'
      /\ \A k \in Attempts \ Spoilt' : attempt[k].sid # s
      /\ passed \subseteq Attempts /\ disturbed \subseteq Attempts
      /\ written \subseteq Attempts /\ SignedNonces \subseteq passed
      /\ SignedNonces' \subseteq SignedNonces \cup (IF p.left = {x} THEN {n} \ {None} ELSE {})
  <2>1. SignedNonces' \subseteq SignedNonces \cup (IF p.left = {x} THEN {n} \ {None} ELSE {})
    BY <1>1, <1>3 DEF SignedNonces
  <2> QED BY <1>1, <1>3, <2>1, AttemptsAre DEF Attempts, Made, Spoilt, TypeOK, GInv, PassedAreSpent
<1>9. TypeOK'
  <2>1. signedIn' \subseteq asked
    BY <1>1, <1>3 DEF TypeOK
  <2>2. overtaken' \subseteq Attempts
    BY <1>1, AtWork DEF TypeOK
  <2> QED BY <1>1, <1>5, <1>6, <1>8, <2>1, <2>2 DEF TypeOK
<1>10. /\ session'[s].nonce = (IF x = "nonce" THEN None ELSE session[s].nonce)
       /\ session'[s].state = (IF x = "state" THEN None ELSE session[s].state)
  <2>1. session'[s] \in Session /\ session[s] \in Session
    BY <1>1, <1>3, <1>5 DEF TypeOK
  <2>2. /\ session'[s]["nonce"] = (IF x = "nonce" THEN None ELSE session[s]["nonce"])
        /\ session'[s]["state"] = (IF x = "state" THEN None ELSE session[s]["state"])
    BY <1>3, <1>4, <1>5 DEF Field
  <2> QED BY <2>1, <2>2, SessionByName
<1>11. LoginsBelong'
  BY <1>1, <1>6, <1>7, <1>8 DEF GInv, LoginsBelong
<1>12. CallbacksBelong'
  BY <1>0, <1>1, <1>3, <1>6, <1>7 DEF GInv, CallbacksBelong
<1>13. UndrawnAreUnused'
  BY <1>1, <1>3, <1>5, <1>6, <1>7 DEF GInv, UndrawnAreUnused
<1>14. NumbersAreMade'
  <2>1. \A t \in Sid : session'[t].state \in Made /\ session'[t].nonce \in Made
    BY <1>5, <1>10 DEF GInv, NumbersAreMade, Made, Maybe
  <2>2. None \in Made
    BY DEF Made, Maybe
  <2> QED BY <1>1, <1>6, <1>7, <1>8, <2>1, <2>2 DEF GInv, NumbersAreMade
<1>15. \A k : (NonceDue(k)' <=> NonceDue(k)) /\ (Starting(k)' <=> Starting(k))
  BY <1>1, <1>6, <1>7 DEF NonceDue, Starting
<1>16. NoncesBelong' /\ WrittenAreOver'
  <2>1. \A k \in Attempts : k # None
    BY <1>1, AttemptsAre
  <2> QED BY <1>1, <1>5, <1>8, <1>10, <1>15, <2>1 DEF GInv, NoncesBelong, WrittenAreOver
<1>17. PassedAreSpent'
  <2>1. \A k \in passed : ~NonceDue(k)'
    BY <1>15 DEF GInv, PassedAreSpent
  <2>2. ASSUME NEW k \in Attempts, NEW t \in Sid, session[t].nonce # k PROVE session'[t].nonce # k
    BY <1>1, <1>5, <1>10, <2>2, AttemptsAre
  <2>3. ASSUME n # None, x = "nonce" \/ "nonce" \notin p.left PROVE session'[s].nonce # n
    BY <1>3, <1>10, <2>3
  <2>4. ASSUME NEW q \in Request, proc'[q].pc = "signing", proc'[q].own # None
        PROVE  /\ proc'[q].own \in passed /\ proc'[q].sid = attempt[proc'[q].own].sid
               /\ "nonce" \notin proc'[q].left => session'[proc'[q].sid].nonce # proc'[q].own
    <3>1. CASE q = r
      BY <1>3, <1>7, <2>3, <2>4, <3>1
    <3>2. CASE q # r
      <4>1. /\ proc'[q] = proc[q]
            /\ proc[q].own \in passed /\ proc[q].sid = attempt[proc[q].own].sid
            /\ "nonce" \notin proc[q].left => session[proc[q].sid].nonce # proc[q].own
        BY <1>6, <2>4, <3>2 DEF GInv, PassedAreSpent
      <4>2. proc[q].sid \in Sid /\ proc[q].own \in Attempts
        BY <1>1, <1>8, <4>1, AttemptsAre DEF Attempt
      <4> QED BY <2>2, <4>1, <4>2
    <3> QED BY <3>1, <3>2
  <2>5. ASSUME NEW k \in SignedNonces' PROVE k \in passed /\ session'[attempt[k].sid].nonce # k
    <3>1. CASE k \in SignedNonces
      <4>1. k \in Attempts /\ attempt[k].sid \in Sid /\ session[attempt[k].sid].nonce # k
        BY <1>1, <1>8, <3>1, AttemptsAre DEF Attempt, GInv, PassedAreSpent
      <4> QED BY <1>8, <2>2, <3>1, <4>1
    <3>2. CASE k \notin SignedNonces
      <4>1. k = n /\ n # None /\ p.left = {x}
        BY <1>8, <2>5, <3>2
      <4> QED BY <1>3, <2>3, <4>1
    <3> QED BY <3>1, <3>2
  <2> QED BY <1>1, <2>1, <2>4, <2>5 DEF PassedAreSpent
<1>18. LaterNonceReplaces'
  <2> SUFFICES ASSUME NEW m \in Attempts, NEW k \in attempt[m].after
               PROVE  /\ k \in written /\ k # m
                      /\ attempt[m].sid = attempt[k].sid /\ ~NonceDue(m)' =>
                           session'[attempt[k].sid].nonce # k
    BY <1>1, <1>8 DEF LaterNonceReplaces
  <2>1. /\ k \in written /\ k # m
        /\ attempt[m].sid = attempt[k].sid /\ ~NonceDue(m) => session[attempt[k].sid].nonce # k
    BY DEF GInv, LaterNonceReplaces
  <2>2. attempt[k].sid \in Sid /\ k # None
    BY <1>1, <1>8, <2>1, AttemptsAre DEF Attempt
  <2> QED BY <1>5, <1>10, <1>15, <2>1, <2>2
<1>19. LoginsDisturb'
  BY <1>1, <1>6, <1>7, <1>8 DEF GInv, LoginsDisturb
<1>20. UndisturbedStand'
  <2>1. ASSUME NEW k \in Attempts \ Spoilt', NEW y \in LoginFields
        PROVE  Stands(k, y)' <=> Stands(k, y)
    <3>1. attempt[k].sid \in Sid /\ attempt[k].sid # s
      BY <1>1, <1>8, <2>1, AttemptsAre DEF Attempt
    <3> QED BY <1>1, <1>5, <3>1 DEF Stands
  <2>2. ASSUME NEW k \in written, k \notin Spoilt', NEW y \in LoginFields PROVE Stands(k, y)'
    BY <1>8, <2>1, <2>2 DEF GInv, UndisturbedStand
  <2>3. ASSUME NEW q \in Request, proc'[q].pc = "starting", proc'[q].own \notin Spoilt',
               NEW y \in LoginFields \ proc'[q].left
        PROVE  Stands(proc[q].own, y)'
    <3>1. PICK k : k = proc[q].own
      OBVIOUS
    <3>2. /\ proc'[q] = proc[q] /\ k \in Attempts /\ k \notin Spoilt /\ k \notin Spoilt'
          /\ Stands(k, y)
      BY <1>6, <1>7, <1>8, <2>3, <3>1 DEF GInv, LoginsBelong, LogsIn, UndisturbedStand
    <3>3. Stands(k, y)'
      BY <2>1, <3>2
    <3> QED BY <3>1, <3>2, <3>3 DEF Stands
  <2> QED BY <1>1, <1>6, <1>7, <2>2, <2>3 DEF UndisturbedStand, Stands
<1>21. UndisturbedAreTheirOwn'
  BY <1>1, <1>6, <1>7, <1>8 DEF GInv, UndisturbedAreTheirOwn, Names
<1>22. CallbacksRead'
  <2> SUFFICES ASSUME NEW q \in Request, proc'[q].pc = "opening",
                      proc'[q].own \in Attempts \ Spoilt',
                      proc'[q].req.state = proc'[q].own,
                      attempt[proc'[q].own].sid = proc'[q].sid
               PROVE  /\ "flow" \in proc'[q].left \/ proc'[q].flow # None
                      /\ "state" \in proc'[q].left \/ proc'[q].state = proc'[q].own
    BY <1>1, <1>8 DEF CallbacksRead
  <2>1. q # r /\ proc'[q] = proc[q]
    BY <1>6, <1>7
  <2> QED BY <1>8, <2>1 DEF GInv, CallbacksRead
<1> QED BY <1>9, <1>11, <1>12, <1>13, <1>14, <1>16, <1>17, <1>18, <1>19, <1>20, <1>21, <1>22 DEF GInv
-----------------------------------------------------------------------------
LEMMA InitGInv == Init => GInv
<1> SUFFICES ASSUME Init PROVE GInv
  OBVIOUS
<1>1. /\ \A r \in Request : proc[r] = Idle /\ proc[r].pc = "idle" /\ ~LogsIn(r) /\ ~CallsBack(r)
                             /\ ~Busy(r) /\ proc[r].own = None
                             /\ proc[r].req.state = None /\ proc[r].req.nonce = None
      /\ proc \in [Request -> Goroutine]
  BY IdleType DEF Init, LogsIn, CallsBack, Busy, CallbackPC
<1>2. /\ attempt = <<>> /\ Attempts = {} /\ asked = {} /\ stored = {} /\ drawn = {} /\ written = {}
      /\ disturbed = {} /\ overtaken = {} /\ passed = {} /\ signedIn = {}
      /\ SignedNonces = {} /\ session = [s \in Sid |-> Blank]
  BY DEF Init, Attempts, SignedNonces
<1>3. /\ Blank \in Session /\ Blank.state = None /\ Blank.nonce = None /\ Blank.user = None
  BY DEF Blank, Session, Maybe
<1>4. \A s \in Sid : session[s] = Blank
  BY <1>2
<1>5. TypeOK
  BY <1>1, <1>2, <1>3, GoWebappAssumption DEF TypeOK
<1>6. None \in Made
  BY DEF Made, Maybe
<1>7. UndrawnAreUnused /\ NumbersAreMade
  BY <1>1, <1>2, <1>3, <1>4, <1>6 DEF UndrawnAreUnused, NumbersAreMade
<1>8. LoginsBelong /\ CallbacksBelong /\ NoncesBelong /\ WrittenAreOver /\ PassedAreSpent
  BY <1>1, <1>2 DEF LoginsBelong, CallbacksBelong, NoncesBelong, WrittenAreOver, PassedAreSpent
<1>9. LaterNonceReplaces /\ LoginsDisturb /\ UndisturbedStand /\ UndisturbedAreTheirOwn
      /\ CallbacksRead
  BY <1>1, <1>2 DEF LaterNonceReplaces, LoginsDisturb, UndisturbedStand, UndisturbedAreTheirOwn,
                    CallbacksRead
<1> QED BY <1>5, <1>7, <1>8, <1>9 DEF GInv

LEMMA StutterInv == GInv /\ UNCHANGED vars => GInv'
  BY DEF vars, GInv, TypeOK, LoginsBelong, CallbacksBelong, UndrawnAreUnused, NumbersAreMade,
     NoncesBelong, WrittenAreOver, PassedAreSpent, LaterNonceReplaces, LoginsDisturb,
     UndisturbedStand, UndisturbedAreTheirOwn, CallbacksRead, LogsIn, CallsBack, Busy, Attempts,
     Made, NonceDue, Starting, Stands, Spoilt, Names, SignedNonces

LEMMA ProceedsInv == ASSUME GInv, NEW r \in Request, Proceeds(r) PROVE GInv'
<1>1. CASE \E x \in proc[r].left : LoginWrites(r, x)
  BY <1>1, LoginWritesInv
<1>2. CASE \E x \in proc[r].left : LoginReads(r, x)
  BY <1>2, LoginReadsInv
<1>3. CASE \E x \in proc[r].left : CallbackReads(r, x)
  BY <1>3, CallbackReadsInv
<1>4. CASE \E x \in proc[r].left : CallbackWrites(r, x)
  BY <1>4, CallbackWritesInv
<1>5. CASE Obtains(r) \/ ObtainsNothing(r)
  BY <1>5, ObtainsInv, ObtainsNothingInv
<1>6. CASE ChecksNonce(r) \/ Torn(r)
  BY <1>6, ChecksNonceInv, TornInv
<1> QED BY <1>1, <1>2, <1>3, <1>4, <1>5, <1>6 DEF Proceeds

LEMMA StepGInv == GInv /\ [Next]_vars => GInv'
<1> SUFFICES ASSUME GInv, [Next]_vars PROVE GInv'
  OBVIOUS
<1>1. CASE Look
  BY <1>1, LookInv
<1>2. CASE \E s \in Sid : Logout(s)
  BY <1>2, LogoutInv
<1>3. CASE \E r \in Request : \E f \in Flow : StartLogin(r, f)
  BY <1>3, StartLoginInv
<1>4. CASE \E r \in Request : \E query \in asked : HandleCallback(r, query)
  BY <1>4, HandleCallbackInv
<1>5. CASE \E r \in Request : Proceeds(r)
  BY <1>5, ProceedsInv
<1>6. CASE UNCHANGED vars
  BY <1>6, StutterInv
<1> QED BY <1>1, <1>2, <1>3, <1>4, <1>5, <1>6 DEF Next

(* What the fields, the goroutines and the history say of one another      *)
(* holds throughout, whatever the interleaving of the accesses.            *)
THEOREM Invariance == Spec => []GInv
<1> QED BY InitGInv, StepGInv, PTL DEF Spec
-----------------------------------------------------------------------------
(***************************************************************************)
(* Where tokens without a nonce come from: a login finds a nonce in its    *)
(* session from its own write on, unless a sign-in overtakes it.           *)

HasNonce(r) == proc[r].pc = "redirecting" \/ "nonce" \notin proc[r].left

OInv ==
  /\ \A r \in Request : LogsIn(r) =>
       /\ proc[r].req.of = proc[r].own
       /\ HasNonce(r) => proc[r].own \in overtaken \/ session[proc[r].sid].nonce # None
       /\ proc[r].pc = "redirecting" /\ "nonce" \notin proc[r].left
            => proc[r].own \in overtaken \/ proc[r].req.nonce # None
  /\ \A query \in asked : query.nonce = None => query.of \in overtaken

(* A step that sends no query and clears no nonce but of logins it overtakes. *)
LEMMA KeepsOInv ==
  ASSUME OInv, overtaken \subseteq overtaken', asked' = asked,
         \A r \in Request : LogsIn(r)' => LogsIn(r) /\ proc'[r] = proc[r],
         \A r \in Request : LogsIn(r) =>
           proc[r].own \in overtaken' \/ session'[proc[r].sid].nonce = session[proc[r].sid].nonce
  PROVE  OInv'
  BY DEF OInv, HasNonce

(* Other goroutines' logins are as they were. *)
LEMMA OnlyItselfMoves ==
  ASSUME GInv, NEW r \in Request, ~LogsIn(r)', \A q \in Request \ {r} : proc'[q] = proc[q]
  PROVE  \A q \in Request : LogsIn(q)' => LogsIn(q) /\ proc'[q] = proc[q]
  BY DEF LogsIn

LEMMA CallbackOInv ==
  ASSUME GInv, OInv, NEW r \in Request,
         (\E query \in asked : HandleCallback(r, query))
           \/ (\E x \in proc[r].left : CallbackReads(r, x))
           \/ Obtains(r) \/ ObtainsNothing(r) \/ ChecksNonce(r) \/ Torn(r)
  PROVE  OInv'
<1>1. overtaken' = overtaken /\ asked' = asked
  BY DEF HandleCallback, CallbackReads, Obtains, ObtainsNothing, ChecksNonce, Torn
<1>2. proc \in [Request -> Goroutine] /\ proc[r] \in Goroutine
  BY AtWork DEF GInv, TypeOK
<1>3. session' = session
  <2>1. CASE Refuses(r) /\ proc[r].pc \in {"opening", "checking"}
    <3>1. proc[r].sid \in Sid
      BY <2>1, AtWork DEF Busy
    <3> QED BY <2>1, <3>1, RefusalIs DEF GInv
  <2> QED BY <2>1 DEF HandleCallback, CallbackReads, Obtains, ObtainsNothing, ChecksNonce, Torn
<1>4. \E val : proc' = [proc EXCEPT ![r] = val] /\ val.pc \notin {"starting", "redirecting"}
  <2>0. Idle.pc = "idle"
    BY IdleType
  <2>1. ASSUME NEW query \in asked, HandleCallback(r, query)
        PROVE  \E val : proc' = [proc EXCEPT ![r] = val]
                        /\ val.pc \notin {"starting", "redirecting"}
    <3>1. PICK s \in Sid : proc' = [proc EXCEPT ![r] =
            [Idle EXCEPT !.pc = "opening", !.sid = s, !.left = {"flow", "state"},
                         !.own = query.nonce, !.req = query]]
      BY <2>1 DEF HandleCallback
    <3> DEFINE val == [Idle EXCEPT !.pc = "opening", !.sid = s, !.left = {"flow", "state"},
                                   !.own = query.nonce, !.req = query]
    <3>2. val.pc = "opening"
      BY DEF Idle
    <3> HIDE DEF val
    <3> QED BY <3>1, <3>2 DEF val
  <2>2. ASSUME NEW x \in proc[r].left, CallbackReads(r, x)
        PROVE  \E val : proc' = [proc EXCEPT ![r] = val]
                        /\ val.pc \notin {"starting", "redirecting"}
    <3> DEFINE new == [proc[r] EXCEPT ![x] = session[proc[r].sid][x]]
               then == [new EXCEPT !.pc = "awaiting", !.left = {}]
               rest == [new EXCEPT !.left = @ \ {x}]
    <3>1. x \in {"flow", "state"} /\ proc[r].pc = "opening"
      BY <2>2 DEF CallbackReads, GInv, CallbacksBelong, CallsBack, CallbackPC
    <3>2. new.pc = "opening" /\ then.pc = "awaiting" /\ rest.pc = "opening"
      <4>1. new.pc = "opening" /\ DOMAIN new = DOMAIN proc[r]
        BY <1>2, <3>1 DEF Goroutine
      <4>2. "pc" \in DOMAIN proc[r]
        BY <1>2 DEF Goroutine
      <4> HIDE DEF new
      <4> QED BY <4>1, <4>2
    <3>3. Accessed(r, x, new, then) \/ Refuses(r)
      BY <2>2 DEF CallbackReads
    <3> HIDE DEF new, then, rest
    <3> QED BY <2>0, <3>2, <3>3 DEF Accessed, Refuses, rest
  <2>3. CASE Obtains(r)
    <3> DEFINE val == [proc[r] EXCEPT !.pc = "checking"]
    <3>1. proc' = [proc EXCEPT ![r] = val]
      BY <1>2, <2>3 DEF Obtains
    <3>2. val.pc = "checking"
      BY <1>2 DEF Goroutine
    <3> QED BY <3>1, <3>2
  <2>4. CASE ObtainsNothing(r) \/ Torn(r)
    BY <2>0, <2>4 DEF ObtainsNothing, Torn
  <2>5. CASE ChecksNonce(r)
    <3> DEFINE val == [proc[r] EXCEPT !.pc = "signing", !.left = DOMAIN Blank]
    <3>1. proc' = [proc EXCEPT ![r] = val] \/ Refuses(r)
      BY <1>2, <2>5 DEF ChecksNonce
    <3>2. val.pc = "signing"
      BY <1>2 DEF Goroutine
    <3> HIDE DEF val
    <3> QED BY <2>0, <3>1, <3>2 DEF Refuses
  <2> QED BY <2>1, <2>2, <2>3, <2>4, <2>5
<1>5. ~LogsIn(r)' /\ \A q \in Request \ {r} : proc'[q] = proc[q]
  BY <1>2, <1>4 DEF LogsIn
<1> QED BY <1>1, <1>3, <1>5, OnlyItselfMoves, KeepsOInv

(* The writes of a sign-in overtake whoever could miss a nonce for them. *)
LEMMA CallbackWritesOInv ==
  ASSUME GInv, OInv, NEW r \in Request, NEW x \in proc[r].left, CallbackWrites(r, x)
  PROVE  OInv'
<1>1. /\ proc[r].pc = "signing" /\ asked' = asked /\ overtaken \subseteq overtaken'
      /\ session' = [session EXCEPT ![proc[r].sid][x] = SignedIn(r, x)]
      /\ Accessed(r, x, proc[r], Idle) /\ TypeOK /\ proc[r] \in Goroutine
      /\ \A q \in Request : LogsIn(q) /\ proc[q].sid = proc[r].sid => proc[q].own \in overtaken'
  BY AtWork DEF CallbackWrites, GInv, Overtakes
<1>2. /\ \A q \in Request \ {r} : proc'[q] = proc[q]
      /\ proc'[r].pc \in {"idle", "signing"}
  BY <1>1, IdleType, AccessedIs
<1>3. ~LogsIn(r)'
  BY <1>2 DEF LogsIn
<1>4. \A q \in Request : LogsIn(q) =>
        proc[q].own \in overtaken' \/ session'[proc[q].sid].nonce = session[proc[q].sid].nonce
  <2> SUFFICES ASSUME NEW q \in Request, LogsIn(q), proc[q].sid # proc[r].sid
               PROVE  session'[proc[q].sid].nonce = session[proc[q].sid].nonce
    BY <1>1
  <2>1. proc[q].sid \in Sid
    BY AtWork
  <2> QED BY <1>1, <2>1 DEF TypeOK
<1> QED BY <1>1, <1>2, <1>3, <1>4, OnlyItselfMoves, KeepsOInv

LEMMA StartLoginOInv ==
  ASSUME GInv, OInv, NEW r \in Request, NEW f \in Flow, StartLogin(r, f) PROVE OInv'
<1>1. PICK n : n = Len(attempt) + 1
  OBVIOUS
<1> DEFINE Starts(s) == [Idle EXCEPT !.pc = "starting", !.sid = s,
                           !.left = {"state", "nonce", "flow"}, !.own = n,
                           !.req = [NoReq EXCEPT !.of = n, !.flow = f]]
<1>2. PICK s \in Sid : proc' = [proc EXCEPT ![r] = Starts(s)]
  BY <1>1 DEF StartLogin
<1>3. session' = session /\ asked' = asked /\ overtaken' = overtaken /\ proc[r].pc = "idle"
  BY DEF StartLogin
<1>4. /\ Starts(s).pc = "starting" /\ Starts(s).own = n /\ Starts(s).req.of = n
      /\ "nonce" \in Starts(s).left
  BY DEF Idle, NoReq
<1> HIDE DEF Starts
<1>5. proc'[r] = Starts(s) /\ \A q \in Request \ {r} : proc'[q] = proc[q]
  BY <1>2 DEF GInv, TypeOK
<1> QED BY <1>3, <1>4, <1>5 DEF OInv, HasNonce, LogsIn

LEMMA LoginWritesOInv ==
  ASSUME GInv, OInv, NEW r \in Request, NEW x \in proc[r].left, LoginWrites(r, x) PROVE OInv'
<1> DEFINE p == proc[r]
           then == [p EXCEPT !.pc = "redirecting", !.left = {"state", "nonce"}]
           v == IF x = "flow" THEN p.req.flow ELSE p.own
<1>1. /\ p.pc = "starting" /\ TypeOK /\ p \in Goroutine
      /\ session' = [session EXCEPT ![p.sid][x] = v]
      /\ Accessed(r, x, p, then)
      /\ asked' = asked /\ overtaken' = overtaken
  BY AtWork DEF LoginWrites, GInv
<1>2. /\ LogsIn(r) /\ p.sid \in Sid /\ p.own \in Attempts /\ p.own # None
      /\ p.left \subseteq {"state", "nonce", "flow"}
  BY <1>1, AtWork, AttemptsAre DEF LogsIn, GInv, LoginsBelong
<1>3. /\ then \in Goroutine /\ then.pc = "redirecting" /\ then.sid = p.sid /\ then.own = p.own
      /\ then.req = p.req /\ then.left = {"state", "nonce"}
  BY <1>1 DEF Goroutine, PC
<1> HIDE DEF then
<1>4. /\ \A q \in Request \ {r} : proc'[q] = proc[q]
      /\ proc'[r].sid = p.sid /\ proc'[r].own = p.own /\ proc'[r].req = p.req
      /\ p.left = {x} => proc'[r].pc = "redirecting" /\ proc'[r].left = {"state", "nonce"}
      /\ p.left # {x} => proc'[r].pc = "starting" /\ proc'[r].left = p.left \ {x}
  BY <1>1, <1>3, AccessedIs
<1>5. \A t \in Sid :
        session'[t].nonce = IF x = "nonce" /\ t = p.sid THEN p.own ELSE session[t].nonce
  <2>1. session \in [Sid -> Session]
    BY <1>1 DEF TypeOK
  <2>2. CASE x = "nonce"
    BY <1>1, <1>2, <2>1, <2>2 DEF Session
  <2>3. CASE x = "state"
    BY <1>1, <1>2, <2>1, <2>3 DEF Session
  <2>4. CASE x = "flow"
    BY <1>1, <1>2, <2>1, <2>4 DEF Session
  <2> QED BY <1>2, <2>2, <2>3, <2>4
<1>6. \A q \in Request : LogsIn(q) => proc[q].sid \in Sid
  BY AtWork
<1>7. ASSUME NEW q \in Request, q # r, LogsIn(q)'
      PROVE  /\ proc'[q].req.of = proc'[q].own
             /\ HasNonce(q)' => proc'[q].own \in overtaken \/ session'[proc'[q].sid].nonce # None
             /\ proc'[q].pc = "redirecting" /\ "nonce" \notin proc'[q].left
                  => proc'[q].own \in overtaken \/ proc'[q].req.nonce # None
  <2>1. proc'[q] = proc[q] /\ LogsIn(q) /\ (HasNonce(q)' <=> HasNonce(q)) /\ proc[q].sid \in Sid
    BY <1>4, <1>6, <1>7 DEF LogsIn, HasNonce
  <2> QED BY <1>2, <1>5, <2>1 DEF OInv
<1>8. /\ proc'[r].req.of = proc'[r].own
      /\ HasNonce(r)' => proc'[r].own \in overtaken \/ session'[proc'[r].sid].nonce # None
      /\ ~(proc'[r].pc = "redirecting" /\ "nonce" \notin proc'[r].left)
  <2>1. p.req.of = p.own
    BY <1>2 DEF OInv
  <2>2. ASSUME HasNonce(r)', x # "nonce" PROVE HasNonce(r)
    BY <1>1, <1>4, <2>2 DEF HasNonce
  <2> QED BY <1>2, <1>4, <1>5, <2>1, <2>2 DEF OInv
<1> QED BY <1>1, <1>7, <1>8 DEF OInv

LEMMA LoginReadsOInv ==
  ASSUME GInv, OInv, NEW r \in Request, NEW x \in proc[r].left, LoginReads(r, x) PROVE OInv'
<1> DEFINE p == proc[r]
           Query(val) == [p.req EXCEPT ![x] = val]
           new(val) == [p EXCEPT !.req = Query(val)]
<1>1. PICK val \in {p.own, session[p.sid][x]} :
        /\ Accessed(r, x, new(val), Idle)
        /\ asked' = IF p.left = {x} THEN asked \cup {Query(val)} ELSE asked
  BY DEF LoginReads
<1>2. /\ p.pc = "redirecting" /\ TypeOK /\ p \in Goroutine /\ p.req \in Asked
      /\ session' = session /\ overtaken' = overtaken
  BY AtWork DEF LoginReads, GInv
<1>3. /\ LogsIn(r) /\ p.own \in Attempts /\ p.own # None /\ p.sid \in Sid
      /\ x \in {"state", "nonce"}
  <2>1. LogsIn(r)
    BY <1>2 DEF LogsIn
  <2> QED BY <1>2, <2>1, AtWork, AttemptsAre DEF GInv, LoginsBelong
<1>4. p.req.of = p.own /\ (p.own \in overtaken \/ session[p.sid].nonce # None)
      /\ ("nonce" \notin p.left => p.own \in overtaken \/ p.req.nonce # None)
  BY <1>2, <1>3 DEF OInv, HasNonce
<1>5. /\ val \in Maybe(Number)
      /\ x = "nonce" => val = p.own \/ val = session[p.sid].nonce
  <2>1. p.own \in Maybe(Number)
    BY <1>2 DEF Goroutine
  <2> QED BY <1>1, <1>2, <1>3, <2>1, ByName
<1>6. PICK query : query = Query(val)
  OBVIOUS
<1>7. /\ query \in Asked /\ query.of = p.own
      /\ query.nonce = (IF x = "nonce" THEN val ELSE p.req.nonce)
  <2>1. CASE x = "state" BY <1>2, <1>4, <1>5, <1>6, <2>1 DEF Asked
  <2>2. CASE x = "nonce" BY <1>2, <1>4, <1>5, <1>6, <2>2 DEF Asked
  <2> QED BY <1>3, <2>1, <2>2
<1>8. /\ new(val) \in Goroutine /\ new(val).pc = "redirecting" /\ new(val).sid = p.sid
      /\ new(val).own = p.own /\ new(val).req = query /\ new(val).left = p.left
  <2> HIDE DEF Query
  <2> QED BY <1>2, <1>6, <1>7 DEF Goroutine
<1> HIDE DEF new
<1>9. /\ \A q \in Request \ {r} : proc'[q] = proc[q]
      /\ p.left = {x} => proc'[r].pc = "idle"
      /\ p.left # {x} => /\ proc'[r].pc = "redirecting" /\ proc'[r].sid = p.sid
                         /\ proc'[r].own = p.own
                         /\ proc'[r].req = query /\ proc'[r].left = p.left \ {x}
  <2>1. Accessed(r, x, new(val), Idle) /\ TypeOK
    BY <1>1, <1>2
  <2>2. /\ \A q \in Request \ {r} : proc'[q] = proc[q]
        /\ proc[r].left = {x} => proc'[r] = Idle
        /\ proc[r].left # {x} =>
              /\ proc'[r].left = proc[r].left \ {x}
              /\ proc'[r].pc = new(val).pc /\ proc'[r].sid = new(val).sid
              /\ proc'[r].own = new(val).own /\ proc'[r].req = new(val).req
    BY <1>8, <2>1, IdleType, AccessedIs
  <2> QED BY <1>8, <2>2, IdleType
<1>10. asked' \subseteq asked \cup {query} /\ (p.left # {x} => asked' = asked)
  BY <1>1, <1>6
<1>11. "nonce" \notin p.left \ {x} => p.own \in overtaken \/ query.nonce # None
  BY <1>3, <1>4, <1>5, <1>7
<1> HIDE DEF Query
<1>12. ASSUME NEW q \in asked', q.nonce = None PROVE q.of \in overtaken
  <2>1. CASE q \in asked
    BY <1>12, <2>1 DEF OInv
  <2>2. CASE q \notin asked
    <3>1. q = query /\ p.left = {x}
      BY <1>10, <2>2
    <3>2. "nonce" \notin p.left \ {x}
      BY <3>1
    <3> QED BY <1>7, <1>11, <1>12, <3>1, <3>2
  <2> QED BY <2>1, <2>2
<1>13. ASSUME NEW q \in Request, LogsIn(q)'
       PROVE  /\ proc'[q].req.of = proc'[q].own
              /\ HasNonce(q)' => proc'[q].own \in overtaken \/ session[proc'[q].sid].nonce # None
              /\ proc'[q].pc = "redirecting" /\ "nonce" \notin proc'[q].left
                   => proc'[q].own \in overtaken \/ proc'[q].req.nonce # None
  <2>1. CASE q = r
    <3>1. p.left # {x}
      BY <1>9, <1>13, <2>1 DEF LogsIn
    <3> QED BY <1>4, <1>7, <1>9, <1>11, <2>1, <3>1
  <2>2. CASE q # r
    <3>1. proc'[q] = proc[q] /\ LogsIn(q) /\ (HasNonce(q)' <=> HasNonce(q))
      BY <1>9, <1>13, <2>2 DEF LogsIn, HasNonce
    <3> QED BY <3>1 DEF OInv
  <2> QED BY <2>1, <2>2
<1> QED BY <1>2, <1>12, <1>13 DEF OInv

LEMMA InitOInv == Init => OInv
<1> SUFFICES ASSUME Init PROVE OInv
  OBVIOUS
<1>1. asked = {} /\ \A r \in Request : ~LogsIn(r)
  BY IdleType DEF Init, LogsIn
<1> QED BY <1>1 DEF OInv

LEMMA StepOInv == GInv /\ OInv /\ [Next]_vars => OInv'
<1> SUFFICES ASSUME GInv, OInv, [Next]_vars PROVE OInv'
  OBVIOUS
<1>1. CASE Look \/ (\E s \in Sid : Logout(s)) \/ UNCHANGED vars
  BY <1>1 DEF Look, Logout, vars, OInv, HasNonce, LogsIn
<1>2. CASE \E r \in Request : \E f \in Flow : StartLogin(r, f)
  BY <1>2, StartLoginOInv
<1>3. CASE \E r \in Request : \E query \in asked : HandleCallback(r, query)
  BY <1>3, CallbackOInv
<1>4. ASSUME NEW r \in Request, Proceeds(r) PROVE OInv'
  <2>1. CASE \E x \in proc[r].left : LoginWrites(r, x)
    BY <2>1, LoginWritesOInv
  <2>2. CASE \E x \in proc[r].left : LoginReads(r, x)
    BY <2>2, LoginReadsOInv
  <2>3. CASE \E x \in proc[r].left : CallbackWrites(r, x)
    BY <2>3, CallbackWritesOInv
  <2>4. CASE (\E x \in proc[r].left : CallbackReads(r, x))
               \/ Obtains(r) \/ ObtainsNothing(r) \/ ChecksNonce(r) \/ Torn(r)
    BY <2>4, CallbackOInv
  <2> QED BY <1>4, <2>1, <2>2, <2>3, <2>4 DEF Proceeds
<1> QED BY <1>1, <1>2, <1>3, <1>4 DEF Next

(* A query without a nonce is one of a login that a sign-in overtook. *)
THEOREM OvertakenInvariance == Spec => []OInv
<1> QED BY InitOInv, StepOInv, Invariance, PTL DEF Spec
-----------------------------------------------------------------------------
(***************************************************************************)
(* The properties, from the invariant.                                     *)

(* The variables stay in their types; whoever passed made an attempt.      *)
THEOREM TypeCorrect == Spec => []TypeOK
<1>1. GInv => TypeOK
  BY DEF GInv
<1> QED BY <1>1, Invariance, PTL

(* A goroutine moves by its own steps alone. *)
LEMMA MovesItself ==
  ASSUME GInv, [Next]_vars, NEW r \in Request, proc'[r] # proc[r]
  PROVE  \/ proc[r].pc = "idle"
         \/ Proceeds(r)
<1>0. proc \in [Request -> Goroutine]
  BY DEF GInv, TypeOK
<1>1. CASE Look \/ (\E s \in Sid : Logout(s)) \/ UNCHANGED vars
  BY <1>1 DEF Look, Logout, vars
<1>2. ASSUME NEW q \in Request, NEW f \in Flow, StartLogin(q, f) PROVE proc[r].pc = "idle"
  <2>1. proc[q].pc = "idle" /\ \E val : proc' = [proc EXCEPT ![q] = val]
    BY <1>2 DEF StartLogin
  <2> QED BY <1>0, <2>1
<1>3. ASSUME NEW q \in Request, NEW query \in asked, HandleCallback(q, query)
      PROVE  proc[r].pc = "idle"
  <2>1. proc[q].pc = "idle" /\ \E val : proc' = [proc EXCEPT ![q] = val]
    BY <1>3 DEF HandleCallback
  <2> QED BY <1>0, <2>1
<1>4. ASSUME NEW q \in Request, Proceeds(q) PROVE q = r
  <2>1. \E val : proc' = [proc EXCEPT ![q] = val]
    <3>1. ASSUME NEW x \in proc[q].left,
                 LoginWrites(q, x) \/ LoginReads(q, x) \/ CallbackReads(q, x) \/ CallbackWrites(q, x)
          PROVE  \E val : proc' = [proc EXCEPT ![q] = val]
      BY <3>1 DEF LoginWrites, LoginReads, CallbackReads, CallbackWrites, Accessed, Refuses
    <3>2. CASE Obtains(q) \/ ObtainsNothing(q) \/ Torn(q)
      BY <1>0, <3>2 DEF Obtains, ObtainsNothing, Torn
    <3>3. CASE ChecksNonce(q)
      BY <1>0, <3>3 DEF ChecksNonce, Refuses
    <3> QED BY <1>4, <3>1, <3>2, <3>3 DEF Proceeds
  <2> QED BY <1>0, <2>1
<1> QED BY <1>1, <1>2, <1>3, <1>4 DEF Next

LEMMA PassesByTheCheck ==
  ASSUME GInv, [Next]_vars, NEW r \in Request, Passes(r)
  PROVE  /\ CallsBack(r) /\ proc[r].sid \in Sid
         /\ session[proc[r].sid].nonce = proc[r].own
         /\ proc[r].own # None => proc[r].own \in Attempts
<1>1. proc[r].pc = "checking" /\ proc'[r].pc = "signing"
  BY DEF Passes
<1>2. Proceeds(r)
  BY <1>1, MovesItself
<1>3. CallsBack(r) /\ proc[r].sid \in Sid /\ proc[r].own = proc[r].req.nonce /\ proc[r].own \in Made
  BY <1>1, AtWork DEF CallsBack, CallbackPC, GInv, CallbacksBelong
<1>4. ChecksNonce(r) \/ Torn(r)
  BY <1>1, <1>2 DEF Proceeds, LoginWrites, LoginReads, CallbackReads, CallbackWrites, Obtains,
                    ObtainsNothing
<1>5. proc' # [proc EXCEPT ![r] = Idle]
  BY <1>1, IdleType DEF GInv, TypeOK
<1>6. NonceMatches(r)
  BY <1>4, <1>5 DEF ChecksNonce, Refuses, Torn
<1> QED BY <1>3, <1>6 DEF NonceMatches, Made, Maybe

(* A callback that has no nonce to show passes for the session of a login *)
(* that a sign-in overtook, and for no other.                             *)
LEMMA NoNonceIsUnbound ==
  ASSUME GInv, OInv, [Next]_vars, NEW r \in Request, Passes(r), proc[r].own = None
  PROVE  Unbound(r)
<1>1. CallsBack(r)
  BY PassesByTheCheck
<1>2. proc[r].req \in asked /\ proc[r].req.nonce = None
  BY <1>1 DEF GInv, CallbacksBelong
<1> QED BY <1>2 DEF OInv, Unbound

(* Of a query with a nonce, a second callback does not pass once one has  *)
(* signed somebody in; one without comes from a login that a sign-in      *)
(* overtook.                                                              *)
THEOREM NoReplay == Spec => NoReplayAfterSignIn
<1> DEFINE Once(r) == Unbound(r) \/ (proc[r].own # None
                                       /\ \A query \in signedIn : query.nonce # proc[r].own)
<1>1. ASSUME GInv, OInv, [Next]_vars PROVE [\A r \in Request : Passes(r) => Once(r)]_vars
  <2> SUFFICES ASSUME NEW r \in Request, Passes(r), proc[r].own # None,
                      NEW query \in signedIn, query.nonce = proc[r].own
               PROVE  FALSE
    BY <1>1, NoNonceIsUnbound
  <2>1. PICK n : n = proc[r].own
    OBVIOUS
  <2>2. n \in Attempts /\ n \in SignedNonces
    BY <1>1, <2>1, PassesByTheCheck DEF SignedNonces
  <2>3. session[proc[r].sid].nonce = n /\ proc[r].sid \in Sid
    BY <1>1, <2>1, PassesByTheCheck
  <2>4. attempt[n].sid = proc[r].sid
    BY <1>1, <2>2, <2>3 DEF GInv, NoncesBelong
  <2> QED BY <1>1, <2>2, <2>3, <2>4 DEF GInv, PassedAreSpent
<1>2. (GInv /\ OInv /\ [Next]_vars) => [\A r \in Request : Passes(r) => Once(r)]_vars
  BY <1>1
<1> QED BY <1>2, Invariance, OvertakenInvariance, PTL DEF Spec, NoReplayAfterSignIn

(* A login of a session leaves no older one of it that could still pass,   *)
(* whichever callbacks were under way when it began, but for a query       *)
(* without a nonce, which only a login that a sign-in overtook builds.     *)
THEOREM NewestLoginCounts == Spec => NoOutdatedSignIn
<1> DEFINE Newest(r) == Unbound(r) \/ (proc[r].own # None /\ ~Outdated(proc[r].own))
<1>1. ASSUME GInv, OInv, [Next]_vars PROVE [\A r \in Request : Passes(r) => Newest(r)]_vars
  <2> SUFFICES ASSUME NEW r \in Request, Passes(r), proc[r].own # None, Outdated(proc[r].own)
               PROVE  FALSE
    BY <1>1, NoNonceIsUnbound
  <2>1. PICK n : n = proc[r].own
    OBVIOUS
  <2>2. PICK m \in written : n \in attempt[m].after /\ attempt[m].sid = attempt[n].sid
    BY <2>1 DEF Outdated
  <2>3. m \in Attempts /\ n \in written /\ n \in Attempts
    BY <1>1, <2>2 DEF GInv, TypeOK, LaterNonceReplaces
  <2>4. session[proc[r].sid].nonce = n /\ proc[r].sid \in Sid
    BY <1>1, <2>1, PassesByTheCheck
  <2>5. attempt[n].sid = proc[r].sid
    BY <1>1, <2>3, <2>4 DEF GInv, NoncesBelong
  <2>6. ~NonceDue(m)
    BY <1>1, <2>2 DEF GInv, WrittenAreOver, Starting, NonceDue
  <2> QED BY <1>1, <2>2, <2>3, <2>4, <2>5, <2>6 DEF GInv, LaterNonceReplaces
<1>2. (GInv /\ OInv /\ [Next]_vars) => [\A r \in Request : Passes(r) => Newest(r)]_vars
  BY <1>1
<1> QED BY <1>2, Invariance, OvertakenInvariance, PTL DEF Spec, NoOutdatedSignIn

(* After a logout the session's id is never good for anything again, and   *)
(* an id that is handed out comes with nobody signed in.                   *)
THEOREM LogoutIsFinal == Spec => LogoutLasts
<1>1. ASSUME GInv, [Next]_vars, NEW s \in stored' \ stored
      PROVE  s \notin drawn /\ session'[s].user = None
  <2>1. TypeOK /\ \A t \in Sid \ drawn : session[t].user = None
    BY <1>1 DEF GInv, UndrawnAreUnused
  <2>2. ASSUME NEW t \in Sid, GetSession(t), session' = session
        PROVE  s \notin drawn /\ session'[s].user = None
    BY <1>1, <2>1, <2>2 DEF GetSession
  <2>3. CASE Look
    BY <2>2, <2>3 DEF Look
  <2>4. CASE \E t \in Sid : Logout(t)
    BY <1>1, <2>4 DEF Logout
  <2>5. CASE \E r \in Request : \E f \in Flow : StartLogin(r, f)
    BY <2>2, <2>5 DEF StartLogin
  <2>6. CASE \E r \in Request : \E query \in asked : HandleCallback(r, query)
    BY <2>2, <2>6 DEF HandleCallback
  <2>7. CASE \E r \in Request : Proceeds(r)
    <3>1. ASSUME NEW r \in Request, NEW x \in proc[r].left,
                 LoginWrites(r, x) \/ LoginReads(r, x) \/ CallbackReads(r, x) \/ CallbackWrites(r, x)
          PROVE  stored' = stored
      BY <3>1 DEF LoginWrites, LoginReads, CallbackReads, CallbackWrites, StoredAfter
    <3>2. ASSUME NEW r \in Request, Obtains(r) \/ ObtainsNothing(r) \/ ChecksNonce(r) \/ Torn(r)
          PROVE  stored' = stored
      BY <3>2 DEF Obtains, ObtainsNothing, ChecksNonce, Torn
    <3> QED BY <1>1, <2>7, <3>1, <3>2 DEF Proceeds
  <2>8. CASE UNCHANGED vars
    BY <1>1, <2>8 DEF vars
  <2> QED BY <1>1, <2>3, <2>4, <2>5, <2>6, <2>7, <2>8 DEF Next
<1>2. (GInv /\ [Next]_vars)
        => [\A s \in stored' \ stored : s \notin drawn /\ session'[s].user = None]_vars
  BY <1>1
<1> QED BY <1>2, Invariance, PTL DEF Spec, LogoutLasts

(* Of all that can go wrong between the accesses of concurrent requests,   *)
(* only a write for another attempt makes the checks refuse one that has   *)
(* not passed yet.                                                         *)
THEOREM OnlyOthersSpoil == Spec => UndisturbedIsNotRefused
<1> DEFINE Refused(r) == LET n == proc[r].own IN
       /\ proc[r].pc \in {"opening", "checking"} /\ proc'[r].pc = "idle"
       /\ n \in Attempts /\ proc[r].req.state = n /\ attempt[n].sid = proc[r].sid
       => IsDisturbed(n) \/ n \in passed
<1>1. ASSUME GInv, [Next]_vars, NEW r \in Request PROVE Refused(r)
  <2>0. PICK n, s : n = proc[r].own /\ s = proc[r].sid
    OBVIOUS
  <2> SUFFICES ASSUME proc[r].pc \in {"opening", "checking"}, proc'[r].pc = "idle",
                      n \in Attempts, proc[r].req.state = n, attempt[n].sid = s,
                      ~IsDisturbed(n), n \notin passed
               PROVE  FALSE
    BY <2>0
  <2>1. n \notin Spoilt /\ n # None
    BY <1>1, AttemptsAre DEF IsDisturbed, Spoilt, GInv
  <2>2. CallsBack(r) /\ ~LogsIn(r) /\ s \in Sid /\ n = proc[r].req.nonce /\ TypeOK
        /\ proc[r] \in Goroutine
    BY <1>1, <2>0, AtWork DEF CallsBack, LogsIn, CallbackPC, GInv, CallbacksBelong
  <2>3. n \in written /\ session[s].state = n /\ session[s].nonce = n /\ session[s].flow # None
    BY <1>1, <2>0, <2>1, <2>2, UndisturbedIsRead
  <2>4. Proceeds(r)
    BY <1>1, MovesItself
  <2>5. ASSUME NEW x \in proc[r].left, CallbackReads(r, x) PROVE FALSE
    <3> DEFINE new == [proc[r] EXCEPT ![x] = session[s][x]]
               then == [new EXCEPT !.pc = "awaiting", !.left = {}]
    <3>1. proc[r].pc = "opening" /\ proc[r].left \subseteq {"flow", "state"}
      BY <1>1, <2>2, <2>5 DEF CallbackReads, GInv, CallbacksBelong
    <3>2. session[s]["flow"] = session[s].flow /\ session[s]["state"] = session[s].state
          /\ session[s].flow \in Maybe(Flow) /\ session[s].state \in Maybe(Number)
      BY <2>2, ByName
    <3>3. /\ new \in Goroutine /\ new.pc = "opening" /\ new.req = proc[r].req
          /\ new.left = proc[r].left
          /\ new.flow = (IF x = "flow" THEN session[s].flow ELSE proc[r].flow)
          /\ new.state = (IF x = "state" THEN session[s].state ELSE proc[r].state)
      <4>1. CASE x = "flow" BY <2>2, <3>1, <3>2, <4>1 DEF Goroutine
      <4>2. CASE x = "state" BY <2>2, <3>1, <3>2, <4>2 DEF Goroutine
      <4> QED BY <3>1, <4>1, <4>2
    <3>4. then \in Goroutine /\ then.pc = "awaiting"
      <4> HIDE DEF new
      <4> QED BY <3>3 DEF Goroutine, PC
    <3>5. \/ proc[r].left = {x} /\ ~StateMatches(new)
          \/ Accessed(r, x, new, then)
      BY <2>0, <2>5 DEF CallbackReads
    <3> HIDE DEF new, then
    <3>6. ~Accessed(r, x, new, then)
      <4> SUFFICES ASSUME Accessed(r, x, new, then) PROVE FALSE
        OBVIOUS
      <4>1. /\ proc[r].left = {x} => proc'[r] = then
            /\ proc[r].left # {x} => proc'[r].pc = new.pc
        BY <2>2, <3>3, <3>4, AccessedIs
      <4> QED BY <3>3, <3>4, <4>1
    <3>7. new.flow # None /\ new.state = n
      <4>1. /\ "flow" \in proc[r].left \/ proc[r].flow # None
            /\ "state" \in proc[r].left \/ proc[r].state = n
        BY <1>1, <2>0, <2>1, <3>1 DEF GInv, CallbacksRead
      <4> QED BY <2>3, <3>1, <3>3, <3>5, <3>6, <4>1
    <3> QED BY <3>3, <3>5, <3>6, <3>7 DEF StateMatches
  <2>6. ~ChecksNonce(r)
    <3> SUFFICES ASSUME ChecksNonce(r) PROVE FALSE
      OBVIOUS
    <3>1. NonceMatches(r)
      BY <2>0, <2>2, <2>3 DEF NonceMatches
    <3>2. proc'[r].pc = "signing"
      BY <2>2, <3>1 DEF ChecksNonce, TypeOK, Goroutine
    <3> QED BY <3>2
  <2>7. ~Torn(r)
    <3> SUFFICES ASSUME Torn(r) PROVE FALSE
      OBVIOUS
    <3>1. PICK q \in Request \ {r} : proc[q].pc \in {"starting", "signing"} /\ proc[q].sid = s
      BY <2>0 DEF Torn, BeingWritten
    <3>2. proc[q].own = n
      BY <3>1 DEF IsDisturbed
    <3>3. proc[q].pc = "starting" => Starting(n)
      BY <3>2 DEF Starting
    <3>4. proc[q].pc # "starting"
      BY <1>1, <2>3, <3>3 DEF GInv, WrittenAreOver
    <3> QED BY <1>1, <2>1, <3>1, <3>2, <3>4 DEF GInv, PassedAreSpent
  <2> QED BY <2>4, <2>5, <2>6, <2>7 DEF Proceeds, LoginWrites, LoginReads, CallbackWrites, Obtains,
             ObtainsNothing
<1>2. (GInv /\ [Next]_vars) => [\A r \in Request : Refused(r)]_vars
  BY <1>1
<1> QED BY <1>2, Invariance, PTL DEF Spec, UndisturbedIsNotRefused
=============================================================================
