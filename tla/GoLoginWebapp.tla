---------------------------- MODULE GoLoginWebapp ---------------------------
(***************************************************************************)
(* The Go twin of the sign-in demo, packages/go/examples/login-webapp.     *)
(*                                                                         *)
(* Every request runs in a goroutine of its own.  sessMu guards the map of *)
(* sessions and nothing else: the fields of a session are read and written *)
(* one by one, without a lock, by all the requests that hold it.  These    *)
(* are data races: the accesses of one goroutine between two calls may     *)
(* take effect in any order, a goroutine may see its own write after       *)
(* another one's, and a string read while it is written may be torn, which *)
(* names no provider, matches nothing or stops the handler with a panic.   *)
(*                                                                         *)
(* The cookie of a request is any id that was ever handed out, or none:    *)
(* browsers hold older and newer ones.  A login attempt is a number, which *)
(* stands for its state, its nonce and the user its token names.  A query  *)
(* may be built from fields that a callback has cleared: its nonce is None *)
(* then, its token carries no nonce and names user 0.                      *)
(***************************************************************************)
EXTENDS Naturals, Sequences

CONSTANTS Flow, Sid,
          MaxAttempt, \* bound on login attempts
          Request,    \* requests that can run at once
          None

VARIABLES stored,     \* sessions: the ids in the map
          drawn,      \* ids drawn so far
          session,    \* the session objects, stored or not
          attempt,    \* the login attempts made, in order
          asked,      \* the queries the provider was sent, by which login
          proc,       \* [Request -> what its goroutine is doing]
          written,    \* history: attempts whose login has written the session
          disturbed,  \* history: those that overlapped an older login of their session,
                      \* or whose session another attempt has written to since
          overtaken,  \* history: attempts during whose login a sign-in wrote to
                      \* their session
          passed,     \* history: attempts whose nonce passed the check
          signedIn    \* history: queries whose callback has passed and finished

vars == <<stored, drawn, session, attempt, asked, proc, written, disturbed, overtaken,
          passed, signedIn>>

Number  == 1 .. MaxAttempt
Maybe(S) == S \cup {None}
Session == [state : Maybe(Number), nonce : Maybe(Number),
            flow : Maybe(Flow), user : Maybe(0 .. MaxAttempt)]
(* after: the attempts whose login had finished when this one began. *)
Attempt == [sid : Sid, flow : Flow, after : SUBSET Number]
Asked   == [of : Maybe(Number), flow : Maybe(Flow), state : Maybe(Number),
            nonce : Maybe(Number)]
PC      == {"idle", "starting", "redirecting", "opening", "awaiting", "checking", "signing"}

(* left: fields still to be read or written.  own: the attempt worked for, *)
(* in a callback the one whose nonce the token carries, None if it carries *)
(* none.  req: the query sent to the provider, or the one that comes back. *)
(* flow, state: what a callback read.                                      *)
Goroutine == [pc : PC, sid : Maybe(Sid), left : SUBSET {"state", "nonce", "flow", "user"},
              own : Maybe(Number), req : Asked, flow : Maybe(Flow), state : Maybe(Number)]

ASSUME GoWebappAssumption == MaxAttempt \in Nat /\ None \notin Sid \cup Flow \cup Nat

Blank == [state |-> None, nonce |-> None, flow |-> None, user |-> None]
NoReq == [of |-> None, flow |-> None, state |-> None, nonce |-> None]
Idle  == [pc |-> "idle", sid |-> None, left |-> {}, own |-> None, req |-> NoReq,
          flow |-> None, state |-> None]

Attempts == DOMAIN attempt

TypeOK ==
  /\ stored \subseteq drawn /\ drawn \subseteq Sid
  /\ session \in [Sid -> Session]
  /\ attempt \in Seq(Attempt) /\ Len(attempt) <= MaxAttempt
  /\ asked \subseteq Asked
  /\ proc \in [Request -> Goroutine]
  /\ signedIn \subseteq asked
  /\ written \cup disturbed \cup overtaken \cup passed \subseteq Attempts

Init ==
  /\ stored = {} /\ drawn = {}
  /\ session = [s \in Sid |-> Blank]
  /\ attempt = <<>>
  /\ asked = {}
  /\ proc = [r \in Request |-> Idle]
  /\ written = {} /\ disturbed = {} /\ overtaken = {} /\ passed = {} /\ signedIn = {}
-----------------------------------------------------------------------------
(* getSession, under the lock: the session of the cookie, or a new one     *)
(* under an id drawn for it.  AdoptsCookie would keep an unknown cookie.   *)
AdoptsCookie(s) == stored' = stored \cup {s} /\ UNCHANGED drawn
GetSession(s) ==
  \/ s \in stored /\ UNCHANGED <<stored, drawn>>
  \/ /\ s \in Sid \ drawn
     /\ drawn' = drawn \cup {s}
     /\ stored' = stored \cup {s}

(* The home page, /api/me and a callback with an error only look. *)
Look ==
  /\ \E s \in Sid : GetSession(s)
  /\ UNCHANGED <<session, attempt, asked, proc, written, disturbed, overtaken, passed, signedIn>>

(* handleLogout: whatever other requests do with the session object. *)
Logout(s) ==
  /\ s \in stored
  /\ stored' = stored \ {s}
  /\ UNCHANGED <<drawn, session, attempt, asked, proc, written, disturbed, overtaken, passed,
                 signedIn>>

LogsIn(r) == proc[r].pc \in {"starting", "redirecting"}

(* A write for one attempt disturbs the others of the session. *)
Disturbs(r) ==
  disturbed' = disturbed \cup
    ({n \in Attempts : attempt[n].sid = proc[r].sid} \ {proc[r].own})

(* A sign-in overtakes the logins of its session that are under way. *)
Overtakes(r) ==
  overtaken' = overtaken \cup
    {proc[q].own : q \in {q \in Request : LogsIn(q) /\ proc[q].sid = proc[r].sid}}

(* Access x is done; when it was the last one, then goes to the next stage. *)
Accessed(r, x, new, then) ==
  proc' = [proc EXCEPT ![r] = IF proc[r].left = {x} THEN then
                              ELSE [new EXCEPT !.left = @ \ {x}]]
-----------------------------------------------------------------------------
(* startLogin: three writes, then the query is built from two reads. *)
LoginUnderWay(s) == \E r \in Request : LogsIn(r) /\ proc[r].sid = s

StartLogin(r, f) ==
  /\ proc[r].pc = "idle"
  /\ Len(attempt) < MaxAttempt
  /\ \E s \in Sid :
       /\ GetSession(s)
       /\ attempt' = Append(attempt, [sid |-> s, flow |-> f, after |-> written])
       /\ proc' = [proc EXCEPT ![r] =
            [Idle EXCEPT !.pc = "starting", !.sid = s, !.left = {"state", "nonce", "flow"},
                         !.own = Len(attempt) + 1,
                         !.req = [NoReq EXCEPT !.of = Len(attempt) + 1, !.flow = f]]]
       /\ disturbed' = IF LoginUnderWay(s) THEN disturbed \cup {Len(attempt) + 1}
                       ELSE disturbed
  /\ UNCHANGED <<session, asked, written, overtaken, passed, signedIn>>

LoginWrites(r, x) ==
  /\ proc[r].pc = "starting" /\ x \in proc[r].left
  /\ session' = [session EXCEPT ![proc[r].sid][x] =
                   IF x = "flow" THEN proc[r].req.flow ELSE proc[r].own]
  /\ Disturbs(r)
  /\ Accessed(r, x, proc[r],
       [proc[r] EXCEPT !.pc = "redirecting", !.left = {"state", "nonce"}])
  /\ written' = IF proc[r].left = {x} THEN written \cup {proc[r].own} ELSE written
  /\ UNCHANGED <<stored, drawn, attempt, asked, overtaken, passed, signedIn>>

(* What it reads back may be another login's by now. *)
LoginReads(r, x) ==
  /\ proc[r].pc = "redirecting" /\ x \in proc[r].left
  /\ \E v \in {proc[r].own, session[proc[r].sid][x]} :
       LET query == [proc[r].req EXCEPT ![x] = v] IN
         /\ Accessed(r, x, [proc[r] EXCEPT !.req = query], Idle)
         /\ asked' = IF proc[r].left = {x} THEN asked \cup {query} ELSE asked
  /\ UNCHANGED <<stored, drawn, session, attempt, written, disturbed, overtaken, passed, signedIn>>
-----------------------------------------------------------------------------
(* handleCallback: the provider sends the browser back, perhaps more than  *)
(* once, with the state it was sent and a code for a token with the nonce. *)
HandleCallback(r, query) ==
  /\ proc[r].pc = "idle"
  /\ query \in asked
  /\ \E s \in Sid :
       /\ GetSession(s)
       /\ proc' = [proc EXCEPT ![r] =
            [Idle EXCEPT !.pc = "opening", !.sid = s, !.left = {"flow", "state"},
                         !.own = query.nonce, !.req = query]]
  /\ UNCHANGED <<session, attempt, asked, written, disturbed, overtaken, passed, signedIn>>

StateMatches(p) == p.flow # None /\ p.state = p.req.state

(* AfterRefusal is what a refused callback does to the session: nothing.   *)
(* ForgetsAttempt would clear the fields.                                  *)
ForgetsAttempt(s) == [Blank EXCEPT !.user = session[s].user]
AfterRefusal(s) == session[s]

Refuses(r) ==
  /\ session' = [session EXCEPT ![proc[r].sid] = AfterRefusal(proc[r].sid)]
  /\ proc' = [proc EXCEPT ![r] = Idle]

CallbackReads(r, x) ==
  /\ proc[r].pc = "opening" /\ x \in proc[r].left
  /\ LET new == [proc[r] EXCEPT ![x] = session[proc[r].sid][x]] IN
       \/ /\ proc[r].left # {x} \/ StateMatches(new)
          /\ Accessed(r, x, new, [new EXCEPT !.pc = "awaiting", !.left = {}])
          /\ UNCHANGED session
       \/ /\ proc[r].left = {x} /\ ~StateMatches(new)
          /\ Refuses(r)
  /\ UNCHANGED <<stored, drawn, attempt, asked, written, disturbed, overtaken, passed, signedIn>>

(* The exchange and the validation: a provider honours only its own codes. *)
Obtains(r) ==
  /\ proc[r].pc = "awaiting"
  /\ proc[r].flow = proc[r].req.flow
  /\ proc' = [proc EXCEPT ![r].pc = "checking"]
  /\ UNCHANGED <<stored, drawn, session, attempt, asked, written, disturbed, overtaken, passed,
                 signedIn>>

(* Either fails, for whatever reason, and the session stays as it is. *)
ObtainsNothing(r) ==
  /\ proc[r].pc = "awaiting"
  /\ proc' = [proc EXCEPT ![r] = Idle]
  /\ UNCHANGED <<stored, drawn, session, attempt, asked, written, disturbed, overtaken, passed,
                 signedIn>>

NoNonceCheck(r) == TRUE
NonceMatches(r) == session[proc[r].sid].nonce = proc[r].req.nonce

ChecksNonce(r) ==
  /\ proc[r].pc = "checking"
  /\ \/ /\ NonceMatches(r)
        /\ proc' = [proc EXCEPT ![r].pc = "signing", ![r].left = DOMAIN Blank]
        /\ passed' = passed \cup ({proc[r].own} \ {None})
        /\ UNCHANGED session
     \/ /\ ~NonceMatches(r)
        /\ Refuses(r)
        /\ UNCHANGED passed
  /\ UNCHANGED <<stored, drawn, attempt, asked, written, disturbed, overtaken, signedIn>>

(* The four writes of a sign-in: the user, and nothing in the other fields. *)
(* KeepsNonce would leave the nonce.  The map is not written to;           *)
(* StoresAgain would save the session under its id.                        *)
UserOf(nonce) == IF nonce = None THEN 0 ELSE nonce

KeepsNonce(r, x) == IF x = "user" THEN UserOf(proc[r].req.nonce)
                    ELSE IF x = "nonce" THEN session[proc[r].sid].nonce ELSE None
SignedIn(r, x) == IF x = "user" THEN UserOf(proc[r].req.nonce) ELSE None

StoresAgain(s) == stored \cup {s}
StoredAfter(s) == stored

CallbackWrites(r, x) ==
  /\ proc[r].pc = "signing" /\ x \in proc[r].left
  /\ session' = [session EXCEPT ![proc[r].sid][x] = SignedIn(r, x)]
  /\ Disturbs(r)
  /\ Overtakes(r)
  /\ Accessed(r, x, proc[r], Idle)
  /\ stored' = StoredAfter(proc[r].sid)
  /\ signedIn' = IF proc[r].left = {x} THEN signedIn \cup {proc[r].req} ELSE signedIn
  /\ UNCHANGED <<drawn, attempt, asked, written, passed>>
-----------------------------------------------------------------------------
(* Another goroutine is about to write, or is writing, field x of s. *)
BeingWritten(r, s, x) ==
  \E q \in Request \ {r} :
    proc[q].pc \in {"starting", "signing"} /\ proc[q].sid = s /\ x \in proc[q].left

(* A torn read: the request ends there. *)
Torn(r) ==
  /\ \E x \in {"state", "nonce", "flow"} :
       /\ \/ proc[r].pc \in {"redirecting", "opening"} /\ x \in proc[r].left
          \/ proc[r].pc = "checking" /\ x = "nonce"
       /\ BeingWritten(r, proc[r].sid, x)
  /\ proc' = [proc EXCEPT ![r] = Idle]
  /\ UNCHANGED <<stored, drawn, session, attempt, asked, written, disturbed, overtaken, passed,
                 signedIn>>

Proceeds(r) ==
  \/ \E x \in proc[r].left :
       LoginWrites(r, x) \/ LoginReads(r, x) \/ CallbackReads(r, x) \/ CallbackWrites(r, x)
  \/ Obtains(r) \/ ObtainsNothing(r)
  \/ ChecksNonce(r)
  \/ Torn(r)

Next ==
  \/ Look
  \/ \E s \in Sid : Logout(s)
  \/ \E r \in Request :
       \/ \E f \in Flow : StartLogin(r, f)
       \/ \E query \in asked : HandleCallback(r, query)
       \/ Proceeds(r)

Spec == Init /\ [][Next]_vars
-----------------------------------------------------------------------------
Passes(r) == proc[r].pc = "checking" /\ proc'[r].pc = "signing"

(* An attempt is outdated once a later login of its session, one that      *)
(* began when the attempt's own login was over, has been written.          *)
Outdated(n) ==
  \E m \in written : n \in attempt[m].after /\ attempt[m].sid = attempt[n].sid

(* The token carries no nonce, which the check takes for the nonce of a    *)
(* session that expects none (main.go line 276 compares "" with "").  Its  *)
(* query was built by a login that a sign-in of the session overtook.      *)
Unbound(r) == proc[r].own = None /\ proc[r].req.of \in overtaken

(* No outdated attempt passes the nonce check, whichever logins and        *)
(* callbacks of the session overlapped: of a callback that waited for the  *)
(* provider, the check sees logins made meanwhile.  Only a token without a *)
(* nonce gets through, and only a login that a sign-in overtook makes one. *)
NoOutdatedSignIn ==
  [][\A r \in Request : Passes(r) =>
       Unbound(r) \/ (proc[r].own # None /\ ~Outdated(proc[r].own))]_vars

(* Once a callback has finished, no other callback with the nonce of its   *)
(* attempt passes, with the same exception.                                *)
NoReplayAfterSignIn ==
  [][\A r \in Request : Passes(r) =>
       Unbound(r) \/ (proc[r].own # None
                         /\ \A query \in signedIn : query.nonce # proc[r].own)]_vars

(* "Bind the validated token to this login attempt (replay defense)"       *)
(* (main.go line 275): once a callback of a login has finished, no other   *)
(* callback of the login passes.                                           *)
SignsInOnce == [][\A r \in Request : Passes(r) => proc[r].req \notin signedIn]_vars

(* Another attempt writes, or wrote, to the session since n began. *)
IsDisturbed(n) ==
  n \in disturbed \/ \E q \in Request :
    proc[q].pc \in {"starting", "signing"} /\ proc[q].sid = attempt[n].sid /\ proc[q].own # n

(* A login that nobody disturbed is let through by both checks, unless it  *)
(* has been already: neither refused callbacks nor torn reads of other     *)
(* tabs spoil it.                                                          *)
UndisturbedIsNotRefused ==
  [][\A r \in Request : LET n == proc[r].own IN
       /\ proc[r].pc \in {"opening", "checking"} /\ proc'[r].pc = "idle"
       /\ n \in Attempts /\ proc[r].req.state = n /\ attempt[n].sid = proc[r].sid
       => IsDisturbed(n) \/ n \in passed]_vars

(* A session that left the map never comes back, and one that enters it is *)
(* empty: a callback under way at the logout does not undo it.             *)
LogoutLasts ==
  [][\A s \in stored' \ stored : s \notin drawn /\ session'[s].user = None]_vars

(* "The provider is resolved from the session (recorded at login), not the *)
(* URL" (main.go lines 239-240): the code goes to whoever issued it.       *)
CodeGoesToItsProvider ==
  \A r \in Request : proc[r].pc = "awaiting" => proc[r].flow = proc[r].req.flow
=============================================================================
