----------------------------- MODULE LoginWebapp ----------------------------
(***************************************************************************)
(* The sign-in demo examples/login-webapp/src/server.ts: an OpenID code    *)
(* flow whose state, nonce and provider live in an in-memory session that  *)
(* all tabs of a browser share.                                            *)
(*                                                                         *)
(* A handler runs up to its first await in one stretch; a callback awaits  *)
(* the token exchange and the validation, and keeps its reference to the   *)
(* session object over both, whatever other tabs do to the session or to   *)
(* the store meanwhile.  Responses reach the browser later than they are   *)
(* sent, so a cookie may be replaced out of order.                         *)
(*                                                                         *)
(* A login attempt is a number, which also stands for the random state and *)
(* nonce drawn for it; the user a token names is the attempt it was issued *)
(* for.                                                                    *)
(***************************************************************************)
EXTENDS Naturals, Sequences

CONSTANTS Browser, Flow,
          Sid,        \* session ids, of which each is drawn once
          MaxAttempt, \* bound on login attempts
          Callback,   \* callbacks that can be on their way at once
          None

VARIABLES stored,     \* sessions: the ids in the map
          session,    \* the session objects, stored or not
          drawn,      \* ids drawn so far
          cookie,     \* [Browser -> its sid cookie]
          setCookie,  \* Set-Cookie headers on their way: <<browser, sid>>
          attempt,    \* the login attempts made, in order
          call,       \* [Callback -> the callback request it stands for]
          completed   \* history: attempts that signed someone in

vars == <<stored, session, drawn, cookie, setCookie, attempt, call, completed>>

Number  == 1 .. MaxAttempt
Session == [state : Number \cup {None}, nonce : Number \cup {None},
            flow : Flow \cup {None}, user : Number \cup {None}]
Attempt == [browser : Browser, sid : Sid, flow : Flow]
(* n: the attempt whose state the callback carries.  refused: by the state *)
(* or the nonce check, rather than by the provider.                        *)
Call    == [pc : {"idle", "exchanging", "validating", "validated"}, n : Number \cup {None},
            sid : Sid \cup {None}, flow : Flow \cup {None}, refused : BOOLEAN]

ASSUME WebappAssumption == MaxAttempt \in Nat /\ None \notin Sid \cup Flow \cup Nat

Blank == [state |-> None, nonce |-> None, flow |-> None, user |-> None]
Idle  == [pc |-> "idle", n |-> None, sid |-> None, flow |-> None, refused |-> FALSE]

Attempts   == DOMAIN attempt
Newest(s)  == {n \in Attempts : attempt[n].sid = s /\
                 \A m \in Attempts : attempt[m].sid = s => m <= n}

(* A session's state, nonce and flow are set and cleared together.         *)
TypeOK ==
  /\ stored \subseteq drawn /\ drawn \subseteq Sid
  /\ session \in [Sid -> Session]
  /\ \A s \in Sid : session[s].state = session[s].nonce
                  /\ (session[s].flow = None <=> session[s].state = None)
  /\ cookie \in [Browser -> Sid \cup {None}]
  /\ setCookie \subseteq Browser \X (Sid \cup {None})
  /\ attempt \in Seq(Attempt) /\ Len(attempt) <= MaxAttempt
  /\ call \in [Callback -> Call]
  /\ completed \subseteq Number

Init ==
  /\ stored = {} /\ drawn = {}
  /\ session = [s \in Sid |-> Blank]
  /\ cookie = [b \in Browser |-> None]
  /\ setCookie = {}
  /\ attempt = <<>>
  /\ call = [c \in Callback |-> Idle]
  /\ completed = {}
-----------------------------------------------------------------------------
(* getSession(): the stored session of the cookie, or a new one, whose id  *)
(* goes back in a Set-Cookie header.                                       *)
GetSession(b, s) ==
  \/ /\ cookie[b] \in stored
     /\ s = cookie[b]
     /\ UNCHANGED <<stored, drawn, setCookie>>
  \/ /\ cookie[b] \notin stored
     /\ s \in Sid \ drawn
     /\ drawn' = drawn \cup {s}
     /\ stored' = stored \cup {s}
     /\ setCookie' = setCookie \cup {<<b, s>>}

(* The home page and /api/me read the session and no more. *)
Read(b) ==
  /\ \E s \in Sid : GetSession(b, s)
  /\ UNCHANGED <<session, cookie, attempt, call, completed>>

Started(s, n, f) == [session[s] EXCEPT !.state = n, !.nonce = n, !.flow = f]

StartLogin(b, f) ==
  /\ Len(attempt) < MaxAttempt
  /\ \E s \in Sid :
       /\ GetSession(b, s)
       /\ session' = [session EXCEPT ![s] = Started(s, Len(attempt) + 1, f)]
       /\ attempt' = Append(attempt, [browser |-> b, sid |-> s, flow |-> f])
  /\ UNCHANGED <<cookie, call, completed>>

(* The state check; NoStateCheck leaves it to the nonce check.  The flow   *)
(* is recorded with the state.                                             *)
NoStateCheck(s, n) == session[s].flow # None
StateMatches(s, n) == session[s].flow # None /\ session[s].state = n

(* The provider sends the browser back, perhaps more than once: the page   *)
(* may be loaded again.  Its cookie of the moment comes with it.           *)
HandleCallback(c, n) ==
  /\ call[c].pc = "idle"
  /\ LET b == attempt[n].browser IN
       /\ <<b, attempt[n].sid>> \notin setCookie
       /\ \E s \in Sid :
            /\ GetSession(b, s)
            /\ call' = [call EXCEPT ![c] =
                 IF StateMatches(s, n)
                 THEN [pc |-> "exchanging", n |-> n, sid |-> s,
                       flow |-> session[s].flow, refused |-> FALSE]
                 ELSE [pc |-> "idle", n |-> n, sid |-> s, flow |-> None, refused |-> TRUE]]
  /\ UNCHANGED <<session, cookie, attempt, completed>>

(* The provider reports an error instead of a code: nothing is changed but *)
(* perhaps the store.                                                      *)
CallbackWithError(n) ==
  /\ \E s \in Sid : GetSession(attempt[n].browser, s)
  /\ UNCHANGED <<session, cookie, attempt, call, completed>>

(* A failure goes to the error handler, which answers the request;         *)
(* TriesAgain would go back to the exchange.                               *)
TriesAgain(c) == [call[c] EXCEPT !.pc = "exchanging"]
Failed(c) == Idle

(* The token exchange, and then the validation, succeed or fail; a failure *)
(* leaves the session as it is.                                            *)
Settles(c, from, to) ==
  /\ call[c].pc = from
  /\ \/ call' = [call EXCEPT ![c].pc = to]
     \/ call' = [call EXCEPT ![c] = Failed(c)]
  /\ UNCHANGED <<stored, session, drawn, cookie, setCookie, attempt, completed>>

Exchanged(c) == Settles(c, "exchanging", "validating")
Validated(c) == Settles(c, "validating", "validated")

(* The nonce check; NoNonceCheck would sign in whoever validated.          *)
NoNonceCheck(c) == TRUE
NonceMatches(c) == session[call[c].sid].nonce = call[c].n

(* What a completed attempt leaves behind; KeepsAttempt lets the callback  *)
(* be repeated, KeepsFlow clears the secrets only.                         *)
KeepsAttempt(s, n) == [session[s] EXCEPT !.user = n]
KeepsFlow(s, n) == [session[s] EXCEPT !.state = None, !.nonce = None, !.user = n]
SignedIn(s, n) == [state |-> None, nonce |-> None, flow |-> None, user |-> n]

(* A refused callback leaves the session alone; ForgetsAttempt would clear *)
(* it, and with it the attempt of another tab.                             *)
ForgetsAttempt(s) == [session[s] EXCEPT !.state = None, !.nonce = None, !.flow = None]
AfterRefusal(s) == session[s]

(* The sign-in writes to the session object and not to the store;          *)
(* StoresAgain would save the session under its id.                        *)
StoresAgain(s) == stored \cup {s}
StoredAfter(s) == stored

Complete(c) ==
  /\ call[c].pc = "validated"
  /\ LET s == call[c].sid
         n == call[c].n
     IN \/ /\ NonceMatches(c)
           /\ session' = [session EXCEPT ![s] = SignedIn(s, n)]
           /\ completed' = completed \cup {n}
           /\ stored' = StoredAfter(s)
           /\ call' = [call EXCEPT ![c] = Idle]
        \/ /\ ~NonceMatches(c)
           /\ session' = [session EXCEPT ![s] = AfterRefusal(s)]
           /\ call' = [call EXCEPT ![c].pc = "idle", ![c].refused = TRUE]
           /\ UNCHANGED <<stored, completed>>
  /\ UNCHANGED <<drawn, cookie, setCookie, attempt>>

(* Logout drops the cookie's session from the store and clears the cookie. *)
Logout(b) ==
  /\ stored' = stored \ {cookie[b]}
  /\ setCookie' = setCookie \cup {<<b, None>>}
  /\ UNCHANGED <<session, drawn, cookie, attempt, call, completed>>

(* A Set-Cookie header arrives, in any order. *)
CookieArrives(b, s) ==
  /\ <<b, s>> \in setCookie
  /\ setCookie' = setCookie \ {<<b, s>>}
  /\ cookie' = [cookie EXCEPT ![b] = s]
  /\ UNCHANGED <<stored, session, drawn, attempt, call, completed>>

Proceeds(c) == Exchanged(c) \/ Validated(c) \/ Complete(c)

Next ==
  \/ \E b \in Browser : Read(b) \/ Logout(b) \/ (\E f \in Flow : StartLogin(b, f))
  \/ \E b \in Browser, s \in Sid \cup {None} : CookieArrives(b, s)
  \/ \E c \in Callback : Proceeds(c) \/ (\E n \in Attempts : HandleCallback(c, n))
  \/ \E n \in Attempts : CallbackWithError(n)

Spec == Init /\ [][Next]_vars

(* The exchange and the validation settle, and the event loop goes on. *)
FairSpec == Spec /\ \A c \in Callback : WF_vars(Proceeds(c))
-----------------------------------------------------------------------------
(* A session's user comes from the newest attempt of that very session:    *)
(* neither a slow callback of an older attempt nor an attempt of another   *)
(* session can sign in over it ("Bind the validated token to this login    *)
(* attempt", line 177).                                                    *)
OnlyNewestSignsIn ==
  [][\A s \in Sid : session'[s].user # session[s].user => session'[s].user \in Newest(s)]_vars

(* An attempt signs in once, however often its callback is loaded and      *)
(* however many of them run at the same time.                              *)
SignsInOnce ==
  [][\A c \in Callback : call[c].pc = "validated" /\ call'[c].pc = "idle"
       /\ call[c].n \in completed => call'[c].refused]_vars

(* The code of an attempt goes to the provider that issued it.             *)
CodeGoesToItsProvider ==
  \A c \in Callback : call[c].pc = "exchanging" => call[c].flow = attempt[call[c].n].flow

(* The other tabs cannot spoil the newest attempt of a session: its own    *)
(* callback is refused only if it has signed in before.                    *)
NewestIsNotRefused ==
  [][\A c \in Callback : call'[c].refused /\ call'[c] # call[c]
       /\ call'[c].sid # None /\ call'[c].n \in Newest(call'[c].sid)
       => call'[c].n \in completed]_vars

(* A callback that was under way at the logout does not undo it: a session *)
(* that left the store never comes back, and one that enters it is empty.  *)
LogoutLasts ==
  [][\A s \in stored' \ stored : s \notin drawn /\ session'[s].user = None]_vars

(* Every callback ends. *)
EveryCallbackEnds == \A c \in Callback : call[c].pc # "idle" ~> call[c].pc = "idle"
=============================================================================
