------------------------- MODULE LoginWebapp_proofs -------------------------
(***************************************************************************)
(* Who can be signed in by the login webapp, for any number of browsers,   *)
(* providers, sessions, attempts and callbacks under way.                  *)
(***************************************************************************)
EXTENDS LoginWebapp, TLAPS

(* A callback that passed the state check belongs to the session in which  *)
(* its attempt was started, and to the provider of that attempt.           *)
Belongs(t) ==
  /\ t.n \in Attempts
  /\ t.sid = attempt[t.n].sid
  /\ t.flow = attempt[t.n].flow

CallsBelong == \A c \in Callback : call[c].pc # "idle" => Belongs(call[c])

(* The nonce a session expects is that of its newest attempt, and so is the *)
(* provider.                                                               *)
NonceIsNewest ==
  \A s \in Sid : session[s].nonce # None =>
    /\ session[s].nonce \in Newest(s)
    /\ session[s].flow = attempt[session[s].nonce].flow

(* No session expects the nonce of an attempt that has signed in. *)
CompletedAreSpent ==
  \A n \in completed : n \in Attempts /\ session[attempt[n].sid].nonce # n

(* A session that was never handed out has no attempts and no user. *)
UndrawnAreUnused ==
  /\ \A n \in Attempts : attempt[n].sid \in drawn
  /\ \A s \in Sid \ drawn : session[s].user = None

LoginInv ==
  TypeOK /\ CallsBelong /\ NonceIsNewest /\ CompletedAreSpent /\ UndrawnAreUnused

LEMMA AttemptsAre == ASSUME TypeOK PROVE Attempts = 1 .. Len(attempt)
  BY DEF TypeOK, Attempts

LEMMA AttemptsAreNumbers == ASSUME TypeOK PROVE Attempts \subseteq Number
<1>1. Len(attempt) \in Nat /\ Len(attempt) <= MaxAttempt BY DEF TypeOK
<1> QED BY <1>1, AttemptsAre, WebappAssumption DEF Number

LEMMA AttemptType == ASSUME TypeOK, NEW n \in Attempts PROVE attempt[n] \in Attempt
  BY DEF TypeOK, Attempts

LEMMA GetSessionType ==
  ASSUME TypeOK, NEW b \in Browser, NEW s \in Sid, GetSession(b, s)
  PROVE  /\ stored' \subseteq drawn' /\ drawn' \subseteq Sid
         /\ setCookie' \subseteq Browser \X (Sid \cup {None})
         /\ drawn \subseteq drawn' /\ s \in drawn'
  BY DEF TypeOK, GetSession

(* What another attempt changes about the attempts. *)
LEMMA OneMoreAttempt ==
  ASSUME TypeOK, NEW a \in Attempt, attempt' = Append(attempt, a)
  PROVE  /\ attempt' \in Seq(Attempt)
         /\ Len(attempt) \in Nat /\ Len(attempt') = Len(attempt) + 1
         /\ Attempts' = Attempts \cup {Len(attempt) + 1}
         /\ Len(attempt) + 1 \notin Attempts
         /\ \A n \in Attempts : n < Len(attempt) + 1 /\ attempt'[n] = attempt[n]
         /\ attempt'[Len(attempt) + 1] = a
<1>1. attempt \in Seq(Attempt) /\ Len(attempt) \in Nat BY DEF TypeOK
<1>2. /\ attempt' \in Seq(Attempt) /\ Len(attempt') = Len(attempt) + 1
      /\ attempt'[Len(attempt) + 1] = a
      /\ \A n \in 1 .. Len(attempt) : attempt'[n] = attempt[n]
  BY <1>1
<1>3. Attempts' = 1 .. Len(attempt') BY <1>2 DEF Attempts
<1>4. 1 .. (Len(attempt) + 1) = (1 .. Len(attempt)) \cup {Len(attempt) + 1}
  BY <1>1
<1> QED BY <1>1, <1>2, <1>3, <1>4, AttemptsAre

-----------------------------------------------------------------------------
(* Typing. *)

LEMMA CallType == ASSUME TypeOK, NEW c \in Callback PROVE call[c] \in Call
  BY DEF TypeOK

LEMMA StartLoginType ==
  ASSUME TypeOK, NEW b \in Browser, NEW f \in Flow, StartLogin(b, f)
  PROVE  TypeOK'
<1>1. PICK s \in Sid :
        /\ GetSession(b, s)
        /\ session' = [session EXCEPT ![s] = Started(s, Len(attempt) + 1, f)]
        /\ attempt' = Append(attempt, [browser |-> b, sid |-> s, flow |-> f])
  BY DEF StartLogin
<1>2. [browser |-> b, sid |-> s, flow |-> f] \in Attempt BY DEF Attempt
<1>3. attempt' \in Seq(Attempt) /\ Len(attempt) \in Nat /\ Len(attempt') = Len(attempt) + 1
  BY <1>1, <1>2, OneMoreAttempt
<1>4. Len(attempt) + 1 \in Number
  BY <1>3, WebappAssumption DEF StartLogin, Number
<1>5. f # None /\ Len(attempt) + 1 # None BY <1>3, WebappAssumption
<1>6. Started(s, Len(attempt) + 1, f) \in Session
  BY <1>4 DEF Started, TypeOK, Session
<1>7. session' \in [Sid -> Session] BY <1>1, <1>6 DEF TypeOK
<1>8. \A t \in Sid : session'[t].state = session'[t].nonce
                  /\ (session'[t].flow = None <=> session'[t].state = None)
  BY <1>1, <1>5, <1>6 DEF TypeOK, Started, Session
<1>9. Len(attempt') <= MaxAttempt
  BY <1>3, WebappAssumption DEF StartLogin
<1> QED BY <1>1, <1>3, <1>7, <1>8, <1>9, GetSessionType DEF StartLogin, TypeOK

LEMMA HandleCallbackType ==
  ASSUME TypeOK, NEW c \in Callback, NEW n \in Attempts, HandleCallback(c, n)
  PROVE  TypeOK'
<1>1. attempt[n].browser \in Browser BY AttemptType DEF Attempt
<1>2. PICK s \in Sid :
        /\ GetSession(attempt[n].browser, s)
        /\ call' = [call EXCEPT ![c] =
             IF StateMatches(s, n)
             THEN [pc |-> "exchanging", n |-> n, sid |-> s,
                   flow |-> session[s].flow, refused |-> FALSE]
             ELSE [pc |-> "idle", n |-> n, sid |-> s, flow |-> None, refused |-> TRUE]]
  BY DEF HandleCallback
<1>3. n \in Number BY AttemptsAreNumbers
<1>4. session[s].flow \in Flow \cup {None} BY DEF TypeOK, Session
<1>5. call' \in [Callback -> Call] BY <1>2, <1>3, <1>4 DEF TypeOK, Call
<1> QED BY <1>1, <1>2, <1>5, GetSessionType DEF HandleCallback, TypeOK

LEMMA SettlesType ==
  ASSUME TypeOK, NEW c \in Callback,
         NEW from, NEW to \in {"validating", "validated"}, Settles(c, from, to)
  PROVE  TypeOK'
<1>1. [call[c] EXCEPT !.pc = to] \in Call BY CallType DEF Call
<1>2. Idle \in Call BY DEF Idle, Call
<1>3. call' \in [Callback -> Call] BY <1>1, <1>2 DEF Settles, Failed, TypeOK
<1> QED BY <1>3 DEF Settles, TypeOK

LEMMA CompleteType ==
  ASSUME LoginInv, NEW c \in Callback, Complete(c)
  PROVE  TypeOK'
<1> DEFINE s == call[c].sid
           n == call[c].n
<1>1. TypeOK /\ call[c].pc = "validated" BY DEF LoginInv, Complete
<1>2. n \in Attempts /\ s = attempt[n].sid
  BY <1>1 DEF LoginInv, CallsBelong, Belongs
<1>3. n \in Number BY <1>1, <1>2, AttemptsAreNumbers
<1>4. s \in Sid BY <1>1, <1>2, AttemptType DEF Attempt
<1>5. SignedIn(s, n) \in Session BY <1>3 DEF SignedIn, Session
<1>6. Idle \in Call /\ [call[c] EXCEPT !.pc = "idle", !.refused = TRUE] \in Call
  BY <1>1, CallType DEF Idle, Call
<1>7. call' \in [Callback -> Call] BY <1>1, <1>6 DEF Complete, TypeOK
<1>8. session' \in [Sid -> Session] BY <1>1, <1>5 DEF Complete, TypeOK, AfterRefusal
<1>9. \A t \in Sid : session'[t].state = session'[t].nonce
                  /\ (session'[t].flow = None <=> session'[t].state = None)
  BY <1>1 DEF Complete, TypeOK, AfterRefusal, SignedIn
<1> QED BY <1>1, <1>3, <1>7, <1>8, <1>9 DEF Complete, StoredAfter, TypeOK

LEMMA TypeStep == ASSUME LoginInv, [Next]_vars PROVE TypeOK'
<1> USE DEF LoginInv
<1>1. ASSUME NEW b \in Browser, Read(b) PROVE TypeOK'
  BY <1>1, GetSessionType DEF Read, TypeOK
<1>2. ASSUME NEW b \in Browser, Logout(b) PROVE TypeOK'
  BY <1>2 DEF Logout, TypeOK
<1>3. ASSUME NEW b \in Browser, NEW f \in Flow, StartLogin(b, f) PROVE TypeOK'
  BY <1>3, StartLoginType
<1>4. ASSUME NEW b \in Browser, NEW s \in Sid \cup {None}, CookieArrives(b, s) PROVE TypeOK'
  BY <1>4 DEF CookieArrives, TypeOK
<1>5. ASSUME NEW c \in Callback, Exchanged(c) \/ Validated(c) PROVE TypeOK'
  BY <1>5, SettlesType DEF Exchanged, Validated
<1>6. ASSUME NEW c \in Callback, Complete(c) PROVE TypeOK'
  BY <1>6, CompleteType
<1>7. ASSUME NEW c \in Callback, NEW n \in Attempts, HandleCallback(c, n) PROVE TypeOK'
  BY <1>7, HandleCallbackType
<1>8. ASSUME NEW n \in Attempts, CallbackWithError(n) PROVE TypeOK'
  <2>1. attempt[n].browser \in Browser BY AttemptType DEF Attempt
  <2> QED BY <1>8, <2>1, GetSessionType DEF CallbackWithError, TypeOK
<1>9. CASE UNCHANGED vars BY <1>9 DEF vars, TypeOK
<1> QED BY <1>1, <1>2, <1>3, <1>4, <1>5, <1>6, <1>7, <1>8, <1>9 DEF Next, Proceeds
-----------------------------------------------------------------------------
(* The invariant. *)

(* A step that starts no attempt: what it must leave alone.                *)
LEMMA NoNewAttempt ==
  ASSUME LoginInv, TypeOK', UNCHANGED attempt, drawn \subseteq drawn',
         \A s \in Sid : session'[s].nonce # None =>
           session'[s].nonce = session[s].nonce /\ session'[s].flow = session[s].flow,
         \A s \in Sid \ drawn : session'[s].user = session[s].user,
         \A c \in Callback : call'[c].pc # "idle" =>
           Belongs(call'[c]) \/ (call[c].pc # "idle" /\ call'[c].n = call[c].n
                                /\ call'[c].sid = call[c].sid /\ call'[c].flow = call[c].flow),
         \A n \in completed' \ completed :
           n \in Attempts /\ session'[attempt[n].sid].nonce # n
  PROVE  LoginInv'
<1>1. Attempts' = Attempts BY DEF Attempts
<1>2. \A s : Newest(s)' = Newest(s) BY <1>1 DEF Newest
<1>3. CallsBelong' BY <1>1 DEF LoginInv, CallsBelong, Belongs
<1>4. NonceIsNewest' BY <1>2 DEF LoginInv, NonceIsNewest
<1>5. CompletedAreSpent'
  <2> SUFFICES ASSUME NEW n \in completed
               PROVE  n \in Attempts /\ session'[attempt[n].sid].nonce # n
    BY <1>1 DEF CompletedAreSpent
  <2>1. n \in Attempts /\ session[attempt[n].sid].nonce # n
    BY DEF LoginInv, CompletedAreSpent
  <2>2. attempt[n].sid \in Sid BY <2>1, AttemptType DEF LoginInv, Attempt
  <2>3. n # None
    BY <2>1, AttemptsAreNumbers, WebappAssumption DEF LoginInv, Number
  <2> QED BY <2>1, <2>2, <2>3
<1>6. UndrawnAreUnused' BY <1>1 DEF LoginInv, UndrawnAreUnused
<1> QED BY <1>3, <1>4, <1>5, <1>6 DEF LoginInv

(* The attempt that starts becomes the newest of its session, and of no    *)
(* other.                                                                  *)
LEMMA StartLoginInv ==
  ASSUME LoginInv, TypeOK', NEW b \in Browser, NEW f \in Flow, StartLogin(b, f)
  PROVE  LoginInv'
<1> DEFINE N == Len(attempt) + 1
<1>1. PICK s \in Sid :
        /\ GetSession(b, s)
        /\ session' = [session EXCEPT ![s] = Started(s, N, f)]
        /\ attempt' = Append(attempt, [browser |-> b, sid |-> s, flow |-> f])
  BY DEF StartLogin
<1>2. UNCHANGED <<call, completed>> BY DEF StartLogin
<1>3. [browser |-> b, sid |-> s, flow |-> f] \in Attempt BY DEF Attempt
<1>4. /\ Attempts' = Attempts \cup {N} /\ N \notin Attempts
      /\ \A n \in Attempts : n < N /\ attempt'[n] = attempt[n]
      /\ attempt'[N] = [browser |-> b, sid |-> s, flow |-> f]
      /\ N \in Nat
  <2>1. PICK a \in Attempt : a = [browser |-> b, sid |-> s, flow |-> f] BY <1>3
  <2>2. TypeOK /\ attempt' = Append(attempt, a) BY <1>1, <2>1 DEF LoginInv
  <2>3. /\ Len(attempt) \in Nat /\ Attempts' = Attempts \cup {Len(attempt) + 1}
        /\ Len(attempt) + 1 \notin Attempts
        /\ \A n \in Attempts : n < Len(attempt) + 1 /\ attempt'[n] = attempt[n]
        /\ attempt'[Len(attempt) + 1] = a
    BY <2>2, OneMoreAttempt
  <2> QED BY <2>1, <2>3
<1>5. drawn \subseteq drawn' /\ s \in drawn' BY <1>1, GetSessionType DEF LoginInv
<1>6. /\ \A t \in Sid \ {s} : session'[t] = session[t]
      /\ session'[s] = Started(s, N, f)
  BY <1>1 DEF LoginInv, TypeOK
<1>7. session[s] \in Session BY DEF LoginInv, TypeOK
<1>8. /\ session'[s].nonce = N /\ session'[s].flow = f
      /\ session'[s].user = session[s].user
  BY <1>6, <1>7 DEF Started, Session
<1>9. CallsBelong' BY <1>2, <1>4 DEF LoginInv, CallsBelong, Belongs
<1>10. NonceIsNewest'
  <2>1. N \in Newest(s)'
    <3>1. \A m \in Attempts' : m <= N
      <4>1. \A m \in Attempts : m \in Nat BY AttemptsAreNumbers DEF LoginInv, Number
      <4> QED BY <1>4, <4>1
    <3>2. N \in Attempts' /\ attempt'[N].sid = s BY <1>4
    <3> QED BY <3>1, <3>2 DEF Newest
  <2>2. ASSUME NEW t \in Sid \ {s}, NEW n \in Newest(t) PROVE n \in Newest(t)'
    BY <1>4 DEF Newest
  <2>3. ASSUME NEW t \in Sid \ {s}, session'[t].nonce # None
        PROVE  /\ session'[t].nonce \in Newest(t)'
               /\ session'[t].flow = attempt'[session'[t].nonce].flow
    <3>1. /\ session[t].nonce \in Newest(t)
          /\ session[t].flow = attempt[session[t].nonce].flow
      BY <1>6, <2>3 DEF LoginInv, NonceIsNewest
    <3>2. session[t].nonce \in Attempts BY <3>1 DEF Newest
    <3> QED BY <1>4, <1>6, <2>2, <3>1, <3>2
  <2> QED BY <1>4, <1>8, <2>1, <2>3 DEF NonceIsNewest
<1>11. CompletedAreSpent'
  <2> SUFFICES ASSUME NEW n \in completed
               PROVE  n \in Attempts' /\ session'[attempt'[n].sid].nonce # n
    BY <1>2 DEF CompletedAreSpent
  <2>1. n \in Attempts /\ session[attempt[n].sid].nonce # n
    BY DEF LoginInv, CompletedAreSpent
  <2>2. attempt[n].sid \in Sid BY <2>1, AttemptType DEF LoginInv, Attempt
  <2>3. n # N /\ attempt'[n].sid = attempt[n].sid BY <1>4, <2>1
  <2> QED BY <1>4, <1>6, <1>8, <2>1, <2>2, <2>3
<1>12. UndrawnAreUnused'
  BY <1>4, <1>5, <1>6 DEF LoginInv, UndrawnAreUnused
<1> QED BY <1>9, <1>10, <1>11, <1>12 DEF LoginInv

(* A session that expects the state of an attempt is the one in which it   *)
(* was started.                                                            *)
LEMMA MatchingBelongs ==
  ASSUME LoginInv, NEW n \in Attempts, NEW s \in Sid, session[s].nonce = n
  PROVE  /\ n \in Newest(s) /\ attempt[n].sid = s
         /\ session[s].flow = attempt[n].flow
<1>1. n # None
  BY AttemptsAreNumbers, WebappAssumption DEF LoginInv, Number
<1> QED BY <1>1 DEF LoginInv, NonceIsNewest, Newest

LEMMA HandleCallbackInv ==
  ASSUME LoginInv, TypeOK', NEW c \in Callback, NEW n \in Attempts, HandleCallback(c, n)
  PROVE  LoginInv'
<1>1. attempt[n].browser \in Browser BY AttemptType DEF LoginInv, Attempt
<1>2. PICK s \in Sid :
        /\ GetSession(attempt[n].browser, s)
        /\ call' = [call EXCEPT ![c] =
             IF StateMatches(s, n)
             THEN [pc |-> "exchanging", n |-> n, sid |-> s,
                   flow |-> session[s].flow, refused |-> FALSE]
             ELSE [pc |-> "idle", n |-> n, sid |-> s, flow |-> None, refused |-> TRUE]]
  BY DEF HandleCallback
<1>3. drawn \subseteq drawn' BY <1>1, <1>2, GetSessionType DEF LoginInv
<1>4. UNCHANGED <<session, attempt, completed>> BY DEF HandleCallback
<1>5. call \in [Callback -> Call] BY DEF LoginInv, TypeOK
<1>6. call'[c].pc # "idle" => Belongs(call'[c])
  <2> SUFFICES ASSUME StateMatches(s, n) PROVE Belongs(call'[c])
    BY <1>2, <1>5
  <2>1. session[s].nonce = n BY DEF StateMatches, LoginInv, TypeOK
  <2> QED BY <1>2, <1>5, <2>1, MatchingBelongs DEF Belongs
<1>7. \A d \in Callback \ {c} : call'[d] = call[d] BY <1>2, <1>5
<1> QED BY <1>3, <1>4, <1>6, <1>7, NoNewAttempt

LEMMA SettlesInv ==
  ASSUME LoginInv, TypeOK', NEW c \in Callback, NEW from, NEW to, from # "idle",
         Settles(c, from, to)
  PROVE  LoginInv'
<1>1. UNCHANGED <<session, drawn, attempt, completed>> BY DEF Settles
<1>2. call \in [Callback -> Call] BY DEF LoginInv, TypeOK
<1>3. \A d \in Callback \ {c} : call'[d] = call[d] BY <1>2 DEF Settles
<1>4. call[c].pc # "idle" BY DEF Settles
<1>5. call'[c].pc # "idle" =>
        call'[c].n = call[c].n /\ call'[c].sid = call[c].sid /\ call'[c].flow = call[c].flow
  <2>1. call[c] \in Call BY <1>2
  <2> QED BY <1>2, <2>1 DEF Settles, Failed, Idle, Call
<1> QED BY <1>1, <1>3, <1>4, <1>5, NoNewAttempt

(* A callback that signs in belongs to the session it writes to, and takes *)
(* the nonce away that would let its attempt sign in again.                *)
LEMMA CompleteInv ==
  ASSUME LoginInv, TypeOK', NEW c \in Callback, Complete(c)
  PROVE  LoginInv'
<1> DEFINE s == call[c].sid
           n == call[c].n
<1>1. UNCHANGED <<drawn, attempt>> /\ call[c].pc = "validated" BY DEF Complete
<1>2. n \in Attempts /\ s = attempt[n].sid
  BY <1>1 DEF LoginInv, CallsBelong, Belongs
<1>3. s \in Sid /\ s \in drawn
  BY <1>2, AttemptType DEF LoginInv, Attempt, UndrawnAreUnused
<1>4. session \in [Sid -> Session] /\ call \in [Callback -> Call]
  BY DEF LoginInv, TypeOK
<1>5. \A t \in Sid \ {s} : session'[t] = session[t]
  BY <1>4 DEF Complete
<1>6. call'[c].pc = "idle" /\ \A d \in Callback \ {c} : call'[d] = call[d]
  BY <1>4 DEF Complete, Idle, Call
<1>7. CASE NonceMatches(c)
  <2>1. session'[s].nonce = None /\ completed' = completed \cup {n}
    BY <1>3, <1>4, <1>7 DEF Complete, SignedIn
  <2>2. n # None
    BY <1>2, AttemptsAreNumbers, WebappAssumption DEF LoginInv, Number
  <2> QED BY <1>1, <1>2, <1>3, <1>5, <1>6, <2>1, <2>2, NoNewAttempt
<1>8. CASE ~NonceMatches(c)
  <2>1. session' = session /\ completed' = completed
    BY <1>3, <1>4, <1>8 DEF Complete, AfterRefusal
  <2> QED BY <1>1, <1>6, <2>1, NoNewAttempt
<1> QED BY <1>7, <1>8

LEMMA LoginInvStep == ASSUME LoginInv, [Next]_vars PROVE LoginInv'
<1>0. TypeOK' BY TypeStep
<1>1. ASSUME NEW b \in Browser, Read(b) PROVE LoginInv'
  <2>1. drawn \subseteq drawn' BY <1>1, GetSessionType DEF LoginInv, Read
  <2> QED BY <1>0, <1>1, <2>1, NoNewAttempt DEF Read
<1>2. ASSUME NEW b \in Browser, Logout(b) PROVE LoginInv'
  BY <1>0, <1>2, NoNewAttempt DEF Logout
<1>3. ASSUME NEW b \in Browser, NEW f \in Flow, StartLogin(b, f) PROVE LoginInv'
  BY <1>0, <1>3, StartLoginInv
<1>4. ASSUME NEW b \in Browser, NEW s \in Sid \cup {None}, CookieArrives(b, s) PROVE LoginInv'
  BY <1>0, <1>4, NoNewAttempt DEF CookieArrives
<1>5. ASSUME NEW c \in Callback, Exchanged(c) \/ Validated(c) PROVE LoginInv'
  BY <1>0, <1>5, SettlesInv DEF Exchanged, Validated
<1>6. ASSUME NEW c \in Callback, Complete(c) PROVE LoginInv'
  BY <1>0, <1>6, CompleteInv
<1>7. ASSUME NEW c \in Callback, NEW n \in Attempts, HandleCallback(c, n) PROVE LoginInv'
  BY <1>0, <1>7, HandleCallbackInv
<1>8. ASSUME NEW n \in Attempts, CallbackWithError(n) PROVE LoginInv'
  <2>1. attempt[n].browser \in Browser BY AttemptType DEF LoginInv, Attempt
  <2>2. drawn \subseteq drawn' BY <1>8, <2>1, GetSessionType DEF LoginInv, CallbackWithError
  <2> QED BY <1>0, <1>8, <2>2, NoNewAttempt DEF CallbackWithError
<1>9. CASE UNCHANGED vars BY <1>0, <1>9, NoNewAttempt DEF vars
<1> QED BY <1>1, <1>2, <1>3, <1>4, <1>5, <1>6, <1>7, <1>8, <1>9 DEF Next, Proceeds

LEMMA LoginInvInit == Init => LoginInv
<1> SUFFICES ASSUME Init PROVE LoginInv OBVIOUS
<1>1. attempt = <<>> /\ Attempts = {} BY DEF Init, Attempts
<1>2. TypeOK
  <2>1. attempt \in Seq(Attempt) /\ Len(attempt) <= MaxAttempt
    BY <1>1, WebappAssumption
  <2> QED BY <2>1 DEF Init, TypeOK, Blank, Session, Idle, Call
<1>3. \A c \in Callback : call[c].pc = "idle" BY DEF Init, Idle
<1>4. \A s \in Sid : session[s].nonce = None /\ session[s].user = None
  BY DEF Init, Blank
<1>5. completed = {} BY DEF Init
<1> QED BY <1>1, <1>2, <1>3, <1>4, <1>5
        DEF LoginInv, CallsBelong, NonceIsNewest, CompletedAreSpent, UndrawnAreUnused

LEMMA LoginInvHolds == Spec => []LoginInv
BY LoginInvInit, LoginInvStep, PTL DEF Spec
-----------------------------------------------------------------------------
(* The properties. *)

(* Sessions, cookies, attempts and callbacks stay well formed; in every     *)
(* session, state and nonce are set and cleared together, and the flow with *)
(* them.                                                                    *)
THEOREM LoginTypeCorrect == Spec => []TypeOK
<1>1. LoginInv => TypeOK BY DEF LoginInv
<1> QED BY <1>1, LoginInvHolds, PTL

(* The authorization code of an attempt is only ever sent to the provider   *)
(* that issued it, although /auth/callback of both providers read the same  *)
(* session fields.                                                          *)
THEOREM CodeGoesToItsProviderTheorem == Spec => []CodeGoesToItsProvider
<1>1. LoginInv => CodeGoesToItsProvider
  BY DEF LoginInv, CallsBelong, Belongs, CodeGoesToItsProvider
<1> QED BY <1>1, LoginInvHolds, PTL

(* What Complete does to the session of its callback. *)
LEMMA SignsInStep ==
  ASSUME LoginInv, NEW c \in Callback, Complete(c), NonceMatches(c)
  PROVE  /\ call[c].n \in Newest(call[c].sid) /\ call[c].n \notin completed
         /\ session' = [session EXCEPT ![call[c].sid] = SignedIn(call[c].sid, call[c].n)]
<1> DEFINE s == call[c].sid
           n == call[c].n
<1>1. n \in Attempts /\ s = attempt[n].sid
  BY DEF LoginInv, CallsBelong, Belongs, Complete
<1>2. s \in Sid /\ session[s].nonce = n
  BY <1>1, AttemptType DEF LoginInv, Attempt, NonceMatches
<1>3. n \in Newest(s) BY <1>1, <1>2, MatchingBelongs
<1>4. n \notin completed BY <1>1, <1>2 DEF LoginInv, CompletedAreSpent
<1> QED BY <1>3, <1>4 DEF Complete

(* No other step changes the user of a session. *)
LEMMA OnlyCompleteSignsIn ==
  ASSUME LoginInv, [Next]_vars, NEW s \in Sid, session'[s].user # session[s].user
  PROVE  \E c \in Callback : Complete(c) /\ NonceMatches(c) /\ call[c].sid = s
<1>1. session \in [Sid -> Session] BY DEF LoginInv, TypeOK
<1>2. ASSUME NEW b \in Browser, NEW f \in Flow, StartLogin(b, f) PROVE FALSE
  <2>1. PICK t \in Sid : session' = [session EXCEPT ![t] = Started(t, Len(attempt) + 1, f)]
    BY <1>2 DEF StartLogin
  <2>2. session[t] \in Session BY <1>1
  <2> QED BY <1>1, <2>1, <2>2 DEF Started, Session
<1>3. PICK c \in Callback : Complete(c)
  BY <1>2 DEF Next, Proceeds, Read, Logout, CookieArrives, HandleCallback,
              CallbackWithError, Exchanged, Validated, Settles, vars
<1>4. NonceMatches(c) /\ call[c].sid = s
  BY <1>1, <1>3 DEF Complete, AfterRefusal
<1> QED BY <1>3, <1>4

(* Whoever is signed in to a session came with its newest login attempt:    *)
(* the nonce check of the callback is made against the session object after *)
(* both awaits, whatever other tabs did in between.                         *)
THEOREM OnlyNewestSignsInTheorem == Spec => OnlyNewestSignsIn
<1>1. ASSUME LoginInv, [Next]_vars, NEW s \in Sid, session'[s].user # session[s].user
      PROVE  session'[s].user \in Newest(s)
  <2>1. PICK c \in Callback : Complete(c) /\ NonceMatches(c) /\ call[c].sid = s
    BY <1>1, OnlyCompleteSignsIn
  <2>2. /\ call[c].n \in Newest(s)
        /\ session' = [session EXCEPT ![s] = SignedIn(s, call[c].n)]
    BY <1>1, <2>1, SignsInStep
  <2>3. session'[s] = SignedIn(s, call[c].n)
    BY <1>1, <2>2 DEF LoginInv, TypeOK
  <2> QED BY <2>2, <2>3 DEF SignedIn
<1>2. LoginInv /\ [Next]_vars
      => [\A s \in Sid : session'[s].user # session[s].user
                        => session'[s].user \in Newest(s)]_vars
  BY <1>1
<1> QED BY <1>2, LoginInvHolds, PTL DEF Spec, OnlyNewestSignsIn

(* However often the callback of an attempt is loaded, and however many of  *)
(* its requests wait for the provider at once, one signs in.                *)
THEOREM SignsInOnceTheorem == Spec => SignsInOnce
<1>1. ASSUME LoginInv, [Next]_vars, NEW c \in Callback,
             call[c].pc = "validated", call'[c].pc = "idle", call[c].n \in completed
      PROVE  call'[c].refused
  <2>1. call \in [Callback -> Call] BY <1>1 DEF LoginInv, TypeOK
  <2>2. Complete(c)
    BY <1>1, <2>1 DEF Next, Proceeds, Read, Logout, StartLogin, CookieArrives,
       HandleCallback, CallbackWithError, Exchanged, Validated, Settles, Complete, vars
  <2>3. ~NonceMatches(c) BY <1>1, <2>2, SignsInStep
  <2>4. call' = [call EXCEPT ![c].pc = "idle", ![c].refused = TRUE]
    BY <2>2, <2>3 DEF Complete
  <2> QED BY <2>1, <2>4 DEF Call
<1>2. LoginInv /\ [Next]_vars
      => [\A c \in Callback : call[c].pc = "validated" /\ call'[c].pc = "idle"
            /\ call[c].n \in completed => call'[c].refused]_vars
  BY <1>1
<1> QED BY <1>2, LoginInvHolds, PTL DEF Spec, SignsInOnce

(* What a request to the session store adds was never in it before. *)
LEMMA GetSessionAdds ==
  ASSUME NEW b, NEW s, GetSession(b, s)
  PROVE  \A t \in stored' \ stored : t = s /\ t \notin drawn
  BY DEF GetSession

(* After a logout, nothing that was under way puts the session back: the    *)
(* callback writes to its session object and not to the store.              *)
THEOREM LogoutLastsTheorem == Spec => LogoutLasts
<1>1. ASSUME LoginInv, [Next]_vars, NEW s \in stored' \ stored
      PROVE  s \notin drawn /\ session'[s].user = None
  <2>1. s \in Sid BY <1>1, TypeStep DEF TypeOK
  <2>2. s \notin drawn
    BY <1>1, GetSessionAdds
    DEF Next, Proceeds, Read, Logout, StartLogin, CookieArrives, HandleCallback,
        CallbackWithError, Exchanged, Validated, Settles, Complete, StoredAfter, vars
  <2>3. session'[s].user = session[s].user
    <3>1. ASSUME NEW c \in Callback, Complete(c) PROVE call[c].sid \in drawn
      BY <1>1, <3>1 DEF LoginInv, CallsBelong, Belongs, UndrawnAreUnused, Complete
    <3> QED BY <1>1, <2>1, <2>2, <3>1, OnlyCompleteSignsIn
  <2> QED BY <1>1, <2>1, <2>2, <2>3 DEF LoginInv, UndrawnAreUnused
<1>2. LoginInv /\ [Next]_vars
      => [\A s \in stored' \ stored : s \notin drawn /\ session'[s].user = None]_vars
  BY <1>1
<1> QED BY <1>2, LoginInvHolds, PTL DEF Spec, LogoutLasts
-----------------------------------------------------------------------------
(* The newest attempt of a session keeps its way in. *)

(* Until it has signed in, the session still expects its nonce; and a      *)
(* callback that is under way was not refused.                             *)
NewestIsExpected ==
  \A n \in Attempts :
    n \notin completed /\ n \in Newest(attempt[n].sid) => session[attempt[n].sid].nonce = n

NoneRefusedUnderWay == \A c \in Callback : call[c].pc # "idle" => ~call[c].refused

NewestInv == LoginInv /\ NewestIsExpected /\ NoneRefusedUnderWay

(* A step that starts no attempt may take a nonce away only from an attempt *)
(* that has signed in.                                                      *)
LEMMA StillExpected ==
  ASSUME NewestInv, UNCHANGED attempt, completed \subseteq completed',
         \A n \in Attempts : n \notin completed' /\ session[attempt[n].sid].nonce = n
                             => session'[attempt[n].sid].nonce = n
  PROVE  NewestIsExpected'
<1>1. Attempts' = Attempts BY DEF Attempts
<1>2. \A s : Newest(s)' = Newest(s) BY <1>1 DEF Newest
<1> QED BY <1>1, <1>2 DEF NewestInv, NewestIsExpected

LEMMA StartLoginExpected ==
  ASSUME NewestInv, NEW b \in Browser, NEW f \in Flow, StartLogin(b, f)
  PROVE  NewestIsExpected'
<1> DEFINE N == Len(attempt) + 1
<1>1. PICK s \in Sid :
        /\ session' = [session EXCEPT ![s] = Started(s, N, f)]
        /\ attempt' = Append(attempt, [browser |-> b, sid |-> s, flow |-> f])
  BY DEF StartLogin
<1>2. [browser |-> b, sid |-> s, flow |-> f] \in Attempt BY DEF Attempt
<1>3. /\ Attempts' = Attempts \cup {N} /\ N \notin Attempts
      /\ \A n \in Attempts : n < N /\ attempt'[n] = attempt[n]
      /\ attempt'[N].sid = s
  <2>1. PICK a \in Attempt : a = [browser |-> b, sid |-> s, flow |-> f] BY <1>2
  <2>2. TypeOK /\ attempt' = Append(attempt, a) BY <1>1, <2>1 DEF NewestInv, LoginInv
  <2>3. /\ Attempts' = Attempts \cup {Len(attempt) + 1}
        /\ Len(attempt) + 1 \notin Attempts
        /\ \A n \in Attempts : n < Len(attempt) + 1 /\ attempt'[n] = attempt[n]
        /\ attempt'[Len(attempt) + 1] = a
    BY <2>2, OneMoreAttempt
  <2> QED BY <2>1, <2>3
<1>4. session \in [Sid -> Session] BY DEF NewestInv, LoginInv, TypeOK
<1>5. session'[s].nonce = N /\ \A t \in Sid \ {s} : session'[t] = session[t]
  BY <1>1, <1>4 DEF Started, Session
<1>6. UNCHANGED completed BY DEF StartLogin
<1>7. SUFFICES ASSUME NEW n \in Attempts', n \notin completed,
                      (n \in Newest(attempt[n].sid))'
               PROVE  session'[attempt'[n].sid].nonce = n
  BY <1>6 DEF NewestIsExpected
<1>8. CASE n = N BY <1>3, <1>5, <1>8
<1>9. CASE n \in Attempts
  <2>1. attempt'[n] = attempt[n] /\ attempt[n].sid \in Sid
    BY <1>3, <1>9, AttemptType DEF NewestInv, LoginInv, Attempt
  <2>2. attempt[n].sid # s
    <3>1. N \in Attempts' /\ ~(N <= n)
      <4>1. n \in Nat /\ N \in Nat /\ n < N
        BY <1>3, <1>9, AttemptsAreNumbers DEF NewestInv, LoginInv, TypeOK, Number
      <4> QED BY <1>3, <4>1
    <3> QED BY <1>3, <1>7, <2>1, <3>1 DEF Newest
  <2>3. n \in Newest(attempt[n].sid)
    <3>1. \A m \in Attempts' : attempt'[m].sid = attempt'[n].sid => m <= n
      BY <1>7 DEF Newest
    <3> QED BY <1>3, <1>9, <2>1, <3>1 DEF Newest
  <2> QED BY <1>5, <1>7, <1>9, <2>1, <2>2, <2>3 DEF NewestInv, NewestIsExpected
<1> QED BY <1>3, <1>8, <1>9

LEMMA CompleteExpected ==
  ASSUME NewestInv, NEW c \in Callback, Complete(c)
  PROVE  NewestIsExpected'
<1> DEFINE s == call[c].sid
           k == call[c].n
<1>1. UNCHANGED attempt BY DEF Complete
<1>2. session \in [Sid -> Session] BY DEF NewestInv, LoginInv, TypeOK
<1>3. s \in Sid
  BY AttemptType DEF NewestInv, LoginInv, CallsBelong, Belongs, Complete, Attempt
<1>4. CASE NonceMatches(c)
  <2>1. completed' = completed \cup {k} /\ \A t \in Sid \ {s} : session'[t] = session[t]
    BY <1>2, <1>4 DEF Complete
  <2>2. session[s].nonce = k BY <1>4 DEF NonceMatches
  <2>3. \A n \in Attempts : attempt[n].sid \in Sid
    BY AttemptType DEF NewestInv, LoginInv, Attempt
  <2>4. ASSUME NEW n \in Attempts, n \notin completed', session[attempt[n].sid].nonce = n
        PROVE  session'[attempt[n].sid].nonce = n
    BY <2>1, <2>2, <2>3, <2>4
  <2> QED BY <1>1, <2>1, <2>4, StillExpected
<1>5. CASE ~NonceMatches(c)
  <2>1. session' = session /\ completed' = completed
    BY <1>2, <1>3, <1>5 DEF Complete, AfterRefusal
  <2> QED BY <1>1, <2>1, StillExpected
<1> QED BY <1>4, <1>5

(* Only a step of a callback changes it. *)
LEMMA CallChanges ==
  ASSUME LoginInv, [Next]_vars, NEW c \in Callback, call'[c] # call[c]
  PROVE  Proceeds(c) \/ \E n \in Attempts : HandleCallback(c, n)
<1>1. call \in [Callback -> Call] BY DEF LoginInv, TypeOK
<1>2. ASSUME NEW d \in Callback, d # c, NEW n \in Attempts, HandleCallback(d, n) PROVE FALSE
  BY <1>1, <1>2 DEF HandleCallback
<1>3. ASSUME NEW d \in Callback, d # c, Proceeds(d) PROVE FALSE
  BY <1>1, <1>3 DEF Proceeds, Exchanged, Validated, Settles, Complete
<1> QED BY <1>2, <1>3 DEF Next, Read, Logout, StartLogin, CookieArrives, CallbackWithError, vars

LEMMA NoneRefusedStep ==
  ASSUME NewestInv, [Next]_vars PROVE NoneRefusedUnderWay'
<1>1. call \in [Callback -> Call] BY DEF NewestInv, LoginInv, TypeOK
<1>2. SUFFICES ASSUME NEW c \in Callback, call'[c].pc # "idle" PROVE ~call'[c].refused
  BY DEF NoneRefusedUnderWay
<1>3. call[c] \in Call BY <1>1
<1>4. CASE call'[c] = call[c]
  BY <1>2, <1>4 DEF NewestInv, NoneRefusedUnderWay
<1>5. ASSUME NEW n \in Attempts, HandleCallback(c, n) PROVE ~call'[c].refused
  BY <1>1, <1>2, <1>5 DEF HandleCallback
<1>6. ASSUME NEW from \in {"exchanging", "validating"}, NEW to, Settles(c, from, to)
      PROVE  ~call'[c].refused
  BY <1>1, <1>2, <1>3, <1>6
     DEF Settles, Failed, Idle, Call, NewestInv, NoneRefusedUnderWay
<1>7. ASSUME Complete(c) PROVE FALSE
  BY <1>1, <1>2, <1>3, <1>7 DEF Complete, Idle, Call
<1> QED BY <1>4, <1>5, <1>6, <1>7, CallChanges DEF NewestInv, Proceeds, Exchanged, Validated

LEMMA NewestInvStep == ASSUME NewestInv, [Next]_vars PROVE NewestInv'
<1>0. LoginInv' BY LoginInvStep DEF NewestInv
<1>1. ASSUME NEW b \in Browser, NEW f \in Flow, StartLogin(b, f) PROVE NewestIsExpected'
  BY <1>1, StartLoginExpected
<1>2. ASSUME NEW c \in Callback, Complete(c) PROVE NewestIsExpected'
  BY <1>2, CompleteExpected
<1>3. ASSUME UNCHANGED <<session, attempt, completed>> PROVE NewestIsExpected'
  BY <1>3, StillExpected
<1>4. NewestIsExpected'
  BY <1>1, <1>2, <1>3
     DEF Next, Proceeds, Exchanged, Validated, Settles, Read, Logout, CookieArrives,
         HandleCallback, CallbackWithError, vars
<1> QED BY <1>0, <1>4, NoneRefusedStep DEF NewestInv

LEMMA NewestInvHolds == Spec => []NewestInv
<1>1. Init => NewestInv
  <2> SUFFICES ASSUME Init PROVE NewestIsExpected /\ NoneRefusedUnderWay
    BY LoginInvInit DEF NewestInv
  <2>1. Attempts = {} BY DEF Init, Attempts
  <2> QED BY <2>1 DEF Init, Idle, NewestIsExpected, NoneRefusedUnderWay
<1>2. NewestInv /\ [Next]_vars => NewestInv' BY NewestInvStep
<1> QED BY <1>1, <1>2, PTL DEF Spec

(* Other tabs that start or finish logins, log out or load old callbacks    *)
(* cannot make the webapp refuse the newest attempt of a session before it  *)
(* has signed in: a refused callback leaves the session as it was.          *)
THEOREM NewestIsNotRefusedTheorem == Spec => NewestIsNotRefused
<1>1. ASSUME NewestInv, [Next]_vars, NEW c \in Callback, call'[c].refused,
             call'[c] # call[c], call'[c].sid # None, call'[c].n \in Newest(call'[c].sid)
      PROVE  call'[c].n \in completed
  <2>1. call \in [Callback -> Call] /\ call[c] \in Call
    BY <1>1 DEF NewestInv, LoginInv, TypeOK
  <2>2. ASSUME NEW n \in Attempts, HandleCallback(c, n) PROVE n = call'[c].n /\ n \in completed
    <3>1. PICK s \in Sid : call' = [call EXCEPT ![c] =
             IF StateMatches(s, n)
             THEN [pc |-> "exchanging", n |-> n, sid |-> s,
                   flow |-> session[s].flow, refused |-> FALSE]
             ELSE [pc |-> "idle", n |-> n, sid |-> s, flow |-> None, refused |-> TRUE]]
      BY <2>2 DEF HandleCallback
    <3>2. call'[c].n = n /\ call'[c].sid = s /\ ~StateMatches(s, n)
      BY <1>1, <2>1, <3>1
    <3>3. n \in Newest(s) /\ attempt[n].sid = s BY <1>1, <3>2 DEF Newest
    <3>4. session[s].nonce # n
      BY <3>2, WebappAssumption, <1>1, AttemptsAreNumbers
         DEF StateMatches, NewestInv, LoginInv, TypeOK, Number
    <3> QED BY <1>1, <3>2, <3>3, <3>4 DEF NewestInv, NewestIsExpected
  <2>3. ASSUME Complete(c) PROVE call'[c].n \in completed
    <3>1. ~NonceMatches(c) /\ call'[c].n = call[c].n /\ call'[c].sid = call[c].sid
      BY <1>1, <2>1, <2>3 DEF Complete, Idle, Call
    <3>2. call[c].n \in Attempts /\ call[c].sid = attempt[call[c].n].sid
      BY <1>1, <2>3 DEF NewestInv, LoginInv, CallsBelong, Belongs, Complete
    <3> QED BY <1>1, <3>1, <3>2 DEF NewestInv, NewestIsExpected, NonceMatches
  <2>4. ASSUME NEW from \in {"exchanging", "validating"}, NEW to, Settles(c, from, to)
        PROVE  FALSE
    BY <1>1, <2>1, <2>4 DEF Settles, Failed, Idle, Call, NewestInv, NoneRefusedUnderWay
  <2> QED BY <1>1, <2>2, <2>3, <2>4, CallChanges DEF NewestInv, Proceeds, Exchanged, Validated
<1>2. NewestInv /\ [Next]_vars
      => [\A c \in Callback : call'[c].refused /\ call'[c] # call[c]
            /\ call'[c].sid # None /\ call'[c].n \in Newest(call'[c].sid)
            => call'[c].n \in completed]_vars
  BY <1>1
<1> QED BY <1>2, NewestInvHolds, PTL DEF Spec, NewestIsNotRefused
=============================================================================
