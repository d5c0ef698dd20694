-------------------------- MODULE LTPASessionProofs --------------------------
(***************************************************************************)
(* Proofs about LTPASession, for any number of requests and tokens.        *)
(***************************************************************************)
EXTENDS LTPASession, TLAPS

\* What one request knows about the generations: it never saw or used one from
\* the future, it attached nothing older than it saw, and past its re-login
\* there is a newer session than it saw.
Known(r) ==
    /\ seen[r] <= gen
    /\ pc[r] \in {"idle", "currentToken"} => ~retry[r]
    /\ pc[r] \in {"reauthenticate", "doLogin"} /\ ~retry[r] => seen[r] = 0
    /\ pc[r] = "doLogin" => seen[r] = gen
    /\ pc[r] = "sent" => seen[r] <= used[r] /\ used[r] <= gen
    /\ retry[r] => first[r] \in refused /\ seen[r] <= first[r] /\ first[r] <= gen
    /\ retry[r] /\ pc[r] \in {"authenticate", "sent"} => seen[r] < gen
    /\ retry[r] /\ pc[r] = "sent" => seen[r] < used[r]

SessionInv == TypeOK /\ OneLogin /\ \A r \in Requests : Known(r)

\* Nothing a request knows is undone by the others, who only add generations and
\* refused tokens, and no generation while it is in a login itself.
LEMMA KnownStable ==
    ASSUME TypeOK, TypeOK', NEW s \in Requests, Known(s), gen <= gen', refused \subseteq refused',
           pc[s] = "doLogin" => gen' = gen,
           pc'[s] = pc[s], retry'[s] = retry[s], seen'[s] = seen[s],
           used'[s] = used[s], first'[s] = first[s]
    PROVE  Known(s)'
<1>1. /\ gen \in Nat /\ gen' \in Nat
      /\ seen[s] \in Nat /\ used[s] \in Nat /\ first[s] \in Nat
  BY DEF TypeOK
<1>2. QED
  BY <1>1 DEF Known

\* A step of request r touches nothing of the others.
LEMMA OthersUntouched ==
    ASSUME TypeOK, NEW r \in Requests, roundTripWithReauth(r), NEW s \in Requests, s # r
    PROVE  /\ pc'[s] = pc[s] /\ retry'[s] = retry[s] /\ seen'[s] = seen[s]
           /\ used'[s] = used[s] /\ first'[s] = first[s]
<1> USE DEF TypeOK, Goto, Finish, LoggedIn
<1>1. CASE ensureLoggedIn(r)
  BY <1>1 DEF ensureLoggedIn
<1>2. CASE reauthenticate(r)
  BY <1>2 DEF reauthenticate
<1>3. CASE doLogin(r)
  BY <1>3 DEF doLogin
<1>4. CASE doLoginFails(r)
  BY <1>4 DEF doLoginFails
<1>5. CASE currentToken(r)
  BY <1>5 DEF currentToken
<1>6. CASE authenticate(r)
  BY <1>6 DEF authenticate
<1>7. CASE roundTripFails(r)
  BY <1>7 DEF roundTripFails
<1>8. CASE Answered(r)
  BY <1>8 DEF Answered
<1>9. CASE shouldReauthenticate(r)
  BY <1>9 DEF shouldReauthenticate
<1>10. QED
  BY <1>1, <1>2, <1>3, <1>4, <1>5, <1>6, <1>7, <1>8, <1>9 DEF roundTripWithReauth

LEMMA FinishType ==
    ASSUME TypeOK, NEW r \in Requests, Finish(r), gen' \in Nat,
           mu' \in Requests \cup {NoRequest}, valid' \subseteq Nat, refused' \subseteq Nat
    PROVE  TypeOK'
<1>1. 0 \in 0 .. maxAttempts - 1
  BY SessionAssumption
<1>2. QED
  BY <1>1 DEF TypeOK, Finish, Goto

\* Types, and who holds the mutex, after a step of request r.
LEMMA RequestType ==
    ASSUME SessionInv, NEW r \in Requests, roundTripWithReauth(r)
    PROVE  TypeOK' /\ OneLogin'
<1> TypeOK /\ OneLogin /\ r # NoRequest
  BY SessionAssumption DEF SessionInv
<1> 0 \in 0 .. maxAttempts - 1
  BY SessionAssumption
<1>1. CASE ensureLoggedIn(r)
  BY <1>1 DEF ensureLoggedIn, Goto, TypeOK, OneLogin
<1>2. CASE reauthenticate(r)
  <2>1. CASE gen # seen[r] /\ LoggedIn(r) /\ UNCHANGED mu
    <3>1. pc' \in [Requests -> {"idle", "reauthenticate", "doLogin", "currentToken",
                                "authenticate", "sent"}]
      BY <2>1 DEF LoggedIn, Goto, TypeOK
    <3>2. \A s \in Requests : pc'[s] = "doLogin" <=> pc[s] = "doLogin"
      BY <1>2, <2>1 DEF reauthenticate, LoggedIn, Goto, TypeOK
    <3>3. QED
      BY <1>2, <2>1, <3>1, <3>2 DEF reauthenticate, TypeOK, OneLogin
  <2>2. CASE Goto(r, "doLogin") /\ mu' = r
    <3>1. TypeOK'
      BY <1>2, <2>2 DEF reauthenticate, Goto, TypeOK
    <3>2. pc'[r] = "doLogin" /\ \A s \in Requests \ {r} : pc'[s] # "doLogin"
      <4>1. \A s \in Requests : pc[s] # "doLogin"
        BY <1>2, SessionAssumption DEF reauthenticate, OneLogin
      <4>2. QED
        BY <2>2, <4>1 DEF Goto, TypeOK
    <3>3. QED
      BY <2>2, <3>1, <3>2 DEF OneLogin
  <2>3. QED
    BY <1>2, <2>1, <2>2 DEF reauthenticate
<1>3. CASE doLogin(r)
  BY <1>3, SessionAssumption DEF doLogin, Goto, LoggedIn, TypeOK, OneLogin
<1>4. CASE doLoginFails(r)
  <2>1. TypeOK'
    BY <1>4, FinishType DEF doLoginFails, TypeOK
  <2>2. QED
    BY <1>4, <2>1, SessionAssumption DEF doLoginFails, Finish, Goto, TypeOK, OneLogin
<1>5. CASE currentToken(r)
  BY <1>5 DEF currentToken, Goto, TypeOK, OneLogin
<1>6. CASE authenticate(r)
  BY <1>6 DEF authenticate, Goto, TypeOK, OneLogin
<1>7. CASE roundTripFails(r) /\ ~Finish(r)
  <2>1. attempt[r] + 1 \in 0 .. maxAttempts - 1
    BY <1>7, SessionAssumption DEF roundTripFails, TypeOK
  <2>2. QED
    BY <1>7, <2>1 DEF roundTripFails, Goto, TypeOK, OneLogin
<1>8. CASE (roundTripFails(r) \/ Answered(r)) /\ Finish(r)
  <2>1. TypeOK'
    BY <1>8, FinishType, Zenon DEF roundTripFails, Answered, TypeOK
  <2>2. QED
    BY <1>8, <2>1 DEF roundTripFails, Answered, Finish, Goto, TypeOK, OneLogin
<1>9. CASE shouldReauthenticate(r)
  BY <1>9, Zenon DEF shouldReauthenticate, Goto, TypeOK, OneLogin
<1>10. QED
  BY <1>1, <1>2, <1>3, <1>4, <1>5, <1>6, <1>7, <1>8, <1>9
     DEF roundTripWithReauth, Answered

\* What request r knows after a step of its own.
LEMMA OwnKnown ==
    ASSUME SessionInv, NEW r \in Requests, roundTripWithReauth(r)
    PROVE  Known(r)'
<1> TypeOK /\ OneLogin /\ Known(r) /\ TypeOK'
  BY RequestType DEF SessionInv
<1> /\ gen \in Nat /\ gen' \in Nat
    /\ seen[r] \in Nat /\ used[r] \in Nat /\ first[r] \in Nat /\ retry[r] \in BOOLEAN
  BY DEF TypeOK
<1>1. CASE ensureLoggedIn(r)
  BY <1>1 DEF ensureLoggedIn, Goto, TypeOK, Known
<1>2. CASE reauthenticate(r)
  BY <1>2 DEF reauthenticate, Goto, LoggedIn, TypeOK, Known
<1>3. CASE doLogin(r)
  BY <1>3 DEF doLogin, Goto, LoggedIn, TypeOK, Known
<1>4. CASE Finish(r)
  BY <1>4 DEF Finish, Goto, TypeOK, Known
<1>5. CASE currentToken(r)
  BY <1>5 DEF currentToken, Goto, TypeOK, Known
<1>6. CASE authenticate(r)
  BY <1>6 DEF authenticate, Goto, TypeOK, Known
<1>7. CASE roundTripFails(r) /\ ~Finish(r)
  BY <1>7 DEF roundTripFails, Goto, TypeOK, Known
<1>8. CASE shouldReauthenticate(r)
  BY <1>8 DEF shouldReauthenticate, Goto, TypeOK, Known
<1>9. QED
  BY <1>1, <1>2, <1>3, <1>4, <1>5, <1>6, <1>7, <1>8
     DEF roundTripWithReauth, doLoginFails, Answered

LEMMA SessionInductive == Spec => []SessionInv
<1>1. Init => SessionInv
  <2> SUFFICES ASSUME Init PROVE SessionInv
    OBVIOUS
  <2>1. TypeOK
    <3> 0 \in 0 .. maxAttempts - 1
      BY SessionAssumption
    <3> QED
      BY DEF Init, TypeOK
  <2>2. OneLogin /\ \A r \in Requests : Known(r)
    BY SessionAssumption DEF Init, OneLogin, Known
  <2>3. QED
    BY <2>1, <2>2 DEF SessionInv
<1>2. ASSUME SessionInv, NEW r \in Requests, roundTripWithReauth(r)
      PROVE  SessionInv'
  <2>1. TypeOK' /\ OneLogin'
    BY <1>2, RequestType
  <2>2. gen \in Nat /\ gen <= gen' /\ refused \subseteq refused'
    BY <1>2 DEF SessionInv, TypeOK, roundTripWithReauth, ensureLoggedIn, reauthenticate,
       doLogin, doLoginFails, currentToken, authenticate, roundTripFails, Answered,
       shouldReauthenticate
  <2>3. ASSUME NEW s \in Requests, s # r
        PROVE  Known(s)'
    <3>1. pc[s] = "doLogin" => gen' = gen
      <4> SUFFICES ASSUME pc[s] = "doLogin" PROVE gen' = gen
        OBVIOUS
      <4>1. mu = s /\ pc[r] # "doLogin"
        BY <1>2, <2>3 DEF SessionInv, OneLogin
      <4>2. QED
        BY <1>2, <4>1 DEF roundTripWithReauth, ensureLoggedIn, reauthenticate, doLogin,
           doLoginFails, currentToken, authenticate, roundTripFails, Answered,
           shouldReauthenticate
    <3>2. TypeOK /\ Known(s)
      BY <1>2 DEF SessionInv
    <3>3. /\ pc'[s] = pc[s] /\ retry'[s] = retry[s] /\ seen'[s] = seen[s]
          /\ used'[s] = used[s] /\ first'[s] = first[s]
      BY <1>2, <2>3, <3>2, OthersUntouched
    <3>4. QED
      BY <2>1, <2>2, <3>1, <3>2, <3>3, KnownStable
  <2>4. Known(r)'
    BY <1>2, OwnKnown
  <2>5. QED
    BY <2>1, <2>3, <2>4 DEF SessionInv
<1>3. ASSUME SessionInv, (\E t \in valid : Revoke(t)) \/ UNCHANGED vars
      PROVE  SessionInv'
  <2>1. UNCHANGED <<gen, mu, requestVars, refused>> /\ valid' \subseteq valid
    BY <1>3 DEF Revoke, vars
  <2>2. TypeOK'
    BY <1>3, <2>1 DEF SessionInv, TypeOK, requestVars
  <2>3. OneLogin' /\ \A r \in Requests : Known(r)'
    BY <1>3, <2>1 DEF SessionInv, OneLogin, Known, requestVars
  <2>4. QED
    BY <2>2, <2>3 DEF SessionInv
<1>4. SessionInv /\ [Next]_vars => SessionInv'
  BY <1>2, <1>3 DEF Next
<1>5. QED
  BY <1>1, <1>4, PTL DEF Spec

-----------------------------------------------------------------------------
\* The variables of the session and of its requests keep their types.
THEOREM SessionTypeCorrect == Spec => []TypeOK
  BY SessionInductive, PTL DEF SessionInv

\* Whoever is in a login (doLogin) holds the mutex, and nobody else.
THEOREM OneLoginProved == Spec => []OneLogin
  BY SessionInductive, PTL DEF SessionInv

\* reauthenticate logs in only when there is no session or when the very token of
\* the session was refused, for any number of requests.
THEOREM LoginsProved == Spec => []LoginOnlyWhenNeeded
<1>1. SessionInv => LoginOnlyWhenNeeded
  <2> SUFFICES ASSUME SessionInv, mu # NoRequest PROVE gen = 0 \/ gen \in refused
    BY DEF LoginOnlyWhenNeeded
  <2>1. mu \in Requests /\ pc[mu] = "doLogin" /\ Known(mu)
    BY DEF SessionInv, TypeOK, OneLogin
  <2>2. gen \in Nat /\ seen[mu] \in Nat /\ first[mu] \in Nat /\ retry[mu] \in BOOLEAN
    BY <2>1 DEF SessionInv, TypeOK
  <2>3. QED
    BY <2>1, <2>2 DEF Known
<1>2. QED
  BY <1>1, SessionInductive, PTL

\* The retry of a request that had used the cookies it saw attaches newer ones.
THEOREM FreshProved == Spec => []FreshAfterSeen
<1>1. SessionInv => FreshAfterSeen
  BY DEF SessionInv, FreshAfterSeen, Known
<1>2. QED
  BY <1>1, SessionInductive, PTL
=============================================================================
