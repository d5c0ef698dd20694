---------------------------- MODULE LTPASession ----------------------------
(***************************************************************************)
(* The login session that the requests of one mqweb client share           *)
(* (internal/adapter/mqrest/ltpa.go) and the one re-login per request      *)
(* (roundTripWithReauth in resilience.go).                                 *)
(*                                                                         *)
(* The cookies are replaced whenever gen is bumped, so gen also names the  *)
(* cookies in use; 0 stands for no cookies yet.  The mutex is held across  *)
(* the login's HTTP exchange, and only then outlasts a step.               *)
(***************************************************************************)
EXTENDS Naturals

CONSTANTS
    Requests,     \* the goroutines that use the client
    NoRequest,    \* none of them
    maxAttempts,  \* HTTP exchanges per roundTrip
    MaxTokens     \* bound: mqweb revokes tokens below this number only

ASSUME SessionAssumption ==
    /\ NoRequest \notin Requests
    /\ maxAttempts \in Nat \ {0}
    /\ MaxTokens \in Nat

VARIABLES
    gen,      \* bumped on every successful login
    mu,       \* who holds the mutex across a login
    pc,       \* where each request is
    retry,    \* it is past its one re-login
    attempt,  \* the number of its exchange in roundTrip
    seen,     \* the generation it saw before its first exchange
    used,     \* the generation of the cookies it attached last
    valid,    \* the tokens that mqweb accepts
    refused,  \* history: the tokens it answered with a 401
    first     \* history: the one it refused this request before its retry

requestVars == <<pc, retry, attempt, seen, used, first>>
vars        == <<gen, mu, requestVars, valid, refused>>

\* Every variable of the session and of the requests has its type.
TypeOK ==
    /\ gen \in Nat
    /\ mu \in Requests \cup {NoRequest}
    /\ pc \in [Requests -> {"idle", "reauthenticate", "doLogin", "currentToken",
                            "authenticate", "sent"}]
    /\ retry \in [Requests -> BOOLEAN]
    /\ attempt \in [Requests -> 0 .. maxAttempts - 1]
    /\ seen \in [Requests -> Nat]
    /\ used \in [Requests -> Nat]
    /\ first \in [Requests -> Nat]
    /\ valid \subseteq Nat
    /\ refused \subseteq Nat

Goto(r, l) == pc' = [pc EXCEPT ![r] = l]

\* The request returns to its caller.
Finish(r) ==
    /\ Goto(r, "idle")
    /\ retry' = [retry EXCEPT ![r] = FALSE]
    /\ attempt' = [attempt EXCEPT ![r] = 0]
    /\ seen' = [seen EXCEPT ![r] = 0]
    /\ used' = [used EXCEPT ![r] = 0]
    /\ first' = [first EXCEPT ![r] = 0]

-----------------------------------------------------------------------------
\* The session is looked up, or to be established.
ensureLoggedIn(r) ==
    /\ pc[r] = "idle" /\ mu = NoRequest
    /\ seen' = [seen EXCEPT ![r] = gen]
    /\ Goto(r, IF gen > 0 THEN "authenticate" ELSE "reauthenticate")
    /\ UNCHANGED <<gen, mu, retry, attempt, used, first, valid, refused>>

\* Where a request goes on once there is a new session.
LoggedIn(r) == Goto(r, IF retry[r] THEN "authenticate" ELSE "currentToken")

\* Mutant: the generation is not checked again under the mutex.
reauthenticateAlways(r) ==
    /\ pc[r] = "reauthenticate" /\ mu = NoRequest
    /\ Goto(r, "doLogin")
    /\ mu' = r
    /\ UNCHANGED <<gen, retry, attempt, seen, used, first, valid, refused>>

\* The mutex is taken; somebody else's login since the token was seen will do.
reauthenticate(r) ==
    /\ pc[r] = "reauthenticate" /\ mu = NoRequest
    /\ \/ gen # seen[r] /\ LoggedIn(r) /\ UNCHANGED mu
       \/ gen = seen[r] /\ Goto(r, "doLogin") /\ mu' = r
    /\ UNCHANGED <<gen, retry, attempt, seen, used, first, valid, refused>>

\* The login fails, for whatever reason, and so does the request.
doLoginFails(r) ==
    /\ pc[r] = "doLogin"
    /\ Finish(r)
    /\ mu' = NoRequest
    /\ UNCHANGED <<gen, valid, refused>>

\* Mutant: the cookies are replaced under the old generation.
doLoginSameGen(r) ==
    /\ pc[r] = "doLogin"
    /\ valid' = valid \cup {gen}
    /\ mu' = NoRequest
    /\ LoggedIn(r)
    /\ UNCHANGED <<gen, retry, attempt, seen, used, first, refused>>

\* The login succeeds: new cookies under a new generation.
doLogin(r) ==
    /\ pc[r] = "doLogin"
    /\ gen' = gen + 1
    /\ valid' = valid \cup {gen + 1}
    /\ mu' = NoRequest
    /\ LoggedIn(r)
    /\ UNCHANGED <<retry, attempt, seen, used, first, refused>>

\* The end of ensureLoggedIn after a login; the mutex was released in between.
currentToken(r) ==
    /\ pc[r] = "currentToken" /\ mu = NoRequest
    /\ seen' = [seen EXCEPT ![r] = gen]
    /\ Goto(r, "authenticate")
    /\ UNCHANGED <<gen, mu, retry, attempt, used, first, valid, refused>>

\* The builder attaches the cookies there are by now.
authenticate(r) ==
    /\ pc[r] = "authenticate" /\ mu = NoRequest
    /\ used' = [used EXCEPT ![r] = gen]
    /\ Goto(r, "sent")
    /\ UNCHANGED <<gen, mu, retry, attempt, seen, first, valid, refused>>

\* roundTrip fails and builds the request anew, or gives up: the breaker refuses
\* it, its attempts are used up, or its context ends.
roundTripFails(r) ==
    /\ \/ /\ pc[r] = "sent" /\ attempt[r] + 1 < maxAttempts
          /\ attempt' = [attempt EXCEPT ![r] = @ + 1]
          /\ Goto(r, "authenticate")
          /\ UNCHANGED <<retry, seen, used, first>>
       \/ /\ pc[r] \in {"authenticate", "sent"}
          /\ Finish(r)
    /\ UNCHANGED <<gen, mu, valid, refused>>

\* The answer is the caller's: mqweb accepts the token, or refuses the retry as
\* well, or the body of its 401 cannot be read.
Answered(r) ==
    /\ pc[r] = "sent"
    /\ refused' = IF used[r] \in valid THEN refused ELSE refused \cup {used[r]}
    /\ Finish(r)
    /\ UNCHANGED <<gen, mu, valid>>

\* Mutant: a retry may be followed by another.
shouldReauthenticateAgain(r) ==
    /\ pc[r] = "sent"
    /\ used[r] \notin valid
    /\ refused' = refused \cup {used[r]}
    /\ first' = [first EXCEPT ![r] = used[r]]
    /\ retry' = [retry EXCEPT ![r] = TRUE]
    /\ attempt' = [attempt EXCEPT ![r] = 0]
    /\ Goto(r, "reauthenticate")
    /\ UNCHANGED <<gen, mu, seen, used, valid>>

\* A 401 that says the token failed verification: one more login and roundTrip.
shouldReauthenticate(r) ==
    /\ pc[r] = "sent"
    /\ used[r] \notin valid /\ ~retry[r]
    /\ refused' = refused \cup {used[r]}
    /\ first' = [first EXCEPT ![r] = used[r]]
    /\ retry' = [retry EXCEPT ![r] = TRUE]
    /\ attempt' = [attempt EXCEPT ![r] = 0]
    /\ Goto(r, "reauthenticate")
    /\ UNCHANGED <<gen, mu, seen, used, valid>>

roundTripWithReauth(r) ==
    \/ ensureLoggedIn(r) \/ reauthenticate(r) \/ doLogin(r) \/ doLoginFails(r)
    \/ currentToken(r) \/ authenticate(r) \/ roundTripFails(r)
    \/ Answered(r) \/ shouldReauthenticate(r)

\* A token expires, or mqweb forgets it in a restart.
Revoke(t) ==
    /\ t \in valid /\ t < MaxTokens
    /\ valid' = valid \ {t}
    /\ UNCHANGED <<gen, mu, requestVars, refused>>

-----------------------------------------------------------------------------
Init ==
    /\ gen = 0
    /\ mu = NoRequest
    /\ pc = [r \in Requests |-> "idle"]
    /\ retry = [r \in Requests |-> FALSE]
    /\ attempt = [r \in Requests |-> 0]
    /\ seen = [r \in Requests |-> 0]
    /\ used = [r \in Requests |-> 0]
    /\ first = [r \in Requests |-> 0]
    /\ valid = {}
    /\ refused = {}

Next ==
    \/ \E r \in Requests : roundTripWithReauth(r)
    \/ \E t \in valid : Revoke(t)

Spec == Init /\ [][Next]_vars

\* Goroutines run, and Go's mutex starves nobody who waits for it.
FairSpec == Spec /\ \A r \in Requests : SF_vars(pc[r] # "idle" /\ roundTripWithReauth(r))

-----------------------------------------------------------------------------
\* reauthenticate: "coalesces N concurrent re-logins into one"; ensureLoggedIn:
\* "N concurrent cold starts cause exactly one login".  A login is under way only
\* if there is no session or mqweb refused its very token, however many requests
\* saw that token, or older ones, refused.
LoginOnlyWhenNeeded == mu # NoRequest => gen = 0 \/ gen \in refused

\* reauthenticate: the mutex is the barrier.  Whoever is in a login holds it, so
\* that no two logins run at once, and it is released on every path.
OneLogin == \A r \in Requests : pc[r] = "doLogin" <=> mu = r

\* roundTripWithReauth: the retry "attaches the fresh cookie", provided that
\* the request's first exchange used the cookies it had seen.
FreshAfterSeen ==
    \A r \in Requests :
        pc[r] = "sent" /\ retry[r] /\ first[r] = seen[r] => used[r] > first[r]

\* No request waits for ever for the mutex or the session, although the mutex is
\* held across the login and a waiter does not look at its context.
RequestsReturn == \A r \in Requests : pc[r] # "idle" ~> pc[r] = "idle"
=============================================================================
