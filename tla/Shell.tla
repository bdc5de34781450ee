------------------------------- MODULE Shell --------------------------------
(***************************************************************************)
(* Who is signed in, as one tab knows it (client/Root.tsx, request() and   *)
(* the session's requests in client/api.ts, client/SignIn.tsx), and what   *)
(* is kept of their data.  React's effects run before anything else        *)
(* happens.  The server is what its routes answer.                         *)
(***************************************************************************)
EXTENDS Integers, FiniteSets

CONSTANTS Accounts, None,
          Writes,       \* requests in flight whoever signs in: "request", or "fetch" past it
          Registrants,  \* accounts that sign in here
          MaxSessions,  \* bound: sessions
          MaxReads,     \* bound: private queries in flight
          MaxWrites,    \* bound: writes
          MaxFailures   \* bound: requests for the session lost in a row

ShellAssumption ==
    /\ Registrants \subseteq Accounts /\ Writes \subseteq {"request", "fetch"}
    /\ {MaxSessions, MaxReads, MaxWrites, MaxFailures} \subseteq Nat
    /\ Accounts \intersect {None, "undefined", "none", "unauthenticated"} = {}
    /\ None # "undefined"

VARIABLES cookie,    \* the server: the session of this browser's cookie
          session,   \* the session query's data
          asked,     \* its request
          expired,   \* a request was refused, or the reader signed out
          had,       \* previousIdentity
          csrf,      \* csrfToken
          cache,     \* whose data the private queries hold
          reads,     \* their requests in flight
          writes,    \* other requests in flight
          login,     \* the request of the sign-in form
          logout,    \* the request to sign out
          sessions, written,
          failures   \* requests for the session lost since the last that was answered

vars == <<cookie, session, asked, expired, had, csrf, cache, reads, writes, login, logout, sessions,
          written, failures>>

Nobody == [user |-> None, token |-> 0]
Pending == [user |-> None, token |-> -1]
Unanswered == "none"
Unauthenticated == "unauthenticated"

Init ==
    /\ cookie \in {Nobody} \union {[user |-> a, token |-> 1] : a \in Registrants}
    /\ session = Pending /\ asked = {[answer |-> Pending]}
    /\ expired = FALSE /\ had = "undefined" /\ csrf = 0
    /\ cache = {} /\ reads = {} /\ writes = {} /\ login = {} /\ logout = {}
    /\ sessions = 1 /\ written = 0 /\ failures = 0

-----------------------------------------------------------------------------
AuthState(s, e) ==
    IF e THEN Unauthenticated
    ELSE IF s = Pending THEN "unknown"
    ELSE IF s.user # None THEN "authenticated" ELSE Unauthenticated

Account(s, e) == IF AuthState(s, e) = "authenticated" THEN s.user ELSE None

Authenticated == AuthState(session, expired) = "authenticated"

(* A slip: the requests in flight are not cancelled.                       *)
ReadsAreKept(r) == r
Cancelled(r) == {}

(* Nothing is cleared on the first arrival of an account, or its return.   *)
Clears(account) == account = None \/ had \notin {"undefined", account}

(* The session and the flag became this; the effect on the identity.       *)
Commit(s, e, c, r) ==
    LET changed == <<AuthState(s, e), s.user>> # <<AuthState(session, expired), session.user>>
        runs == changed /\ AuthState(s, e) # "unknown"
        clears == runs /\ Clears(Account(s, e))
    IN  /\ session' = s /\ expired' = e
        /\ had' = IF runs THEN Account(s, e) ELSE had
        /\ cache' = IF clears THEN {} ELSE c
        /\ reads' = IF clears THEN Cancelled(r) ELSE r

(* withoutAuthExpiry()                                                     *)
Suppressed == asked # {} \/ login # {}

-----------------------------------------------------------------------------
(* The server.                                                             *)

Expire ==
    /\ cookie # Nobody
    /\ cookie' = Nobody
    /\ UNCHANGED <<session, asked, expired, had, csrf, cache, reads, writes, login, logout,
                   sessions, written, failures>>

AnswerSession(q) ==
    /\ q.answer = Pending
    /\ asked' = {[answer |-> cookie]}
    /\ UNCHANGED <<cookie, session, expired, had, csrf, cache, reads, writes, login, logout,
                   sessions, written, failures>>

AnswerRead(r) ==
    /\ r.answer = Unanswered
    /\ reads' = (reads \ {r}) \union
                {[r EXCEPT !.answer = IF cookie = Nobody THEN Unauthenticated ELSE cookie.user]}
    /\ UNCHANGED <<cookie, session, asked, expired, had, csrf, cache, writes, login, logout,
                   sessions, written, failures>>

(* Who it is is asked first, then for the token.                           *)
AnswerWrite(w) ==
    /\ w.answer = Unanswered
    /\ writes' = (writes \ {w}) \union
                 {[w EXCEPT !.answer = IF cookie = Nobody THEN Unauthenticated
                                       ELSE IF w.token = cookie.token THEN "ok" ELSE "refused"]}
    /\ UNCHANGED <<cookie, session, asked, expired, had, csrf, cache, reads, login, logout,
                   sessions, written, failures>>

AnswerLogin(q) ==
    /\ q.answer = Pending /\ sessions < MaxSessions
    /\ sessions' = sessions + 1
    /\ cookie' = [user |-> q.user, token |-> sessions + 1]
    /\ login' = {[q EXCEPT !.answer = cookie']}
    /\ UNCHANGED <<session, asked, expired, had, csrf, cache, reads, writes, logout, written,
                   failures>>

AnswerLogout(q) ==
    /\ q.answer = Unanswered
    /\ cookie' = IF q.token = cookie.token THEN Nobody ELSE cookie
    /\ logout' = {[q EXCEPT !.answer = "ok"]}
    /\ UNCHANGED <<session, asked, expired, had, csrf, cache, reads, writes, login, sessions,
                   written, failures>>

-----------------------------------------------------------------------------
(* The session.                                                            *)

TokenOf(s) == IF s.token = 0 \/ s.token = session.token THEN csrf ELSE s.token

LandSession(q) ==
    /\ q.answer # Pending
    /\ asked' = {}
    /\ csrf' = TokenOf(q.answer)
    /\ failures' = 0
    /\ Commit(q.answer, expired, cache, reads)
    /\ UNCHANGED <<cookie, writes, login, logout, sessions, written>>

(* What was known stays; what was not is that nobody is signed in.         *)
LoseSession(q) ==
    /\ failures < MaxFailures
    /\ failures' = failures + 1 /\ asked' = {}
    /\ Commit(IF session = Pending THEN Nobody ELSE session, expired, cache, reads)
    /\ UNCHANGED <<cookie, csrf, writes, login, logout, sessions, written>>

-----------------------------------------------------------------------------
(* Requests.                                                               *)

(* The private queries race the session.                                   *)
Read ==
    /\ AuthState(session, expired) # Unauthenticated /\ Cardinality(reads) < MaxReads
    /\ reads' = reads \union {[answer |-> Unanswered]}
    /\ UNCHANGED <<cookie, session, asked, expired, had, csrf, cache, writes, login, logout,
                   sessions, written, failures>>

(* A refusal is told to the shell, unless the session is being asked for.  *)
Refusal(r) == expired \/ ~Suppressed

LandRead(r) ==
    /\ r.answer # Unanswered
    /\ IF r.answer = Unauthenticated
       THEN Commit(session, Refusal(r), cache, reads \ {r})
       ELSE Commit(session, expired, cache \union {r.answer}, reads \ {r})
    /\ UNCHANGED <<cookie, asked, csrf, writes, login, logout, sessions, written, failures>>

Write(kind) ==
    /\ Authenticated /\ written < MaxWrites
    /\ written' = written + 1
    /\ writes' = writes \union {[kind |-> kind, id |-> written, token |-> csrf, answer |-> Unanswered]}
    /\ UNCHANGED <<cookie, session, asked, expired, had, csrf, cache, reads, login, logout,
                   sessions, failures>>

LandWrite(w) ==
    /\ w.answer # Unanswered
    /\ writes' = writes \ {w}
    /\ IF w.answer = Unauthenticated
       THEN Commit(session, IF w.kind = "request" THEN Refusal(w) ELSE expired, cache, reads)
       ELSE UNCHANGED <<session, expired, had, cache, reads>>
    /\ UNCHANGED <<cookie, asked, csrf, login, logout, sessions, written, failures>>

-----------------------------------------------------------------------------
(* Coming and going.                                                       *)

Login(a) ==
    /\ AuthState(session, expired) = Unauthenticated /\ login = {}
    /\ login' = {[user |-> a, answer |-> Pending]}
    /\ UNCHANGED <<cookie, session, asked, expired, had, csrf, cache, reads, writes, logout,
                   sessions, written, failures>>

TokenAnswered(q) == q.answer.token

(* onSignedIn(): the session is fetched again.                             *)
SignedIn(q) ==
    /\ q.answer # Pending
    /\ login' = {} /\ asked' = {[answer |-> Pending]}
    /\ csrf' = TokenAnswered(q)
    /\ Commit(session, FALSE, cache, reads)
    /\ UNCHANGED <<cookie, writes, logout, sessions, written, failures>>

Logout ==
    /\ Authenticated /\ logout = {}
    /\ logout' = {[token |-> csrf, answer |-> Unanswered]}
    /\ UNCHANGED <<cookie, session, asked, expired, had, csrf, cache, reads, writes, login,
                   sessions, written, failures>>

(* onSignOut(): whatever was answered.                                     *)
SignedOut(q) ==
    /\ q.answer # Unanswered
    /\ logout' = {} /\ csrf' = 0
    /\ Commit(session, TRUE, cache, reads)
    /\ UNCHANGED <<cookie, asked, writes, login, sessions, written, failures>>

-----------------------------------------------------------------------------
Next ==
    \/ Expire \/ Read \/ Logout
    \/ \E q \in asked : AnswerSession(q) \/ LandSession(q) \/ LoseSession(q)
    \/ \E r \in reads : AnswerRead(r) \/ LandRead(r)
    \/ \E kind \in Writes : Write(kind)
    \/ \E w \in writes : AnswerWrite(w) \/ LandWrite(w)
    \/ \E a \in Registrants : Login(a)
    \/ \E q \in login : AnswerLogin(q) \/ SignedIn(q)
    \/ \E q \in logout : AnswerLogout(q) \/ SignedOut(q)

Spec == Init /\ [][Next]_vars

-----------------------------------------------------------------------------
(* The session was asked for, and answered.                                *)
Known == asked = {} /\ login = {} /\ logout = {} /\ failures = 0

(* Everything cached for an account is dropped the moment the account      *)
(* changes, and nothing of it comes in afterwards.  (Root.tsx)             *)
OnlyTheirOwn == Authenticated /\ Known => cache \subseteq {session.user}

(* Once the session is known, what the reader does is accepted, however    *)
(* they came to be signed in.  (Root.tsx: "picks up the new CSRF token")   *)
WritesAreAccepted ==
    Authenticated /\ Known /\ cookie # Nobody => cookie.user = session.user /\ csrf = cookie.token
=============================================================================
