----------------------------- MODULE MCIdentity -----------------------------
(***************************************************************************)
(* Who is signed in: the session files (Sessions), the accounts and the    *)
(* routes that change them (Accounts), and what a tab knows of it (Shell). *)
(* They are told apart by their own variables, so a behaviour exercises    *)
(* one of them, and all are in every state.                                *)
(***************************************************************************)
EXTENDS Sessions

CONSTANTS Parts,
          t1, t2, u1, u2, c1, c2, c3,                 \* Sessions
          Ids, Names, Passwords, Cookies, Askers,     \* Accounts
          Instances,    \* what is on disk at first
          Asked,        \* what may be asked of it,
          AskedFirst,   \* and of one that nobody has claimed
          Readers, Writes, MaxSessions, MaxReads, MaxWrites, MaxFailures   \* Shell

VARIABLES part,
          account, registry, session, running, turn, place, job, who, known, found, hit, rec, map,
          listed, issued, barred, before, late,
          cookie, fetched, asked, expired, had, csrf, cache, reads, writes, login, logout,
          sessions, written, failures

accountVars == <<account, registry, session, running, turn, place, job, who, known, found, hit, rec,
                 map, listed, issued, barred, before, late>>
shellVars == <<cookie, fetched, asked, expired, had, csrf, cache, reads, writes, login, logout,
               sessions, written, failures>>

-----------------------------------------------------------------------------
(* One session that exists, one that may exist or may yet be created, and  *)
(* three calls of any kind.  The cleanup runs before the server listens    *)
(* (server/index.ts).                                                      *)
SessionsThere ==
    \E there \in {{t1}, {t1, t2}}, owner \in {u1, u2} :
        /\ file = [t \in Tokens |->
                      IF t \notin there THEN None
                      ELSE [user |-> IF t = t1 THEN u1 ELSE owner, expires |-> 2, idle |-> 1]]
        /\ born = [t \in Tokens |-> IF t \in there THEN 0 ELSE None]

SomeSessions ==
    /\ SessionsThere
    /\ clock = 0
    /\ line = [t \in Tokens |-> << >>]
    /\ pc = [d \in Calls |-> "idle"]
    /\ call = [d \in Calls |-> None]
    /\ copy = [d \in Calls |-> None]
    /\ todo = [d \in Calls |-> {}]
    /\ at = [d \in Calls |-> None]
    /\ now = [d \in Calls |-> 0]
    /\ aimed = [d \in Calls |-> {}]

Busy(d) == pc[d] \notin {"idle", "done"}

(* Calls are interchangeable: they begin in order.                         *)
Turn(d) == (d = c2 => pc[c1] # "idle") /\ (d = c3 => pc[c2] # "idle")

(* Users are interchangeable as well: t1 is a session of u1.               *)
RevokesTheFirst(d) == call'[d] # None /\ call'[d].op = "revokeAll" => call'[d].user = u1

SessionCalls ==
    \/ Tick
    \/ \E d \in Calls :
           \/ Onward(d)
           \/ Turn(d) /\ Start(d) /\ RevokesTheFirst(d) /\ ~ \E e \in Calls : Busy(e) /\ call[e].op = "cleanup"
           \/ Turn(d) /\ Cleanup(d) /\ ~ \E e \in Calls : Busy(e)

-----------------------------------------------------------------------------
(* Two requests beside each other on an instance with two accounts, each   *)
(* with a session, and room for one more; or on one nobody has claimed.    *)
A == INSTANCE Accounts WITH
         Tokens <- Cookies, Requests <- Askers, line <- turn, pc <- place

Person(name, role) == [name |-> name, role |-> role, status |-> "active", pw |-> "old"]
MCInstances ==
    {[account |-> [ada |-> Person("anna", "admin"), bob |-> Person("bert", role), cyd |-> None],
      registry |-> names, session |-> [ta |-> "ada", tb |-> "bob", tc |-> None, td |-> None],
      running |-> busy] :
     role \in A!Roles, names \in {None, [anna |-> "ada", bert |-> "bob"]}, busy \in {{}, {"bob"}}}

(* Each of the two changes the other's account; passwords are given as     *)
(* they were, and the name that is asked for is the free one.              *)
Login(name, with) == [kind |-> "login", token |-> with, name |-> name, pw |-> "old"]
Patch(with, id, role, status) ==
    [kind |-> "patch", token |-> with, target |-> id, role |-> role, status |-> status]
MCAsked ==
    [kind : {"visit", "logout", "send"}, token : {"tb"}]
    \union {Login("bert", "tb"), Login("bert", None),
            [kind |-> "signup", name |-> "carl", pw |-> "old"]}
    \union [kind : {"account"}, token : {"tb"}, pw : {"old"}, name : {"carl"}, newPw : {"new", None}]
    \union {[kind |-> "account", token |-> "tb", pw |-> "old", name |-> None, newPw |-> "new"],
            [kind |-> "adminCreate", token |-> "ta", name |-> "carl", pw |-> "old", role |-> "admin"],
            [kind |-> "adminPassword", token |-> "ta", target |-> "bob", newPw |-> "new"],
            [kind |-> "delete", token |-> "ta", target |-> "bob", name |-> "bert"],
            [kind |-> "delete", token |-> "tb", target |-> "ada", name |-> "anna"]}
    \union {Patch(p[1], p[2], q[1], q[2]) : p \in {<<"ta", "bob">>, <<"tb", "ada">>},
            q \in {<<"user", None>>, <<None, "active">>, <<None, "disabled">>}}
MCAskedFirst ==
    [kind : {"claim", "signup"}, name : {"anna", "bert"}, pw : {"old"}]
    \union {Login("anna", None), Login("bert", None)}

Claimed ==
    /\ A!Resting
    /\ \E x \in Instances :
           /\ account = x.account /\ registry = x.registry
           /\ session = x.session /\ running = x.running
           /\ issued = {i \in Ids : x.account[i] # None} \union {t \in Cookies : x.session[t] # None}

(* Requests that have not begun are interchangeable.                       *)
NextAsker == LET idle == {r \in Askers : place[r] = "idle"}
             IN  IF idle = {} THEN {} ELSE {CHOOSE r \in idle : TRUE}

AccountsNext ==
    \/ \E r \in Askers : A!Step(r)
    \/ \E r \in NextAsker, j \in IF part = "accounts" THEN Asked ELSE AskedFirst : A!Arrive(r, j)
    \/ \E i \in Ids : A!GenerationEnds(i)

-----------------------------------------------------------------------------
(* Two readers sign in and out of one browser.                             *)
H == INSTANCE Shell WITH Accounts <- Readers, Registrants <- Readers, session <- fetched

-----------------------------------------------------------------------------
ASSUME Assumptions ==
    /\ A!NoneAssumption /\ H!ShellAssumption
    /\ Asked \subseteq A!Job
    /\ AskedFirst \subseteq {j \in A!Job : j.kind \in {"claim", "signup", "login"}}
    /\ Instances \subseteq [account : [Ids -> A!Maybe(A!Account, None)],
                            registry : A!Maybe(A!Registry, None),
                            session : [Cookies -> A!Maybe(Ids, None)], running : SUBSET Ids]

Init ==
    /\ part \in Parts
    /\ IF part = "sessions" THEN SomeSessions ELSE SessionsInit
    /\ IF part = "accounts" THEN Claimed ELSE A!Init
    /\ H!Init /\ (part # "shell" => cookie = H!Nobody)

Next ==
    \/ part = "sessions" /\ SessionCalls /\ UNCHANGED <<part, accountVars, shellVars>>
    \/ part \in {"accounts", "unclaimed"} /\ AccountsNext /\ UNCHANGED <<part, sessionsVars, shellVars>>
    \/ part = "shell" /\ H!Next /\ UNCHANGED <<part, sessionsVars, accountVars>>

Spec == Init /\ [][Next]_<<part, sessionsVars, accountVars, shellVars>>

-----------------------------------------------------------------------------
(* Who is barred is not served, and has nothing running (INV-17); and of   *)
(* those who claim an empty instance at once one becomes its administrator *)
(* (users.ts, createIfEmpty()).                                            *)
BarredAreOut ==
    /\ A!BarredAreOut
    /\ part = "unclaimed" =>
           \A i, j \in {x \in Ids : account[x] # None /\ account[x].role = "admin"} : i = j

(* There is always at least one active administrator (INV-26).             *)
AlwaysAnAdministrator == part = "accounts" => A!AlwaysAnAdministrator

(* What a tab keeps is of the one who is signed in, and what they do is    *)
(* accepted (Root.tsx).                                                    *)
OnlyTheirOwn == H!OnlyTheirOwn /\ H!WritesAreAccepted
=============================================================================
