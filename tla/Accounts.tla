------------------------------ MODULE Accounts ------------------------------
(***************************************************************************)
(* Accounts and who may act as whom: the user files and the username       *)
(* registry of server/auth/users.ts, the middleware that admits a request, *)
(* and the routes that sign in, change, reduce and delete accounts         *)
(* (routes/auth.ts, routes/admin.ts, routes/me.ts).                        *)
(*                                                                         *)
(* A request runs from one await to the next.  The registry lock is a line *)
(* whose first request is inside (KeyedLock); only create, rename and      *)
(* delete take it.  A session is one file, used and removed atomically     *)
(* (Sessions); a revocation lists the directory and removes what it found. *)
(* A password is a value; hashing is the await it costs.                   *)
(***************************************************************************)
EXTENDS Integers, Sequences, FiniteSets

CONSTANTS Ids, Names, Passwords, Tokens, Requests, None

NoneAssumption == None \notin Ids \union Names \union Passwords \union Tokens

VARIABLES account,    \* account[i]: data/<id>/user.json, or None
          registry,   \* users.index.json: names to ids, or None when it is missing
          session,    \* session[t]: whom the session file of t admits, or None
          running,    \* accounts with a generation in progress
          line,       \* the registry lock: requests in order of arrival
          pc, job,    \* where each request is, and what it asks
          who, known, \* req.auth: the caller's id and username, None when not signed in
          found, hit, \* findByUsername(): the id the registry gave, and its record
          rec,        \* a record read by id, to be written back
          map,        \* what rebuildRegistry() is about to write
          listed,     \* the session files a revocation found
          issued,     \* history: tokens and ids used up
          barred,     \* history: accounts disabled or deleted, and so answered
          before,     \* history: who was barred when each request arrived, and ever since
          late        \* history: accounts with a request past the door

disk == <<account, registry, session, running>>
seeking == <<found, hit, map>>
history == <<issued, barred, before, late>>
vars == <<disk, line, pc, job, who, known, seeking, rec, listed, history>>

Roles == {"user", "admin"}
Maybe(S, none) == S \union {none}
Account == [name : Names, role : Roles, status : {"active", "disabled"}, pw : Passwords]
Registry == UNION {[S -> Ids] : S \in SUBSET Names}
Job ==
    [kind : {"visit", "logout", "send"}, token : Tokens]
    \union [kind : {"login"}, token : Maybe(Tokens, None), name : Names, pw : Passwords]
    \union [kind : {"claim", "signup"}, name : Names, pw : Passwords]
    \union [kind : {"account"}, token : Tokens, pw : Passwords,
            name : Maybe(Names, None), newPw : Maybe(Passwords, None)]
    \union [kind : {"adminCreate"}, token : Tokens, name : Names, pw : Passwords, role : Roles]
    \union [kind : {"adminPassword"}, token : Tokens, target : Ids, newPw : Passwords]
    \union [kind : {"patch"}, token : Tokens, target : Ids,
            role : Maybe(Roles, None), status : {"active", "disabled", None}]
    \union [kind : {"delete"}, token : Tokens, target : Ids, name : Names]

Places == {"idle", "resolve", "lookup", "evict", "admin", "start", "seek", "fetch", "scan",
           "rewrite", "refetch", "verify", "swap", "open", "queue", "inside", "decide", "write",
           "erase", "exists", "check", "read", "unlocked", "list", "remove", "rescan", "register",
           "done", "refused"}

TypeOK ==
    /\ account \in [Ids -> Maybe(Account, None)]
    /\ registry \in Maybe(Registry, None)
    /\ session \in [Tokens -> Maybe(Ids, None)]
    /\ running \subseteq Ids
    /\ line \in Seq(Requests)
    /\ pc \in [Requests -> Places]
    /\ job \in [Requests -> Maybe(Job, None)]
    /\ who \in [Requests -> Maybe(Ids, None)]
    /\ known \in [Requests -> Maybe(Names, None)]
    /\ found \in [Requests -> Maybe(Ids, None)]
    /\ hit \in [Requests -> Maybe(Account, None)]
    /\ rec \in [Requests -> Maybe(Account, None)]
    /\ map \in [Requests -> Maybe(Registry, None)]
    /\ listed \in [Requests -> SUBSET Tokens]
    /\ issued \subseteq Tokens \union Ids
    /\ barred \subseteq Ids /\ late \subseteq Ids
    /\ before \in [Requests -> SUBSET Ids]

Resting ==
    /\ line = << >>
    /\ pc = [r \in Requests |-> "idle"]
    /\ job = [r \in Requests |-> None]
    /\ who = [r \in Requests |-> None]
    /\ known = [r \in Requests |-> None]
    /\ found = [r \in Requests |-> None]
    /\ hit = [r \in Requests |-> None]
    /\ rec = [r \in Requests |-> None]
    /\ map = [r \in Requests |-> None]
    /\ listed = [r \in Requests |-> {}]
    /\ barred = {} /\ late = {}
    /\ before = [r \in Requests |-> {}]

Init ==
    /\ Resting
    /\ account = [i \in Ids |-> None]
    /\ registry = None
    /\ session = [t \in Tokens |-> None]
    /\ running = {}
    /\ issued = {}

-----------------------------------------------------------------------------
Go(r, where) == pc' = [pc EXCEPT ![r] = where]
Is(r, kinds) == job[r].kind \in kinds
AdminKinds == {"adminCreate", "adminPassword", "patch", "delete"}

Active(a) == a # None /\ a.status = "active"
ActiveAdmins == {i \in Ids : Active(account[i]) /\ account[i].role = "admin"}

Inside(r) == line # << >> /\ Head(line) = r

Answer(r, what) ==
    /\ Go(r, what)
    /\ line' = IF Inside(r) THEN Tail(line) ELSE line

(* #scan() and the map of it; of two files with one name, either may win.  *)
MapsOf(accounts) ==
    LET names == {accounts[i].name : i \in {j \in Ids : accounts[j] # None}}
    IN  {m \in [names -> Ids] : \A n \in names :
             accounts[m[n]] # None /\ accounts[m[n]].name = n}

-----------------------------------------------------------------------------
(* A request arrives.  Sign-in and registration need no session; signing   *)
(* in with one is how a session is replaced.                               *)
Arrive(r, asked) ==
    /\ pc[r] = "idle"
    /\ job' = [job EXCEPT ![r] = asked]
    /\ Go(r, IF asked.kind \in {"claim", "signup"} \/ asked.token = None
             THEN "start" ELSE "resolve")
    /\ before' = [before EXCEPT ![r] = barred]
    /\ UNCHANGED <<disk, line, who, known, seeking, rec, listed, issued, barred, late>>

(* authenticate(): the session, then the account it names, on every        *)
(* request.  Without either the request is anonymous: only a sign-in goes  *)
(* on, everything else meets requireAuth().                                *)
Anonymous(r) == Go(r, IF Is(r, {"login"}) THEN "start" ELSE "refused")

Resolve(r) ==
    /\ pc[r] = "resolve"
    /\ IF session[job[r].token] = None
       THEN Anonymous(r) /\ UNCHANGED who
       ELSE Go(r, "lookup") /\ who' = [who EXCEPT ![r] = session[job[r].token]]
    /\ UNCHANGED <<disk, line, job, known, seeking, rec, listed, history>>

Lookup(r) ==
    /\ pc[r] = "lookup"
    /\ IF Active(account[who[r]])
       THEN /\ known' = [known EXCEPT ![r] = account[who[r]].name]
            /\ Go(r, IF Is(r, AdminKinds) THEN "admin" ELSE "start")
       ELSE UNCHANGED known /\ Go(r, "evict")
    /\ UNCHANGED <<disk, line, job, who, seeking, rec, listed, history>>

(* A session of nobody, or of somebody disabled, is destroyed on sight.    *)
Evict(r) ==
    /\ pc[r] = "evict"
    /\ session' = [session EXCEPT ![job[r].token] = None]
    /\ who' = [who EXCEPT ![r] = None]
    /\ Anonymous(r)
    /\ UNCHANGED <<account, registry, running, line, job, known, seeking, rec, listed, history>>

RequireAdmin(r) ==
    /\ pc[r] = "admin"
    /\ Go(r, IF who[r] \in ActiveAdmins THEN "start" ELSE "refused")
    /\ UNCHANGED <<disk, line, job, who, known, seeking, rec, listed, history>>

-----------------------------------------------------------------------------
(* The first step of each handler.                                         *)
Visit(r) ==
    /\ pc[r] = "start" /\ Is(r, {"visit", "logout", "send"})
    /\ session' = IF Is(r, {"logout"}) THEN [session EXCEPT ![job[r].token] = None] ELSE session
    /\ running' = IF Is(r, {"send"}) THEN running \union {who[r]} ELSE running
    /\ Go(r, "done")
    /\ UNCHANGED <<account, registry, line, job, who, known, seeking, rec, listed, history>>

GenerationEnds(i) ==
    /\ i \in running
    /\ running' = running \ {i}
    /\ UNCHANGED <<account, registry, session, line, pc, job, who, known, seeking, rec, listed,
                   history>>

Begin(r) ==
    /\ pc[r] = "start" /\ ~Is(r, {"visit", "logout", "send"})
    /\ Go(r, CASE Is(r, {"login", "account"}) -> "seek"
               [] Is(r, {"claim", "signup", "adminCreate"}) -> "queue"
               [] OTHER -> "exists")
    /\ UNCHANGED <<disk, line, job, who, known, seeking, rec, listed, history>>

(* findByUsername(), in the lock or out of it: the registry, the record it *)
(* points to, and once more after a rebuild if there is none.              *)
Sought(r) == IF Is(r, {"account"}) /\ ~Inside(r) THEN known[r] ELSE job[r].name
Then(r) == IF Inside(r) THEN "decide" ELSE "verify"

Seek(r) ==
    /\ pc[r] = "seek"
    /\ \/ /\ registry = None
          /\ Go(r, "scan")
          /\ UNCHANGED <<found, hit>>
       \/ /\ registry # None
          /\ Sought(r) \notin DOMAIN registry
          /\ hit' = [hit EXCEPT ![r] = None]
          /\ Go(r, Then(r))
          /\ UNCHANGED found
       \/ /\ registry # None
          /\ Sought(r) \in DOMAIN registry
          /\ found' = [found EXCEPT ![r] = registry[Sought(r)]]
          /\ Go(r, "fetch")
          /\ UNCHANGED hit
    /\ UNCHANGED <<disk, line, job, who, known, map, rec, listed, history>>

Fetch(r) ==
    /\ pc[r] = "fetch"
    /\ hit' = [hit EXCEPT ![r] = account[found[r]]]
    /\ Go(r, IF account[found[r]] = None THEN "scan" ELSE Then(r))
    /\ UNCHANGED <<disk, line, job, who, known, found, map, rec, listed, history>>

Scan(r) ==
    /\ pc[r] = "scan"
    /\ \E m \in MapsOf(account) : map' = [map EXCEPT ![r] = m]
    /\ Go(r, "rewrite")
    /\ UNCHANGED <<disk, line, job, who, known, found, hit, rec, listed, history>>

Rewrite(r) ==
    /\ pc[r] = "rewrite"
    /\ registry' = map[r]
    /\ IF Sought(r) \in DOMAIN map[r]
       THEN found' = [found EXCEPT ![r] = map[r][Sought(r)]] /\ Go(r, "refetch") /\ UNCHANGED hit
       ELSE hit' = [hit EXCEPT ![r] = None] /\ Go(r, Then(r)) /\ UNCHANGED found
    /\ UNCHANGED <<account, session, running, line, job, who, known, map, rec, listed, issued,
                   barred, before, late>>

Refetch(r) ==
    /\ pc[r] = "refetch"
    /\ hit' = [hit EXCEPT ![r] = account[found[r]]]
    /\ Go(r, Then(r))
    /\ UNCHANGED <<disk, line, job, who, known, found, map, rec, listed, history>>

-----------------------------------------------------------------------------
(* Signing in, and the proof of identity that a change of one's own account *)
(* asks for: the record found is the one the password is compared with.    *)
Renamed(r) == IF job[r].newPw # None THEN "read" ELSE "done"
Verify(r) ==
    /\ pc[r] = "verify"
    /\ Go(r, IF hit[r] = None \/ hit[r].pw # job[r].pw THEN "refused"
             ELSE IF Is(r, {"login"})
             THEN IF ~Active(hit[r]) THEN "refused"
                  ELSE IF who[r] = None THEN "open" ELSE "swap"
             ELSE IF job[r].name # None THEN "queue" ELSE Renamed(r))
    /\ UNCHANGED <<disk, line, job, who, known, seeking, rec, listed, history>>

Swap(r) ==
    /\ pc[r] = "swap"
    /\ session' = [session EXCEPT ![job[r].token] = None]
    /\ Go(r, "open")
    /\ UNCHANGED <<account, registry, running, line, job, who, known, seeking, rec, listed,
                   history>>

Open(r, t) ==
    /\ pc[r] = "open"
    /\ t \notin issued
    /\ issued' = issued \union {t}
    /\ session' = [session EXCEPT ![t] = found[r]]
    /\ Go(r, "done")
    /\ UNCHANGED <<account, registry, running, line, job, who, known, seeking, rec, listed, barred,
                   before, late>>

-----------------------------------------------------------------------------
(* Under the registry lock: create, rename, delete.                        *)
Queue(r) ==
    /\ pc[r] = "queue"
    /\ line' = Append(line, r)
    /\ Go(r, "inside")
    /\ UNCHANGED <<disk, job, who, known, seeking, rec, listed, history>>

EnterToClaim(r) ==
    /\ Is(r, {"claim"})
    /\ IF \E i \in Ids : account[i] # None
       THEN Answer(r, "refused") ELSE Go(r, "seek") /\ UNCHANGED line
    /\ UNCHANGED rec
EnterToCreate(r) == Is(r, {"signup", "adminCreate"}) /\ Go(r, "seek") /\ UNCHANGED <<line, rec>>
EnterToRename(r) ==
    /\ Is(r, {"account"})
    /\ rec' = [rec EXCEPT ![r] = account[who[r]]]
    /\ IF account[who[r]] = None THEN Answer(r, "refused")
       ELSE IF account[who[r]].name = job[r].name THEN Answer(r, Renamed(r))
       ELSE Go(r, "seek") /\ UNCHANGED line
EnterToDelete(r) ==
    /\ Is(r, {"delete"})
    /\ IF account[job[r].target] = None
       THEN Answer(r, "refused") ELSE Go(r, "erase") /\ UNCHANGED line
    /\ UNCHANGED rec
Enter(r) ==
    /\ pc[r] = "inside"
    /\ Inside(r)
    /\ EnterToClaim(r) \/ EnterToCreate(r) \/ EnterToRename(r) \/ EnterToDelete(r)
    /\ UNCHANGED <<disk, job, who, known, seeking, listed, history>>

Decide(r) ==
    /\ pc[r] = "decide"
    /\ IF hit[r] # None THEN Answer(r, "refused") ELSE Go(r, "write") /\ UNCHANGED line
    /\ UNCHANGED <<disk, job, who, known, seeking, rec, listed, history>>

(* #write(): the whole record, whatever the file holds by now.             *)
Put(i, a) ==
    /\ account' = [account EXCEPT ![i] = a]
    /\ IF Active(a)
       THEN barred' = barred \ {i} /\ before' = [r \in Requests |-> before[r] \ {i}]
       ELSE UNCHANGED <<barred, before>>

Insert(r, i) ==
    /\ pc[r] = "write" /\ ~Is(r, {"account"})
    /\ i \notin issued
    /\ issued' = issued \union {i}
    /\ account' = [account EXCEPT ![i] =
           [name |-> job[r].name, status |-> "active", pw |-> job[r].pw,
            role |-> IF Is(r, {"claim"}) THEN "admin"
                     ELSE IF Is(r, {"adminCreate"}) THEN job[r].role ELSE "user"]]
    /\ found' = [found EXCEPT ![r] = i]
    /\ Go(r, "rescan")
    /\ UNCHANGED <<registry, session, running, line, job, who, known, hit, map, rec, listed, barred,
                   before, late>>

Rename(r) ==
    /\ pc[r] = "write" /\ Is(r, {"account"})
    /\ Put(who[r], [rec[r] EXCEPT !.name = job[r].name])
    /\ Go(r, "rescan")
    /\ UNCHANGED <<registry, session, running, line, job, who, known, seeking, rec, listed, issued,
                   late>>

Erase(r) ==
    /\ pc[r] = "erase"
    /\ account' = [account EXCEPT ![job[r].target] = None]
    /\ Go(r, "rescan")
    /\ UNCHANGED <<registry, session, running, line, job, who, known, seeking, rec, listed,
                   history>>

Rescan(r) ==
    /\ pc[r] = "rescan"
    /\ \E m \in MapsOf(account) : map' = [map EXCEPT ![r] = m]
    /\ Go(r, "register")
    /\ UNCHANGED <<disk, line, job, who, known, found, hit, rec, listed, history>>

(* Somebody past authentication, on whose behalf work may still begin.     *)
PastTheDoor(i) == i \in running \/ \E q \in Requests : who[q] = i /\ pc[q] = "start"

Register(r) ==
    /\ pc[r] = "register"
    /\ registry' = map[r]
    /\ Answer(r, CASE Is(r, {"claim", "signup"}) -> "open"
                   [] Is(r, {"account"}) -> Renamed(r)
                   [] OTHER -> "done")
    /\ IF Is(r, {"delete"}) /\ account[job[r].target] = None
       THEN /\ barred' = barred \union {job[r].target}
            /\ late' = IF PastTheDoor(job[r].target) THEN late \union {job[r].target} ELSE late
       ELSE UNCHANGED <<barred, late>>
    /\ UNCHANGED <<account, session, running, job, who, known, seeking, rec, listed, issued,
                   before>>

-----------------------------------------------------------------------------
(* An administrator's change: the account as it is, the last administrator *)
(* spared, and then the write, which reads the record again.               *)
Target(r) == IF Is(r, {"account"}) THEN who[r] ELSE job[r].target
ReducesFrom(r, was) ==
    \/ Is(r, {"delete"})
    \/ /\ Is(r, {"patch"})
       /\ \/ job[r].role = "user" /\ was.role = "admin"
          \/ job[r].status = "disabled" /\ was.status = "active"
Reduces(r) == ReducesFrom(r, hit[r])
Exists(r) ==
    /\ pc[r] = "exists"
    /\ hit' = [hit EXCEPT ![r] = account[Target(r)]]
    /\ Go(r, IF \/ account[Target(r)] = None
                \/ Is(r, {"delete"}) /\ account[Target(r)].name # job[r].name
             THEN "refused"
             ELSE IF Target(r) \in ActiveAdmins /\ ReducesFrom(r, account[Target(r)])
             THEN "check"
             ELSE IF Is(r, {"delete"}) THEN "list" ELSE "read")
    /\ UNCHANGED <<disk, line, job, who, known, found, map, rec, listed, history>>

AssertNotLastAdmin(r) ==
    /\ pc[r] = "check"
    /\ Go(r, IF ActiveAdmins \ {Target(r)} = {} THEN "refused"
             ELSE IF Is(r, {"delete"}) THEN "list" ELSE "read")
    /\ UNCHANGED <<disk, line, job, who, known, seeking, rec, listed, issued, barred, before, late>>

(* setPassword() and update(): read, and write back without a lock.        *)
UpdateRead(r) ==
    /\ pc[r] = "read"
    /\ rec' = [rec EXCEPT ![r] = account[Target(r)]]
    /\ Go(r, IF account[Target(r)] = None THEN "refused" ELSE "unlocked")
    /\ UNCHANGED <<disk, line, job, who, known, seeking, listed, history>>

Changed(r) ==
    IF Is(r, {"patch"})
    THEN [rec[r] EXCEPT !.role = IF job[r].role = None THEN @ ELSE job[r].role,
                        !.status = IF job[r].status = None THEN @ ELSE job[r].status]
    ELSE [rec[r] EXCEPT !.pw = job[r].newPw]

UpdateWrite(r) ==
    /\ pc[r] = "unlocked"
    /\ Put(Target(r), Changed(r))
    /\ Go(r, IF ~Is(r, {"patch"}) \/ Reduces(r) THEN "list" ELSE "done")
    /\ UNCHANGED <<registry, session, running, line, job, who, known, seeking, rec, listed, issued,
                   late>>

(* revokeAllForUser(): what the directory holds now, minus the caller's own *)
(* session when the caller changed his own password.                       *)
Spared(r) == IF Is(r, {"account"}) THEN {job[r].token} ELSE {}
List(r) ==
    /\ pc[r] = "list"
    /\ listed' = [listed EXCEPT ![r] = {t \in Tokens : session[t] # None} \ Spared(r)]
    /\ Go(r, "remove")
    /\ UNCHANGED <<disk, line, job, who, known, seeking, rec, issued, barred, before, late>>

(* ... and revokeAccess() then cancels what the account has running.       *)
RemoveWithoutCancelling(r) ==
    /\ pc[r] = "remove"
    /\ session' = [t \in Tokens |->
           IF t \in listed[r] /\ session[t] = Target(r)
           THEN None ELSE session[t]]
    /\ UNCHANGED <<running, late>>
    /\ barred' = IF Is(r, {"patch"}) /\ ~Active(account[Target(r)])
                 THEN barred \union {Target(r)} ELSE barred
    /\ Go(r, IF Is(r, {"delete"}) THEN "queue" ELSE "done")
    /\ UNCHANGED <<account, registry, line, job, who, known, seeking, rec, listed, issued, before>>

Remove(r) ==
    /\ pc[r] = "remove"
    /\ session' = [t \in Tokens |->
           IF t \in listed[r] /\ session[t] = Target(r)
           THEN None ELSE session[t]]
    /\ IF Is(r, {"patch", "delete"})
       THEN /\ running' = running \ {Target(r)}
            /\ late' = IF \E q \in Requests : who[q] = Target(r) /\ pc[q] = "start"
                       THEN late \union {Target(r)} ELSE late
       ELSE UNCHANGED <<running, late>>
    /\ barred' = IF Is(r, {"patch"}) /\ ~Active(account[Target(r)])
                 THEN barred \union {Target(r)} ELSE barred
    /\ Go(r, IF Is(r, {"delete"}) THEN "queue" ELSE "done")
    /\ UNCHANGED <<account, registry, line, job, who, known, seeking, rec, listed, issued, before>>

-----------------------------------------------------------------------------
Step(r) ==
    \/ Resolve(r) \/ Lookup(r) \/ Evict(r) \/ RequireAdmin(r)
    \/ Visit(r) \/ Begin(r)
    \/ Seek(r) \/ Fetch(r) \/ Scan(r) \/ Rewrite(r) \/ Refetch(r)
    \/ Verify(r) \/ Swap(r) \/ \E t \in Tokens : Open(r, t)
    \/ Queue(r) \/ Enter(r) \/ Decide(r) \/ Rename(r) \/ \E i \in Ids : Insert(r, i)
    \/ Erase(r) \/ Rescan(r) \/ Register(r)
    \/ Exists(r) \/ AssertNotLastAdmin(r) \/ UpdateRead(r) \/ UpdateWrite(r)
    \/ List(r) \/ Remove(r)

Next ==
    \/ \E r \in Requests : Step(r) \/ \E asked \in Job : Arrive(r, asked)
    \/ \E i \in Ids : GenerationEnds(i)

Spec == Init /\ [][Next]_vars

-----------------------------------------------------------------------------
(* INV-26: there is always at least one active administrator.              *)
AlwaysAnAdministrator == ActiveAdmins # {}

(* Who was disabled or deleted before a request arrived, and has been ever *)
(* since, is not served by it nor signed in by it; and he has nothing      *)
(* running unless a request was past authentication when his work was      *)
(* cancelled (INV-17).                                                     *)
Served(r) == who[r] # None /\ pc[r] \notin {"lookup", "evict", "refused"}
BarredAreOut ==
    /\ \A r \in Requests :
           /\ Served(r) => who[r] \notin before[r]
           /\ pc[r] = "open" /\ Is(r, {"login"}) => found[r] \notin before[r]
    /\ running \intersect barred \subseteq late

=============================================================================
