------------------------------ MODULE Sessions ------------------------------
(***************************************************************************)
(* The session files of server/auth/sessions.ts: one file per token, an    *)
(* idle deadline that every use slides forward, an absolute one that       *)
(* stays, and a lock per file.                                             *)
(*                                                                         *)
(* An action is the code between two awaits.  Calls of SessionManager run  *)
(* beside each other, each doing one operation; line[t] is the chain of    *)
(* the lock of t's file, whose first call is inside (see KeyedLock).  A    *)
(* file that cannot be parsed counts as absent.                            *)
(***************************************************************************)
EXTENDS Integers, Sequences

CONSTANTS Tokens,     \* the random tokens, each issued at most once
          Users,
          Calls,      \* calls of SessionManager, one operation each
          None,
          AbsoluteTtl, IdleTtl,
          Horizon     \* the clock stops here

ASSUME TtlAssumption == AbsoluteTtl \in Nat \ {0} /\ IdleTtl \in Nat \ {0} /\ Horizon \in Nat
ASSUME NoneAssumption == None \notin Tokens \union Users \union Nat

VARIABLES file,       \* file[t]: the session file of t, or None
          clock,
          line,       \* line[t]: the calls in #locks for t, in order of arrival
          pc,         \* where each call is
          call,       \* what each call was asked
          copy,       \* the record a resolve is about to write back
          todo,       \* directory entries a sweep has yet to look at
          at,         \* the token a call is dealing with
          now,        \* the time a cleanup compares with
          born,       \* history: when a token was issued, None before
          aimed       \* history: the files a revocation was to remove

diskVars == <<file, clock>>
callVars == <<line, pc, call, copy, todo, at, now>>
sessionsVars == <<diskVars, callVars, born, aimed>>

Record == [user : Users, expires : Nat, idle : Nat]
Requests ==
    [op : {"resolve", "destroy"}, token : Tokens]
    \union [op : {"revokeAll"}, user : Users]
    \union [op : {"cleanup"}]

TypeOK ==
    /\ file \in [Tokens -> Record \union {None}]
    /\ clock \in 0..Horizon
    /\ line \in [Tokens -> Seq(Calls)]
    /\ pc \in [Calls -> {"idle", "queued", "writing", "unlinking", "sweeping", "done"}]
    /\ call \in [Calls -> Requests \union {None}]
    /\ copy \in [Calls -> Record \union {None}]
    /\ todo \in [Calls -> SUBSET Tokens]
    /\ at \in [Calls -> Tokens \union {None}]
    /\ now \in [Calls -> 0..Horizon]
    /\ born \in [Tokens -> 0..Horizon \union {None}]
    /\ aimed \in [Calls -> SUBSET Tokens]

SessionsInit ==
    /\ file = [t \in Tokens |-> None]
    /\ clock = 0
    /\ line = [t \in Tokens |-> << >>]
    /\ pc = [c \in Calls |-> "idle"]
    /\ call = [c \in Calls |-> None]
    /\ copy = [c \in Calls |-> None]
    /\ todo = [c \in Calls |-> {}]
    /\ at = [c \in Calls |-> None]
    /\ now = [c \in Calls |-> 0]
    /\ born = [t \in Tokens |-> None]
    /\ aimed = [c \in Calls |-> {}]

-----------------------------------------------------------------------------
Go(c, where) == pc' = [pc EXCEPT ![c] = where]
Asks(c, request) == pc[c] = "idle" /\ call' = [call EXCEPT ![c] = request]
Sweeps(c) == call[c].op \in {"revokeAll", "cleanup"}

Expired(record, time) == time >= record.expires \/ time >= record.idle

(* A call that has ended with one file: a sweep goes on to its next entry. *)
Continue(c) == Go(c, IF Sweeps(c) THEN "sweeping" ELSE "done")

(* Joining and leaving the line of a file; only its first call is inside.  *)
Join(c, t) == line' = [line EXCEPT ![t] = Append(@, c)]
Inside(c, t) == line[t] # << >> /\ Head(line[t]) = c
Leave(t) == line' = [line EXCEPT ![t] = Tail(@)]

Tick ==
    /\ clock < Horizon
    /\ clock' = clock + 1
    /\ UNCHANGED <<file, callVars, born, aimed>>

(* create(): a fresh token, its file written whole.                        *)
Create(c, user, t) ==
    /\ pc[c] = "idle"
    /\ born[t] = None
    /\ file' = [file EXCEPT ![t] = [user |-> user, expires |-> clock + AbsoluteTtl,
                                    idle |-> clock + IdleTtl]]
    /\ born' = [born EXCEPT ![t] = clock]
    /\ Go(c, "done")
    /\ UNCHANGED <<clock, line, call, copy, todo, at, now, aimed>>

(* resolve() and destroy() queue for the file of their token.              *)
Queue(c, request, where) ==
    /\ Asks(c, request)
    /\ Join(c, request.token)
    /\ at' = [at EXCEPT ![c] = request.token]
    /\ Go(c, where)
    /\ UNCHANGED <<diskVars, copy, todo, now, born, aimed>>

Resolve(c, t) == born[t] # None /\ Queue(c, [op |-> "resolve", token |-> t], "queued")
Destroy(c, t) == born[t] # None /\ Queue(c, [op |-> "destroy", token |-> t], "unlinking")

(* The reading half of resolve(): the record is judged as soon as it is    *)
(* read; a live one is to be written back with its idle deadline moved.    *)
Refreshed(record, time) == [record EXCEPT !.idle = time + IdleTtl]
ResolveRead(c) ==
    /\ pc[c] = "queued"
    /\ Inside(c, at[c])
    /\ \/ /\ file[at[c]] = None
          /\ Leave(at[c])
          /\ Go(c, "done")
          /\ UNCHANGED copy
       \/ /\ file[at[c]] # None
          /\ Expired(file[at[c]], clock)
          /\ Go(c, "unlinking")
          /\ UNCHANGED <<line, copy>>
       \/ /\ file[at[c]] # None
          /\ ~Expired(file[at[c]], clock)
          /\ copy' = [copy EXCEPT ![c] = Refreshed(file[at[c]], clock)]
          /\ Go(c, "writing")
          /\ UNCHANGED line
    /\ UNCHANGED <<diskVars, call, todo, at, now, born, aimed>>

(* The writing half: the session is answered to its caller.                *)
ResolveWrite(c) ==
    /\ pc[c] = "writing"
    /\ file' = [file EXCEPT ![at[c]] = copy[c]]
    /\ copy' = [copy EXCEPT ![c] = None]
    /\ Leave(at[c])
    /\ Go(c, "done")
    /\ UNCHANGED <<clock, call, todo, at, now, born, aimed>>

(* #unlink(), with the lock of the file held.                              *)
Unlink(c) ==
    /\ pc[c] = "unlinking"
    /\ Inside(c, at[c])
    /\ file' = [file EXCEPT ![at[c]] = None]
    /\ Leave(at[c])
    /\ Continue(c)
    /\ UNCHANGED <<clock, call, copy, todo, at, now, born, aimed>>

(* revokeAllForUser() and cleanupExpired() list the directory once.        *)
There == {t \in Tokens : file[t] # None}
List(c, request, listed, marked) ==
    /\ Asks(c, request)
    /\ todo' = [todo EXCEPT ![c] = listed]
    /\ aimed' = [aimed EXCEPT ![c] = marked]
    /\ now' = [now EXCEPT ![c] = clock]
    /\ Go(c, "sweeping")
    /\ UNCHANGED <<diskVars, line, copy, at, born>>

RevokeAll(c, user, except) ==
    List(c, [op |-> "revokeAll", user |-> user], There \ {except},
         {t \in There \ {except} : file[t].user = user})
Cleanup(c) == List(c, [op |-> "cleanup"], There, {})

Condemned(c, record) ==
    IF call[c].op = "revokeAll" THEN record # None /\ record.user = call[c].user
    ELSE record = None \/ Expired(record, now[c])

SweepSkippingBusy(c, t) ==
    /\ pc[c] = "sweeping"
    /\ t \in todo[c]
    /\ todo' = [todo EXCEPT ![c] = @ \ {t}]
    /\ IF Condemned(c, file[t]) /\ line[t] = << >>
       THEN Join(c, t) /\ at' = [at EXCEPT ![c] = t] /\ Go(c, "unlinking")
       ELSE UNCHANGED <<line, at, pc>>
    /\ UNCHANGED <<diskVars, call, copy, now, born, aimed>>

(* One entry: read without the lock, and queued for if it has to go.       *)
SweepRead(c, t) ==
    /\ pc[c] = "sweeping"
    /\ t \in todo[c]
    /\ todo' = [todo EXCEPT ![c] = @ \ {t}]
    /\ IF Condemned(c, file[t])
       THEN Join(c, t) /\ at' = [at EXCEPT ![c] = t] /\ Go(c, "unlinking")
       ELSE UNCHANGED <<line, at, pc>>
    /\ UNCHANGED <<diskVars, call, copy, now, born, aimed>>

SweepEnd(c) ==
    /\ pc[c] = "sweeping"
    /\ todo[c] = {}
    /\ Go(c, "done")
    /\ UNCHANGED <<diskVars, line, call, copy, todo, at, now, born, aimed>>

Start(c) ==
    \/ \E t \in Tokens : Resolve(c, t) \/ Destroy(c, t) \/ \E u \in Users : Create(c, u, t)
    \/ \E u \in Users, t \in Tokens \union {None} : RevokeAll(c, u, t)

Onward(c) ==
    \/ ResolveRead(c)
    \/ ResolveWrite(c)
    \/ \E t \in Tokens : SweepRead(c, t)
    \/ Unlink(c)
    \/ SweepEnd(c)

SessionsNext == Tick \/ \E c \in Calls : Start(c) \/ Cleanup(c) \/ Onward(c)

SessionsSpec == SessionsInit /\ [][SessionsNext]_sessionsVars

-----------------------------------------------------------------------------
(* INV-17.  A revocation that has returned left none of the user's         *)
(* sessions that were there when it began, except the one it was told to   *)
(* keep, and none of them comes back afterwards: a refresh that was under  *)
(* way must not write it again (sessions.ts:76-88), whatever logouts and   *)
(* cleanups went on beside it.                                             *)
RevocationReaches ==
    \A c \in Calls : pc[c] = "done" => \A t \in aimed[c] : file[t] = None

=============================================================================
