--------------------------- MODULE Identity_proofs ---------------------------
(***************************************************************************)
(* For any tokens, users and calls, any lifetimes of a session and any     *)
(* length of time: a revocation that has returned leaves none of what it   *)
(* was aimed at, and nothing brings it back.  For any accounts and         *)
(* requests: who is barred stays out.  For any browser: a page that knows  *)
(* who is signed in holds nothing of anybody else.                         *)
(***************************************************************************)
EXTENDS MCIdentity, SequenceTheorems, TLAPS

(* A file is there only for a token that was issued, so create() cannot    *)
(* bring a file back.                                                      *)
FilesAreIssued == \A t \in Tokens : file[t] # None => born[t] # None

(* Whoever deals with a file knows which.                                  *)
QueuedForAFile == \A c \in Calls : pc[c] \in {"queued", "writing", "unlinking"} => at[c] \in Tokens

(* Whoever writes a session back is first in the line of its file, the     *)
(* file is still there, and the copy is of the same user: the lock keeps   *)
(* everybody away who could have removed it since it was read.             *)
WritersHoldTheLock ==
    \A c \in Calls : pc[c] = "writing" =>
        /\ Inside(c, at[c])
        /\ file[at[c]] # None
        /\ copy[c] \in Record
        /\ copy[c].user = file[at[c]].user

(* Only a revocation is aimed at anything, and it never waits to refresh.  *)
OnlyRevocationsAim ==
    \A c \in Calls :
        /\ aimed[c] # {} => call[c].op = "revokeAll"
        /\ pc[c] \in {"idle", "queued", "writing"} => aimed[c] = {}

(* Of what a revocation is aimed at, whatever is still there is the        *)
(* user's, and yet to be looked at or about to be removed.                 *)
AimedAreDealtWith ==
    \A c \in Calls : \A t \in aimed[c] :
        /\ born[t] # None
        /\ file[t] # None =>
               /\ file[t].user = call[c].user
               /\ \/ pc[c] \in {"sweeping", "unlinking"} /\ t \in todo[c]
                  \/ pc[c] = "unlinking" /\ at[c] = t

IInv ==
    /\ TypeOK
    /\ FilesAreIssued
    /\ QueuedForAFile
    /\ WritersHoldTheLock
    /\ OnlyRevocationsAim
    /\ AimedAreDealtWith

-----------------------------------------------------------------------------
LEMMA RefreshedType ==
  ASSUME NEW record \in Record, NEW time \in 0..Horizon
  PROVE  Refreshed(record, time) \in Record /\ Refreshed(record, time).user = record.user
BY TtlAssumption DEF TtlAssumption, Refreshed, Record

(* Whoever joins a line that has a head leaves the head where it is.       *)
LEMMA JoiningKeepsTheHead ==
  ASSUME TypeOK, NEW c \in Calls, NEW t \in Tokens, Join(c, t),
         NEW d \in Calls, NEW u \in Tokens, Inside(d, u)
  PROVE  Inside(d, u)'
<1>1. line[u] \in Seq(Calls) /\ line'[u] = IF u = t THEN Append(line[u], c) ELSE line[u]
  BY DEF TypeOK, Join
<1>2. line[u] # << >> /\ Head(line[u]) = d
  BY DEF Inside
<1>3. Append(line[u], c) # << >> /\ Head(Append(line[u], c)) = Head(line[u])
  BY <1>1, <1>2, AppendProperties, LenProperties, EmptySeq
<1>4. QED
  BY <1>1, <1>2, <1>3 DEF Inside

(* When the first call of a line leaves, the heads of others stay.         *)
LEMMA LeavingKeepsTheOthers ==
  ASSUME TypeOK, NEW c \in Calls, NEW t \in Tokens, Inside(c, t), Leave(t),
         NEW d \in Calls, d # c, NEW u \in Tokens, Inside(d, u)
  PROVE  Inside(d, u)' /\ u # t
<1>1. u # t
  BY DEF Inside
<1>2. line'[u] = line[u]
  BY <1>1 DEF TypeOK, Leave
<1>3. QED
  BY <1>1, <1>2 DEF Inside

LEMMA JoinType ==
  ASSUME TypeOK, NEW c \in Calls, NEW t \in Tokens, Join(c, t)
  PROVE  line' \in [Tokens -> Seq(Calls)]
<1>1. Append(line[t], c) \in Seq(Calls)
  BY AppendProperties DEF TypeOK
<1>2. QED
  BY <1>1 DEF Join, TypeOK

LEMMA LeaveType ==
  ASSUME TypeOK, NEW c \in Calls, NEW t \in Tokens, Inside(c, t), Leave(t)
  PROVE  line' \in [Tokens -> Seq(Calls)]
<1>1. Tail(line[t]) \in Seq(Calls)
  BY HeadTailProperties DEF TypeOK, Inside
<1>2. QED
  BY <1>1 DEF Leave, TypeOK

-----------------------------------------------------------------------------
LEMMA TypePreserved ==
  ASSUME IInv, [SessionsNext]_sessionsVars PROVE TypeOK'
<1> USE DEF IInv
<1>1. CASE Tick
  BY <1>1, TtlAssumption DEF Tick, TypeOK, TtlAssumption, callVars
<1>2. ASSUME NEW c \in Calls, NEW u \in Users, NEW t \in Tokens, Create(c, u, t) PROVE TypeOK'
  <2>1. [user |-> u, expires |-> clock + AbsoluteTtl, idle |-> clock + IdleTtl] \in Record
    BY TtlAssumption DEF TypeOK, Record, TtlAssumption
  <2>2. QED
    BY <1>2, <2>1 DEF Create, TypeOK, Go
<1>3. ASSUME NEW c \in Calls, NEW t \in Tokens, Resolve(c, t) \/ Destroy(c, t) PROVE TypeOK'
  <2>1. Join(c, t) /\ at' = [at EXCEPT ![c] = t]
    BY <1>3 DEF Resolve, Destroy, Queue
  <2>a. line' \in [Tokens -> Seq(Calls)] /\ at' \in [Calls -> Tokens \union {None}]
    BY <2>1, JoinType DEF TypeOK
  <2>2. call' \in [Calls -> Requests \union {None}]
    <3>1. [op |-> "resolve", token |-> t] \in Requests /\ [op |-> "destroy", token |-> t] \in Requests
      BY DEF Requests
    <3>2. QED
      BY <1>3, <3>1 DEF Resolve, Destroy, Queue, Asks, TypeOK
  <2>3. QED
    BY <1>3, <2>a, <2>2 DEF Resolve, Destroy, Queue, Go, TypeOK, diskVars
<1>4. ASSUME NEW c \in Calls, NEW u \in Users, NEW t \in Tokens \union {None}, RevokeAll(c, u, t)
      PROVE  TypeOK'
  <2>1. call' \in [Calls -> Requests \union {None}]
    BY <1>4 DEF RevokeAll, List, Asks, Requests, TypeOK
  <2>2. QED
    BY <1>4, <2>1 DEF RevokeAll, List, There, Go, TypeOK, diskVars
<1>5. ASSUME NEW c \in Calls, Cleanup(c) PROVE TypeOK'
  <2>1. call' \in [Calls -> Requests \union {None}]
    BY <1>5 DEF Cleanup, List, Asks, Requests, TypeOK
  <2>2. QED
    BY <1>5, <2>1 DEF Cleanup, List, There, Go, TypeOK, diskVars
<1>6. ASSUME NEW c \in Calls, ResolveRead(c) PROVE TypeOK'
  <2>1. line' \in [Tokens -> Seq(Calls)]
    <3>1. CASE UNCHANGED line
      BY <3>1 DEF TypeOK
    <3>2. CASE Leave(at[c])
      <4>1. at[c] \in Tokens
        BY <1>6 DEF ResolveRead, QueuedForAFile
      <4>2. QED
        BY <1>6, <3>2, <4>1, LeaveType DEF ResolveRead
    <3>3. QED
      BY <1>6, <3>1, <3>2 DEF ResolveRead
  <2>2. copy' \in [Calls -> Record \union {None}]
    <3>1. CASE UNCHANGED copy
      BY <3>1 DEF TypeOK
    <3>2. CASE file[at[c]] # None /\ copy' = [copy EXCEPT ![c] = Refreshed(file[at[c]], clock)]
      <4>1. file[at[c]] \in Record
        BY <1>6, <3>2 DEF ResolveRead, QueuedForAFile, TypeOK
      <4>2. QED
        BY <3>2, <4>1, RefreshedType DEF TypeOK
    <3>3. QED
      BY <1>6, <3>1, <3>2 DEF ResolveRead
  <2>3. QED
    BY <1>6, <2>1, <2>2 DEF ResolveRead, Go, TypeOK, diskVars
<1>7. ASSUME NEW c \in Calls, ResolveWrite(c) PROVE TypeOK'
  <2>1. line' \in [Tokens -> Seq(Calls)]
    BY <1>7, LeaveType DEF ResolveWrite, QueuedForAFile, WritersHoldTheLock
  <2>2. QED
    BY <1>7, <2>1 DEF ResolveWrite, QueuedForAFile, WritersHoldTheLock, Go, TypeOK
<1>8. ASSUME NEW c \in Calls, Unlink(c) PROVE TypeOK'
  <2>1. line' \in [Tokens -> Seq(Calls)]
    BY <1>8, LeaveType DEF Unlink, QueuedForAFile
  <2>2. QED
    BY <1>8, <2>1 DEF Unlink, Continue, Go, TypeOK
<1>9. ASSUME NEW c \in Calls, NEW t \in Tokens, SweepRead(c, t) PROVE TypeOK'
  <2>1. line' \in [Tokens -> Seq(Calls)] /\ at' \in [Calls -> Tokens \union {None}]
    BY <1>9, JoinType DEF SweepRead, TypeOK
  <2>2. QED
    BY <1>9, <2>1 DEF SweepRead, Go, TypeOK, diskVars
<1>10. ASSUME NEW c \in Calls, SweepEnd(c) PROVE TypeOK'
  BY <1>10 DEF SweepEnd, Go, TypeOK, diskVars
<1>11. CASE UNCHANGED sessionsVars
  BY <1>11 DEF sessionsVars, diskVars, callVars, TypeOK
<1>12. QED
  BY <1>1, <1>2, <1>3, <1>4, <1>5, <1>6, <1>7, <1>8, <1>9, <1>10, <1>11
     DEF SessionsNext, Start, Onward

(* A file is written for a token that is new, or over what is there and    *)
(* for the same user; and nobody takes back that a token was issued.       *)
LEMMA FilesStayTheirs ==
  ASSUME IInv, [SessionsNext]_sessionsVars, NEW t \in Tokens
  PROVE  /\ born[t] # None => born'[t] # None
         /\ file'[t] # None => born'[t] # None
         /\ born[t] # None /\ file'[t] # None => file[t] # None /\ file'[t].user = file[t].user
<1> USE DEF IInv
<1>1. CASE UNCHANGED <<file, born>>
  BY <1>1 DEF FilesAreIssued
<1>2. ASSUME NEW c \in Calls, NEW u \in Users, NEW k \in Tokens, Create(c, u, k)
      PROVE  /\ born[t] # None => born'[t] # None
             /\ file'[t] # None => born'[t] # None
             /\ born[t] # None /\ file'[t] # None => file[t] # None /\ file'[t].user = file[t].user
  <2>1. born[k] = None /\ born'[k] # None /\ (t # k => born'[t] = born[t] /\ file'[t] = file[t])
    BY <1>2, NoneAssumption DEF Create, TypeOK, NoneAssumption
  <2>2. CASE t = k
    BY <2>1, <2>2
  <2>3. CASE t # k
    BY <2>1, <2>3 DEF FilesAreIssued
  <2>4. QED
    BY <2>2, <2>3
<1>3. ASSUME NEW c \in Calls, ResolveWrite(c)
      PROVE  /\ born' = born
             /\ file'[t] # None => file[t] # None /\ file'[t].user = file[t].user
  BY <1>3 DEF ResolveWrite, QueuedForAFile, WritersHoldTheLock, TypeOK
<1>4. ASSUME NEW c \in Calls, Unlink(c)
      PROVE  /\ born' = born
             /\ file'[t] # None => file[t] # None /\ file'[t].user = file[t].user
  BY <1>4 DEF Unlink, QueuedForAFile, TypeOK
<1>5. QED
  BY <1>1, <1>2, <1>3, <1>4
     DEF SessionsNext, Start, Onward, Tick, Resolve, Destroy, Queue, RevokeAll, Cleanup, List, ResolveRead,
         SweepRead, SweepEnd, sessionsVars, diskVars, FilesAreIssued

LEMMA QueuedPreserved ==
  ASSUME IInv, [SessionsNext]_sessionsVars PROVE QueuedForAFile'
<1> USE DEF IInv
<1>1. ASSUME NEW c \in Calls, NEW t \in Tokens, at' = [at EXCEPT ![c] = t],
             NEW where, Go(c, where)
      PROVE  QueuedForAFile'
  BY <1>1 DEF QueuedForAFile, TypeOK, Go
<1>2. ASSUME NEW c \in Calls, at' = at, NEW where, Go(c, where),
             where \in {"queued", "writing", "unlinking"} => at[c] \in Tokens
      PROVE  QueuedForAFile'
  BY <1>2 DEF QueuedForAFile, TypeOK, Go
<1>3. CASE UNCHANGED <<at, pc>>
  BY <1>3 DEF QueuedForAFile
<1>4. ASSUME NEW c \in Calls, NEW t \in Tokens, Resolve(c, t) \/ Destroy(c, t)
      PROVE  QueuedForAFile'
  BY <1>1, <1>4 DEF Resolve, Destroy, Queue
<1>5. ASSUME NEW c \in Calls,
             \/ \E u \in Users, t \in Tokens : Create(c, u, t)
             \/ \E u \in Users, t \in Tokens \union {None} : RevokeAll(c, u, t)
             \/ Cleanup(c) \/ ResolveWrite(c) \/ SweepEnd(c) \/ Unlink(c)
      PROVE  QueuedForAFile'
  BY <1>2, <1>5 DEF Create, RevokeAll, Cleanup, List, ResolveWrite, SweepEnd, Unlink, Continue
<1>6. ASSUME NEW c \in Calls, ResolveRead(c) PROVE QueuedForAFile'
  <2>1. at[c] \in Tokens
    BY <1>6 DEF ResolveRead, QueuedForAFile
  <2>2. QED
    BY <1>2, <1>6, <2>1 DEF ResolveRead
<1>7. ASSUME NEW c \in Calls, NEW t \in Tokens, SweepRead(c, t) PROVE QueuedForAFile'
  <2>1. CASE UNCHANGED <<at, pc>>
    BY <1>3, <2>1
  <2>2. CASE at' = [at EXCEPT ![c] = t] /\ Go(c, "unlinking")
    BY <1>1, <2>2
  <2>3. QED
    BY <1>7, <2>1, <2>2 DEF SweepRead
<1>8. QED
  BY <1>3, <1>4, <1>5, <1>6, <1>7 DEF SessionsNext, Start, Onward, Tick, callVars, sessionsVars

LEMMA WritersPreserved ==
  ASSUME IInv, [SessionsNext]_sessionsVars PROVE WritersHoldTheLock'
<1> USE DEF IInv
<1> SUFFICES ASSUME NEW d \in Calls, pc'[d] = "writing"
             PROVE  /\ Inside(d, at[d])'
                    /\ file'[at'[d]] # None
                    /\ copy'[d] \in Record
                    /\ copy'[d].user = file'[at'[d]].user
  BY DEF WritersHoldTheLock, Inside
<1> DEFINE Still == /\ Inside(d, at[d])'
                    /\ file'[at'[d]] # None
                    /\ copy'[d] \in Record
                    /\ copy'[d].user = file'[at'[d]].user
           Writer == /\ at'[d] = at[d] /\ at[d] \in Tokens
                     /\ pc[d] = "writing"
                     /\ Inside(d, at[d])
                     /\ file[at[d]] # None
                     /\ copy[d] \in Record
                     /\ copy[d].user = file[at[d]].user
<1>1. ASSUME pc[d] = "writing", at'[d] = at[d]
      PROVE  Writer
  BY <1>1 DEF WritersHoldTheLock, QueuedForAFile
<1>2. CASE UNCHANGED <<file, callVars>>
  BY <1>1, <1>2 DEF callVars, Inside
<1>3. ASSUME NEW c \in Calls, NEW u \in Users, NEW t \in Tokens, Create(c, u, t)
      PROVE  Still
  <2>1. Writer
    BY <1>1, <1>3 DEF Create, Go, TypeOK
  <2>2. file'[at[d]] = file[at[d]]
    BY <1>3, <2>1 DEF Create, FilesAreIssued, TypeOK
  <2>3. QED
    BY <1>3, <2>1, <2>2 DEF Create, Inside
<1>4. ASSUME NEW c \in Calls, NEW t \in Tokens, Resolve(c, t) \/ Destroy(c, t)
      PROVE  Still
  <2>1. c # d /\ Writer
    BY <1>1, <1>4 DEF Resolve, Destroy, Queue, Go, TypeOK
  <2>2. Join(c, t) /\ UNCHANGED <<file, copy>>
    BY <1>4 DEF Resolve, Destroy, Queue, diskVars
  <2>3. Inside(d, at[d])'
    BY <2>1, <2>2, JoiningKeepsTheHead DEF Inside
  <2>4. QED
    BY <2>1, <2>2, <2>3
<1>5. ASSUME NEW c \in Calls,
             \/ \E u \in Users, t \in Tokens \union {None} : RevokeAll(c, u, t)
             \/ Cleanup(c)
             \/ SweepEnd(c)
      PROVE  Still
  <2>1. UNCHANGED <<file, line, copy, at>> /\ Writer
    BY <1>1, <1>5 DEF RevokeAll, Cleanup, List, SweepEnd, Go, TypeOK, diskVars
  <2>2. QED
    BY <2>1 DEF Inside
<1>6. ASSUME NEW c \in Calls, ResolveRead(c)
      PROVE  Still
  <2>1. at[c] \in Tokens /\ Inside(c, at[c]) /\ UNCHANGED <<file, at>>
    BY <1>6 DEF ResolveRead, QueuedForAFile, diskVars
  <2>2. CASE c = d
    <3>1. /\ file[at[c]] # None
          /\ copy' = [copy EXCEPT ![c] = Refreshed(file[at[c]], clock)]
          /\ UNCHANGED line
      BY <1>6, <2>2 DEF ResolveRead, Go, TypeOK
    <3>2. file[at[c]] \in Record /\ copy'[c] = Refreshed(file[at[c]], clock)
      BY <2>1, <3>1 DEF TypeOK
    <3>3. QED
      BY <2>1, <2>2, <3>1, <3>2, RefreshedType DEF Inside, TypeOK
  <2>3. CASE c # d
    <3>1. Writer /\ copy'[d] = copy[d]
      BY <1>1, <1>6, <2>1, <2>3 DEF ResolveRead, Go, TypeOK
    <3>2. UNCHANGED line \/ Leave(at[c])
      BY <1>6 DEF ResolveRead
    <3>3. Inside(d, at[d])'
      BY <2>1, <2>3, <3>1, <3>2, LeavingKeepsTheOthers DEF Inside
    <3>4. QED
      BY <2>1, <3>1, <3>3
  <2>4. QED
    BY <2>2, <2>3
<1>7. ASSUME NEW c \in Calls, ResolveWrite(c) \/ Unlink(c)
      PROVE  Still
  <2>1. at[c] \in Tokens /\ Inside(c, at[c]) /\ UNCHANGED at /\ Leave(at[c])
    BY <1>7 DEF ResolveWrite, Unlink, QueuedForAFile, WritersHoldTheLock
  <2>2. c # d /\ Writer
    BY <1>1, <1>7, <2>1 DEF ResolveWrite, Unlink, Continue, Go, TypeOK
  <2>3. Inside(d, at[d])' /\ at[d] # at[c]
    BY <2>1, <2>2, LeavingKeepsTheOthers DEF Inside
  <2>4. file'[at[d]] = file[at[d]] /\ copy'[d] = copy[d]
    BY <1>7, <2>1, <2>2, <2>3 DEF ResolveWrite, Unlink, TypeOK
  <2>5. QED
    BY <2>1, <2>2, <2>3, <2>4
<1>8. ASSUME NEW c \in Calls, NEW t \in Tokens, SweepRead(c, t)
      PROVE  Still
  <2>1. c # d /\ Writer /\ UNCHANGED <<file, copy>>
    BY <1>1, <1>8 DEF SweepRead, Go, TypeOK, diskVars
  <2>2. UNCHANGED line \/ Join(c, t)
    BY <1>8 DEF SweepRead
  <2>3. Inside(d, at[d])'
    BY <2>1, <2>2, JoiningKeepsTheHead DEF Inside
  <2>4. QED
    BY <2>1, <2>3
<1>9. QED
  BY <1>2, <1>3, <1>4, <1>5, <1>6, <1>7, <1>8
     DEF SessionsNext, Start, Onward, Tick, sessionsVars, diskVars

LEMMA AimPreserved ==
  ASSUME IInv, [SessionsNext]_sessionsVars PROVE OnlyRevocationsAim'
<1> USE DEF IInv
<1>1. ASSUME NEW c \in Calls, UNCHANGED <<call, aimed>>, NEW where, Go(c, where),
             where \in {"idle", "queued", "writing"} => aimed[c] = {}
      PROVE  OnlyRevocationsAim'
  BY <1>1 DEF OnlyRevocationsAim, Go, TypeOK
<1>2. ASSUME NEW c \in Calls, pc[c] = "idle", NEW request, call' = [call EXCEPT ![c] = request],
             NEW where, Go(c, where), aimed' = aimed
      PROVE  OnlyRevocationsAim'
  BY <1>2 DEF OnlyRevocationsAim, Go, TypeOK
<1>3. ASSUME NEW c \in Calls, NEW t \in Tokens, Resolve(c, t) \/ Destroy(c, t)
      PROVE  OnlyRevocationsAim'
  BY <1>2, <1>3 DEF Resolve, Destroy, Queue, Asks
<1>4. ASSUME NEW c \in Calls, NEW u \in Users, NEW t \in Tokens \union {None}, RevokeAll(c, u, t)
      PROVE  OnlyRevocationsAim'
  BY <1>4 DEF RevokeAll, List, Asks, OnlyRevocationsAim, Go, TypeOK
<1>5. ASSUME NEW c \in Calls, Cleanup(c) PROVE OnlyRevocationsAim'
  BY <1>5 DEF Cleanup, List, Asks, OnlyRevocationsAim, Go, TypeOK
<1>6. ASSUME NEW c \in Calls, ResolveRead(c) PROVE OnlyRevocationsAim'
  <2>1. aimed[c] = {}
    BY <1>6 DEF ResolveRead, OnlyRevocationsAim
  <2>2. QED
    BY <1>1, <1>6, <2>1 DEF ResolveRead
<1>7. ASSUME NEW c \in Calls,
             \/ \E u \in Users, t \in Tokens : Create(c, u, t)
             \/ ResolveWrite(c) \/ Unlink(c) \/ SweepEnd(c)
      PROVE  OnlyRevocationsAim'
  BY <1>1, <1>7 DEF Create, ResolveWrite, Unlink, Continue, SweepEnd
<1>8. ASSUME NEW c \in Calls, NEW t \in Tokens, SweepRead(c, t) PROVE OnlyRevocationsAim'
  BY <1>8 DEF SweepRead, OnlyRevocationsAim, Go, TypeOK
<1>9. CASE UNCHANGED <<pc, call, aimed>>
  BY <1>9 DEF OnlyRevocationsAim
<1>10. QED
  BY <1>3, <1>4, <1>5, <1>6, <1>7, <1>8, <1>9
     DEF SessionsNext, Start, Onward, Tick, sessionsVars, callVars

-----------------------------------------------------------------------------
LEMMA DealtWithPreserved ==
  ASSUME IInv, [SessionsNext]_sessionsVars PROVE AimedAreDealtWith'
<1> USE DEF IInv
<1> SUFFICES ASSUME NEW d \in Calls, NEW k \in aimed'[d]
             PROVE  /\ born'[k] # None
                    /\ file'[k] # None =>
                           /\ file'[k].user = call'[d].user
                           /\ \/ pc'[d] \in {"sweeping", "unlinking"} /\ k \in todo'[d]
                              \/ pc'[d] = "unlinking" /\ at'[d] = k
  BY DEF AimedAreDealtWith
<1> DEFINE Dealt == /\ born'[k] # None
                    /\ file'[k] # None =>
                           /\ file'[k].user = call'[d].user
                           /\ \/ pc'[d] \in {"sweeping", "unlinking"} /\ k \in todo'[d]
                              \/ pc'[d] = "unlinking" /\ at'[d] = k
(* Nothing that others do brings back what is gone.                        *)
<1>1. ASSUME aimed'[d] = aimed[d], call'[d] = call[d],
             \/ pc'[d] = pc[d] /\ todo'[d] = todo[d] /\ at'[d] = at[d]
             \/ file'[k] = None
      PROVE  Dealt
  <2>1. k \in aimed[d] /\ k \in Tokens /\ born[k] # None
    BY <1>1 DEF AimedAreDealtWith, TypeOK
  <2>2. /\ born'[k] # None
        /\ file'[k] # None => file[k] # None /\ file'[k].user = file[k].user
    BY <2>1, FilesStayTheirs
  <2>3. QED
    BY <1>1, <2>1, <2>2 DEF AimedAreDealtWith
<1>2. ASSUME pc[d] \in {"idle", "queued", "writing"}, aimed'[d] = aimed[d] PROVE Dealt
  BY <1>2 DEF OnlyRevocationsAim
<1>3. ASSUME NEW c \in Calls, NEW u \in Users, NEW t \in Tokens, Create(c, u, t) PROVE Dealt
  BY <1>1, <1>2, <1>3 DEF Create, Go, TypeOK
<1>4. ASSUME NEW c \in Calls, NEW t \in Tokens, Resolve(c, t) \/ Destroy(c, t) PROVE Dealt
  BY <1>1, <1>2, <1>4 DEF Resolve, Destroy, Queue, Asks, Go, TypeOK
<1>5. ASSUME NEW c \in Calls, NEW u \in Users, NEW t \in Tokens \union {None}, RevokeAll(c, u, t)
      PROVE  Dealt
  <2>1. CASE c = d
    <3>1. /\ k \in There \ {t} /\ file[k].user = u
          /\ todo'[d] = There \ {t} /\ pc'[d] = "sweeping"
          /\ call'[d] = [op |-> "revokeAll", user |-> u]
      BY <1>5, <2>1 DEF RevokeAll, List, Asks, Go, TypeOK
    <3>2. UNCHANGED <<file, born>> /\ born[k] # None
      BY <1>5, <3>1 DEF RevokeAll, List, There, FilesAreIssued, diskVars
    <3>3. QED
      BY <3>1, <3>2
  <2>2. CASE c # d
    BY <1>1, <1>5, <2>2 DEF RevokeAll, List, Asks, Go, TypeOK
  <2>3. QED
    BY <2>1, <2>2
<1>6. ASSUME NEW c \in Calls, Cleanup(c) PROVE Dealt
  BY <1>1, <1>6 DEF Cleanup, List, Asks, Go, TypeOK
<1>7. ASSUME NEW c \in Calls, ResolveRead(c) PROVE Dealt
  BY <1>1, <1>2, <1>7 DEF ResolveRead, Go, TypeOK
<1>8. ASSUME NEW c \in Calls, ResolveWrite(c) PROVE Dealt
  BY <1>1, <1>2, <1>8 DEF ResolveWrite, Go, TypeOK
<1>9. ASSUME NEW c \in Calls, Unlink(c) PROVE Dealt
  <2>1. CASE c # d
    BY <1>1, <1>9, <2>1 DEF Unlink, Continue, Go, TypeOK
  <2>2. CASE c = d /\ k = at[c]
    <3>1. file'[k] = None
      BY <1>9, <2>2 DEF Unlink, QueuedForAFile, TypeOK
    <3>2. QED
      BY <1>1, <1>9, <3>1 DEF Unlink
  <2>3. CASE c = d /\ k # at[c]
    <3>1. k \in aimed[d] /\ call[d].op = "revokeAll" /\ pc'[d] = "sweeping"
      BY <1>9, <2>3 DEF Unlink, OnlyRevocationsAim, Continue, Sweeps, Go, TypeOK
    <3>2. k \in Tokens /\ file'[k] = file[k]
      BY <1>9, <2>3, <3>1 DEF Unlink, TypeOK
    <3>3. QED
      BY <1>9, <2>3, <3>1, <3>2 DEF Unlink, AimedAreDealtWith
  <2>4. QED
    BY <2>1, <2>2, <2>3
<1>10. ASSUME NEW c \in Calls, NEW t \in Tokens, SweepRead(c, t) PROVE Dealt
  <2>1. UNCHANGED <<file, call, born, aimed>> /\ k \in aimed[d]
    BY <1>10 DEF SweepRead, diskVars
  <2>2. CASE c # d
    BY <1>1, <1>10, <2>1, <2>2 DEF SweepRead, Join, Go, TypeOK
  <2>3. CASE c = d /\ k # t
    BY <1>10, <2>1, <2>3 DEF SweepRead, AimedAreDealtWith, Go, TypeOK
  <2>4. CASE c = d /\ k = t
    <3>1. CASE file[t] = None
      BY <1>1, <2>1, <2>4, <3>1
    <3>2. CASE file[t] # None
      <4>1. call[c].op = "revokeAll" /\ file[t].user = call[c].user /\ born[t] # None
        BY <2>1, <2>4, <3>2 DEF OnlyRevocationsAim, AimedAreDealtWith
      <4>2. Condemned(c, file[t])
        BY <3>2, <4>1 DEF Condemned
      <4>3. at'[c] = t /\ pc'[c] = "unlinking"
        BY <1>10, <4>2 DEF SweepRead, Go, TypeOK
      <4>4. QED
        BY <2>1, <2>4, <4>1, <4>3
    <3>3. QED
      BY <3>1, <3>2
  <2>5. QED
    BY <2>2, <2>3, <2>4
<1>11. ASSUME NEW c \in Calls, SweepEnd(c) PROVE Dealt
  BY <1>11 DEF SweepEnd, AimedAreDealtWith, Go, TypeOK, diskVars
<1>12. CASE UNCHANGED <<pc, todo, at, call, aimed>>
  BY <1>1, <1>12
<1>13. QED
  BY <1>3, <1>4, <1>5, <1>6, <1>7, <1>8, <1>9, <1>10, <1>11, <1>12
     DEF SessionsNext, Start, Onward, Tick, sessionsVars, callVars

-----------------------------------------------------------------------------
(* The inductive invariant: whoever writes a session back holds the lock   *)
(* of a file that is there, and what a revocation is aimed at is gone or   *)
(* still on its list.                                                      *)
THEOREM Guarded == SessionsSpec => []IInv
<1>1. SessionsInit => IInv
  <2> SUFFICES ASSUME SessionsInit PROVE IInv
    OBVIOUS
  <2>1. TypeOK
    BY TtlAssumption DEF SessionsInit, TypeOK, TtlAssumption
  <2>2. QED
    BY <2>1 DEF SessionsInit, IInv, FilesAreIssued, QueuedForAFile, WritersHoldTheLock,
                OnlyRevocationsAim, AimedAreDealtWith
<1>2. IInv /\ [SessionsNext]_sessionsVars => IInv'
  <2> SUFFICES ASSUME IInv, [SessionsNext]_sessionsVars PROVE IInv'
    OBVIOUS
  <2>1. FilesAreIssued'
    BY FilesStayTheirs DEF FilesAreIssued
  <2>2. QED
    BY <2>1, TypePreserved, QueuedPreserved, WritersPreserved, AimPreserved, DealtWithPreserved
       DEF IInv
<1>3. QED
  BY <1>1, <1>2, PTL DEF SessionsSpec

(* The session files, their locks and the calls keep their types.          *)
THEOREM TypeCorrect == SessionsSpec => []TypeOK
<1>1. IInv => TypeOK
  BY DEF IInv
<1>2. QED
  BY <1>1, Guarded, PTL

(* INV-17: a revocation that has returned left none of the sessions it was *)
(* to end, and none of them is ever written back (sessions.ts:76-88).      *)
THEOREM Revoked == SessionsSpec => []RevocationReaches
<1>1. IInv => RevocationReaches
  BY DEF IInv, AimedAreDealtWith, RevocationReaches
<1>2. QED
  BY <1>1, Guarded, PTL

-----------------------------------------------------------------------------
(* The browser.  A session that somebody has; and the tab's answer to who  *)
(* is signed in, the three ways it can be.                                 *)
Held == [user : Readers, token : Nat \ {0}]
Out == expired \/ fetched = H!Nobody
In == ~ expired /\ fetched \in Held

(* Whose data the page holds, or has under way.                            *)
Data == cache \union ({r.answer : r \in reads} \ {H!Unanswered, H!Unauthenticated})

ShellTypes ==
    /\ cookie \in Held \union {H!Nobody}
    /\ fetched \in Held \union {H!Nobody, H!Pending}
    /\ expired \in BOOLEAN
    /\ \A q \in asked : q \in [answer : Held \union {H!Nobody, H!Pending}]
    /\ \A p, q \in asked : p = q
    /\ \A q \in login : q \in [user : Readers, answer : Held \union {H!Pending}]
    /\ \A p, q \in login : p = q
    /\ \A r \in reads : r \in [answer : Readers \union {H!Unanswered, H!Unauthenticated}]
    /\ sessions \in Nat /\ failures \in Nat

SignInUnanswered == \A q \in login : q.answer = H!Pending

(* A page that shows nobody holds nothing.  Before the first answer nobody *)
(* signs in or out; and a sign-in that goes on while somebody is shown     *)
(* began before the session that is shown was answered.                    *)
NothingOfNobody ==
    /\ Out => cache = {} /\ reads = {}
    /\ fetched = H!Pending => asked # {} /\ ~ expired /\ login = {} /\ logout = {} /\ had = "undefined"
    /\ In => had = fetched.user
    /\ login # {} /\ ~ Out => asked = {} /\ failures = 0

(* The cookie is the last session that was answered, or gone.              *)
CookieIsTheLast ==
    /\ \A q \in login : q.answer # H!Pending => cookie \in {H!Nobody, q.answer}
    /\ SignInUnanswered =>
           \A q \in asked : q.answer \notin {H!Pending, H!Nobody} => cookie \in {H!Nobody, q.answer}
    /\ SignInUnanswered /\ asked = {} /\ failures = 0 /\ ~ Out =>
           cookie = H!Nobody \/ (cookie.user = fetched.user /\ cookie.token = csrf)

(* The token that is kept is the one of the session about to be answered.  *)
TokenIsTheNext ==
    SignInUnanswered /\ ~ expired /\ fetched # H!Pending =>
        \A q \in asked :
            /\ q.answer = H!Pending => cookie = H!Nobody \/ cookie.token = csrf
            /\ q.answer \notin {H!Pending, H!Nobody} => q.answer.token = csrf

(* The session that is yet to be shown.                                    *)
Awaited(q) == IF q.answer = H!Pending THEN cookie ELSE q.answer

(* What the page holds is of the one it shows, unless the next answer is   *)
(* another account, which clears it.                                       *)
DataOfTheShown ==
    ~ Out =>
        /\ SignInUnanswered /\ asked = {} /\ failures = 0 => Data \subseteq {fetched.user}
        /\ \A q \in login :
               q.answer # H!Pending /\ q.answer.user = fetched.user => Data \subseteq {fetched.user}
        /\ \A q \in asked :
               Awaited(q) # H!Nobody /\ (fetched = H!Pending \/ Awaited(q).user = fetched.user)
                   => Data \subseteq {Awaited(q).user}

ShInv == ShellTypes /\ NothingOfNobody /\ CookieIsTheLast /\ TokenIsTheNext /\ DataOfTheShown

LEMMA NobodyElse ==
    /\ None \notin Readers /\ "undefined" \notin Readers /\ None # "undefined"
    /\ H!Unanswered \notin Readers /\ H!Unauthenticated \notin Readers
    /\ H!Nobody \notin Held /\ H!Pending \notin Held /\ H!Nobody # H!Pending
    /\ H!Unanswered # H!Unauthenticated
    /\ H!Nobody.user = None /\ H!Pending.user = None
    /\ H!Nobody.token = 0 /\ H!Pending.token = -1
BY Assumptions DEF Assumptions, H!ShellAssumption, H!Nobody, H!Pending, H!Unanswered,
                   H!Unauthenticated, Held

LEMMA StateIs ==
    ASSUME NEW s \in Held \union {H!Nobody, H!Pending}, NEW e \in BOOLEAN
    PROVE  /\ H!AuthState(s, e) = IF e \/ s = H!Nobody THEN "unauthenticated"
                                  ELSE IF s = H!Pending THEN "unknown" ELSE "authenticated"
           /\ H!Account(s, e) = IF ~ e /\ s \in Held THEN s.user ELSE None
BY NobodyElse DEF H!AuthState, H!Account, H!Unauthenticated, Held

(* The effect: nothing happens to what is kept unless another account, or  *)
(* nobody, is shown.                                                       *)
LEMMA CommitIs ==
    ASSUME ShellTypes, NEW s \in Held \union {H!Nobody, H!Pending}, NEW e \in BOOLEAN,
           NEW c, NEW r, H!Commit(s, e, c, r)
    PROVE  /\ fetched' = s /\ expired' = e
           /\ (Out <=> (e \/ s = H!Nobody)) /\ s.user = fetched.user /\ (fetched = H!Pending <=> s = H!Pending)
                  => cache' = c /\ reads' = r /\ had' = had
           /\ ~ Out /\ (e \/ s = H!Nobody) => cache' = {} /\ reads' = {}
           /\ ~ e /\ s \in Held /\ (Out \/ s.user # fetched.user) =>
                  /\ had' = s.user
                  /\ had \notin {"undefined", s.user} => cache' = {} /\ reads' = {}
                  /\ \/ cache' = {} /\ reads' = {}
                     \/ cache' = c /\ reads' = r
           /\ Out /\ (e \/ s = H!Nobody) =>
                  \/ cache' = {} /\ reads' = {}
                  \/ cache' = c /\ reads' = r
<1>1. /\ H!AuthState(s, e) = IF e \/ s = H!Nobody THEN "unauthenticated"
                             ELSE IF s = H!Pending THEN "unknown" ELSE "authenticated"
      /\ H!Account(s, e) = IF ~ e /\ s \in Held THEN s.user ELSE None
  BY StateIs
<1>2. H!AuthState(fetched, expired) = IF Out THEN "unauthenticated"
                                      ELSE IF fetched = H!Pending THEN "unknown" ELSE "authenticated"
  BY StateIs DEF ShellTypes, Out
<1>3. s \in Held => s.user \in Readers
  BY DEF Held
<1> DEFINE then == H!AuthState(s, e)
           acct == H!Account(s, e)
           was == H!AuthState(fetched, expired)
<1>4. /\ fetched' = s /\ expired' = e
      /\ LET changed == <<then, s.user>> # <<was, fetched.user>>
             runs == changed /\ then # "unknown"
             clears == runs /\ (acct = None \/ had \notin {"undefined", acct})
         IN  /\ had' = IF runs THEN acct ELSE had
             /\ cache' = IF clears THEN {} ELSE c
             /\ reads' = IF clears THEN {} ELSE r
  BY DEF H!Commit, H!Clears, H!Cancelled
<1>5. /\ then = IF e \/ s = H!Nobody THEN "unauthenticated"
                             ELSE IF s = H!Pending THEN "unknown" ELSE "authenticated"
      /\ acct = IF ~ e /\ s \in Held THEN s.user ELSE None
      /\ was = IF Out THEN "unauthenticated"
                                      ELSE IF fetched = H!Pending THEN "unknown" ELSE "authenticated"
  BY <1>1, <1>2
<1> HIDE DEF then, acct, was
<1>6. fetched \in Held \union {H!Nobody, H!Pending}
  BY DEF ShellTypes
<1>7. CASE (Out <=> (e \/ s = H!Nobody)) /\ s.user = fetched.user /\ (fetched = H!Pending <=> s = H!Pending)
  <2>1. then = was
    BY <1>5, <1>7
  <2>2. QED
    BY <1>4, <2>1, <1>7, <1>5, NobodyElse, <1>3
<1>8. CASE ~ Out /\ (e \/ s = H!Nobody)
  <2>1. then = "unauthenticated" /\ was # then /\ acct = None
    BY <1>5, <1>8, NobodyElse
  <2>2. QED
    BY <1>4, <2>1, <1>8, NobodyElse
<1>9. CASE ~ e /\ s \in Held /\ (Out \/ s.user # fetched.user)
  <2>1. then = "authenticated" /\ acct = s.user /\ (Out => was = "unauthenticated")
    BY <1>5, <1>9, NobodyElse
  <2>2. QED
    BY <1>4, <2>1, <1>9, <1>3, NobodyElse DEF Out
<1>10. QED
  BY <1>4, <1>7, <1>8, <1>9

LEMMA InIs == ASSUME ShellTypes PROVE H!Authenticated <=> In
BY StateIs, NobodyElse DEF H!Authenticated, ShellTypes, In

(* What the page shows and what it waits for stay as they are.             *)
LEMMA ShellStays ==
    ASSUME ShInv, UNCHANGED <<fetched, asked, expired, had, csrf, login, sessions, failures>>,
           cookie' \in {cookie, H!Nobody}, fetched = H!Pending => logout' = logout,
           \A r \in reads' : r \in [answer : Readers \union {H!Unanswered, H!Unauthenticated}],
           Out => reads' = reads /\ cache' = cache,
           Data' \subseteq Data \/ (cookie # H!Nobody /\ Data' \subseteq Data \union {cookie.user})
    PROVE  ShInv'
<1>1. ShellTypes'
  BY DEF ShInv, ShellTypes
<1>2. Out' <=> Out
  BY DEF Out
<1>3. NothingOfNobody'
  BY <1>2 DEF ShInv, NothingOfNobody, In
<1>4. CookieIsTheLast'
  BY <1>2 DEF ShInv, CookieIsTheLast, SignInUnanswered
<1>5. TokenIsTheNext'
  BY DEF ShInv, TokenIsTheNext, SignInUnanswered
<1>6. DataOfTheShown'
  <2> SUFFICES ASSUME ~ Out PROVE
        /\ SignInUnanswered /\ asked = {} /\ failures = 0 => Data' \subseteq {fetched.user}
        /\ \A q \in login :
               q.answer # H!Pending /\ q.answer.user = fetched.user => Data' \subseteq {fetched.user}
        /\ \A q \in asked :
               Awaited(q)' # H!Nobody /\ (fetched = H!Pending \/ Awaited(q)'.user = fetched.user)
                   => Data' \subseteq {Awaited(q)'.user}
    BY <1>2 DEF DataOfTheShown, SignInUnanswered
  <2>1. SignInUnanswered /\ asked = {} /\ failures = 0 => Data' \subseteq {fetched.user}
    BY DEF ShInv, CookieIsTheLast, DataOfTheShown
  <2>2. ASSUME NEW q \in login, q.answer # H!Pending, q.answer.user = fetched.user
        PROVE  Data' \subseteq {fetched.user}
    BY <2>2 DEF ShInv, CookieIsTheLast, DataOfTheShown
  <2>3. ASSUME NEW q \in asked,
               Awaited(q)' # H!Nobody, fetched = H!Pending \/ Awaited(q)'.user = fetched.user
        PROVE  Data' \subseteq {Awaited(q)'.user}
    <3>1. Awaited(q)' = Awaited(q) /\ Data \subseteq {Awaited(q).user}
      BY <2>3 DEF ShInv, DataOfTheShown, Awaited
    <3>2. login = {}
      BY DEF ShInv, NothingOfNobody
    <3>3. cookie # H!Nobody => cookie = Awaited(q)
      BY <2>3, <3>1, <3>2 DEF ShInv, CookieIsTheLast, SignInUnanswered, Awaited
    <3>4. QED
      BY <3>1, <3>3
  <2>4. QED
    BY <2>1, <2>2, <2>3
<1>7. QED
  BY <1>1, <1>3, <1>4, <1>5, <1>6 DEF ShInv

LEMMA ServerKeeps ==
    ASSUME ShInv,
           \/ H!Expire \/ H!Read \/ H!Logout
           \/ \E r \in reads : H!AnswerRead(r)
           \/ \E kind \in Writes : H!Write(kind)
           \/ \E w \in writes : H!AnswerWrite(w)
           \/ \E q \in logout : H!AnswerLogout(q)
    PROVE  ShInv'
<1>1. CASE H!Expire \/ (\E kind \in Writes : H!Write(kind)) \/ (\E w \in writes : H!AnswerWrite(w))
  BY <1>1, ShellStays DEF H!Expire, H!Write, H!AnswerWrite, ShInv, ShellTypes, Data
<1>2. CASE H!Logout
  <2>1. fetched # H!Pending
    BY <1>2, InIs, NobodyElse DEF H!Logout, ShInv, In
  <2>2. QED
    BY <1>2, <2>1, ShellStays DEF H!Logout, ShInv, ShellTypes, Data
<1>3. CASE H!Read
  <2>1. ~ Out
    BY <1>3, StateIs DEF H!Read, H!Unauthenticated, ShInv, ShellTypes, Out
  <2>2. reads' = reads \union {[answer |-> H!Unanswered]}
    BY <1>3 DEF H!Read
  <2>3. \A r \in reads' : r \in [answer : Readers \union {H!Unanswered, H!Unauthenticated}]
    BY <2>2 DEF ShInv, ShellTypes
  <2>4. Data' \subseteq Data
    BY <1>3, <2>2 DEF H!Read, Data
  <2>5. QED
    BY <1>3, <2>1, <2>3, <2>4, ShellStays DEF H!Read
<1>4. ASSUME NEW r \in reads, H!AnswerRead(r) PROVE ShInv'
  <2>1. ~ Out
    BY DEF ShInv, NothingOfNobody
  <2> DEFINE x == IF cookie = H!Nobody THEN H!Unauthenticated ELSE cookie.user
  <2>2. reads' = (reads \ {r}) \union {[r EXCEPT !.answer = x]}
    BY <1>4 DEF H!AnswerRead
  <2>3. r \in [answer : Readers \union {H!Unanswered, H!Unauthenticated}]
    BY DEF ShInv, ShellTypes
  <2>4. x \in Readers \union {H!Unauthenticated}
    BY DEF ShInv, ShellTypes, Held
  <2> HIDE DEF x
  <2>5. [r EXCEPT !.answer = x] = [answer |-> x]
    BY <2>3
  <2>6. \A p \in reads' : p \in [answer : Readers \union {H!Unanswered, H!Unauthenticated}]
    BY <2>2, <2>4, <2>5 DEF ShInv, ShellTypes
  <2>7. Data' \subseteq Data \union ({x} \ {H!Unauthenticated})
    BY <1>4, <2>2, <2>5 DEF H!AnswerRead, Data
  <2>8. Data' \subseteq Data \/ (cookie # H!Nobody /\ Data' \subseteq Data \union {cookie.user})
    BY <2>7 DEF x
  <2>9. QED
    BY <1>4, <2>1, <2>6, <2>8, ShellStays DEF H!AnswerRead
<1>5. ASSUME NEW q \in logout, H!AnswerLogout(q) PROVE ShInv'
  <2>1. fetched # H!Pending
    BY DEF ShInv, NothingOfNobody
  <2>2. QED
    BY <1>5, <2>1, ShellStays DEF H!AnswerLogout, ShInv, ShellTypes, Data
<1>6. QED
  BY <1>1, <1>2, <1>3, <1>4, <1>5

LEMMA AnswerSessionKeeps ==
    ASSUME ShInv, NEW q \in asked, H!AnswerSession(q)
    PROVE  ShInv'
<1>1. /\ q.answer = H!Pending /\ asked' = {[answer |-> cookie]}
      /\ UNCHANGED <<cookie, fetched, expired, had, csrf, cache, reads, login, logout, sessions, failures>>
  BY DEF H!AnswerSession
<1>2. ShellTypes'
  BY <1>1 DEF ShInv, ShellTypes
<1>3. NothingOfNobody'
  BY <1>1 DEF ShInv, NothingOfNobody, Out, In
<1>4. CookieIsTheLast' /\ TokenIsTheNext'
  <2>1. SignInUnanswered' <=> SignInUnanswered
    BY <1>1 DEF SignInUnanswered
  <2>2. cookie # H!Pending
    BY NobodyElse DEF ShInv, ShellTypes
  <2>3. CookieIsTheLast'
    <3>1. asked' # {} /\ \A p \in asked' : p.answer = cookie
      BY <1>1
    <3>2. QED
      BY <1>1, <2>1, <3>1 DEF ShInv, CookieIsTheLast
  <2>4. TokenIsTheNext'
    BY <1>1, <2>1, <2>2 DEF ShInv, TokenIsTheNext
  <2>5. QED
    BY <2>3, <2>4
<1>5. \A p \in asked' : Awaited(p)' = Awaited(q)
  BY <1>1, NobodyElse DEF ShInv, ShellTypes, Awaited
<1>6. DataOfTheShown'
  BY <1>1, <1>5 DEF ShInv, DataOfTheShown, SignInUnanswered, Data, Out
<1>7. QED
  BY <1>2, <1>3, <1>4, <1>6 DEF ShInv

(* Landing, an answer clears what is another's before it shows it.         *)
LEMMA LandSessionKeeps ==
    ASSUME ShInv, NEW q \in asked, H!LandSession(q)
    PROVE  ShInv'
<1> DEFINE s == q.answer
<1>1. /\ s \in Held \union {H!Nobody} /\ s # H!Pending
      /\ asked' = {} /\ csrf' = H!TokenOf(s) /\ failures' = 0
      /\ H!Commit(s, expired, cache, reads)
      /\ UNCHANGED <<cookie, login, logout, sessions>>
  BY NobodyElse DEF H!LandSession, ShInv, ShellTypes
<1>2. Awaited(q) = s
  BY <1>1 DEF Awaited
<1>3. \A p \in asked : p = q
  BY DEF ShInv, ShellTypes
<1> HIDE DEF s
<1>4. /\ fetched' = s /\ expired' = expired
      /\ (Out <=> (expired \/ s = H!Nobody)) /\ s.user = fetched.user /\ (fetched = H!Pending <=> s = H!Pending)
                  => cache' = cache /\ reads' = reads /\ had' = had
      /\ ~ Out /\ (expired \/ s = H!Nobody) => cache' = {} /\ reads' = {}
      /\ ~ expired /\ s \in Held /\ (Out \/ s.user # fetched.user) =>
                  /\ had' = s.user
                  /\ had \notin {"undefined", s.user} => cache' = {} /\ reads' = {}
                  /\ \/ cache' = {} /\ reads' = {}
                     \/ cache' = cache /\ reads' = reads
      /\ Out /\ (expired \/ s = H!Nobody) =>
                  \/ cache' = {} /\ reads' = {}
                  \/ cache' = cache /\ reads' = reads
  <2>1. expired \in BOOLEAN
    BY DEF ShInv, ShellTypes
  <2>2. QED
    BY <1>1, <2>1, CommitIs DEF ShInv
<1>5. \/ cache' = {} /\ reads' = {}
      \/ cache' = cache /\ reads' = reads
  <2>1. s \in Held => s.user # None /\ s # H!Nobody /\ s # H!Pending
    BY NobodyElse DEF Held
  <2>2. s \in Held /\ s.user = fetched.user => fetched # H!Pending /\ fetched # H!Nobody
    BY <2>1, NobodyElse
  <2>3. QED
    BY <1>1, <1>4, <2>1, <2>2, NobodyElse DEF Out
<1>6. ShellTypes'
  BY <1>1, <1>4, <1>5 DEF ShInv, ShellTypes
<1>7. Out' => cache' = {} /\ reads' = {}
  BY <1>1, <1>4, <1>5 DEF Out, ShInv, NothingOfNobody
<1>8. In' => had' = s.user
  <2>1. SUFFICES ASSUME ~ expired, s \in Held, s.user = fetched.user, ~ Out PROVE had' = s.user
    BY <1>4 DEF In
  <2>2. fetched \in Held
    BY <2>1, NobodyElse DEF ShInv, ShellTypes, Out, Held
  <2>3. QED
    BY <1>4, <2>1, <2>2, NobodyElse DEF In, ShInv, NothingOfNobody
<1>9. NothingOfNobody'
  BY <1>1, <1>4, <1>7, <1>8 DEF NothingOfNobody, Out
<1>10. SignInUnanswered' <=> SignInUnanswered
  BY <1>1 DEF SignInUnanswered
<1>11. ~ Out' => s \in Held /\ ~ expired
  BY <1>1, <1>4 DEF Out
<1>12. CookieIsTheLast'
  <2>1. ASSUME SignInUnanswered, s \in Held, ~ expired, cookie # H!Nobody
        PROVE  cookie = s /\ csrf' = s.token
    <3>1. cookie = s
      BY <1>1, <2>1, NobodyElse DEF ShInv, CookieIsTheLast, s
    <3>2. CASE fetched = H!Pending
      BY <1>1, <2>1, <3>1, <3>2, NobodyElse DEF H!TokenOf, Held
    <3>3. CASE fetched # H!Pending
      <4>1. s.token = csrf
        BY <1>1, <2>1, <3>3, NobodyElse DEF ShInv, TokenIsTheNext, s
      <4>2. QED
        BY <1>1, <3>1, <4>1 DEF H!TokenOf
    <3>4. QED
      BY <3>1, <3>2, <3>3
  <2>2. QED
    BY <1>1, <1>4, <1>10, <1>11, <2>1 DEF CookieIsTheLast, ShInv
<1>13. TokenIsTheNext'
  BY <1>1 DEF TokenIsTheNext
<1>14. DataOfTheShown'
  <2>1. ASSUME s \in Held, ~ expired PROVE Data' \subseteq {s.user}
    <3>1. CASE cache' = {} /\ reads' = {}
      BY <3>1 DEF Data
    <3>2. CASE cache' = cache /\ reads' = reads /\ ~ Out
      <4>1. CASE s.user # fetched.user /\ fetched # H!Pending
        <5>1. had = fetched.user /\ fetched.user # "undefined"
          BY <3>2, <4>1, NobodyElse DEF ShInv, NothingOfNobody, ShellTypes, Out, In, Held
        <5>2. cache' = {} /\ reads' = {}
          BY <1>4, <2>1, <3>2, <4>1, <5>1
        <5>3. QED
          BY <5>2 DEF Data
      <4>2. CASE fetched = H!Pending \/ s.user = fetched.user
        <5>1. Data' = Data
          BY <3>2 DEF Data
        <5>2. QED
          BY <1>2, <2>1, <3>2, <4>2, <5>1, NobodyElse DEF ShInv, DataOfTheShown
      <4>3. QED
        BY <4>1, <4>2
    <3>3. CASE Out /\ cache' = cache /\ reads' = reads
      BY <3>3 DEF ShInv, NothingOfNobody, Data
    <3>4. QED
      BY <1>5, <3>1, <3>2, <3>3
  <2>2. QED
    BY <1>1, <1>4, <1>11, <2>1 DEF DataOfTheShown
<1>15. QED
  BY <1>6, <1>9, <1>12, <1>13, <1>14 DEF ShInv

(* Lost, the question for the session is open.                             *)
LEMMA LoseSessionKeeps ==
    ASSUME ShInv, NEW q \in asked, H!LoseSession(q)
    PROVE  ShInv'
<1> DEFINE s == IF fetched = H!Pending THEN H!Nobody ELSE fetched
<1>1. /\ s \in Held \union {H!Nobody} /\ expired \in BOOLEAN
      /\ asked' = {} /\ failures' = failures + 1
      /\ H!Commit(s, expired, cache, reads)
      /\ UNCHANGED <<cookie, csrf, login, logout, sessions>>
  BY DEF H!LoseSession, ShInv, ShellTypes
<1>2. CASE fetched # H!Pending
  <2>1. fetched' = fetched /\ expired' = expired /\ cache' = cache /\ reads' = reads /\ had' = had
    BY <1>1, <1>2, CommitIs, NobodyElse DEF ShInv, Out
  <2>2. ShellTypes' /\ failures' # 0
    BY <1>1, <2>1 DEF ShInv, ShellTypes
  <2>3. NothingOfNobody'
    BY <1>1, <1>2, <2>1 DEF ShInv, NothingOfNobody, Out, In
  <2>4. CookieIsTheLast' /\ TokenIsTheNext'
    BY <1>1, <2>1, <2>2 DEF ShInv, CookieIsTheLast, TokenIsTheNext
  <2>5. DataOfTheShown'
    BY <1>1, <2>1, <2>2 DEF ShInv, DataOfTheShown, Data, Out
  <2>6. QED
    BY <2>2, <2>3, <2>4, <2>5 DEF ShInv
<1>3. CASE fetched = H!Pending
  <2>1. ~ Out /\ login = {}
    BY <1>3, NobodyElse DEF ShInv, NothingOfNobody, Out
  <2>2. /\ fetched' = H!Nobody /\ expired' = expired /\ cache' = {} /\ reads' = {}
    BY <1>1, <1>3, <2>1, CommitIs DEF ShInv
  <2>3. ShellTypes' /\ Out'
    BY <1>1, <2>2 DEF ShInv, ShellTypes, Out
  <2>4. NothingOfNobody'
    BY <1>1, <2>2, <2>3, NobodyElse DEF NothingOfNobody, In
  <2>5. CookieIsTheLast' /\ TokenIsTheNext' /\ DataOfTheShown'
    BY <1>1, <2>1, <2>3 DEF CookieIsTheLast, TokenIsTheNext, DataOfTheShown
  <2>6. QED
    BY <2>3, <2>4, <2>5 DEF ShInv
<1>4. QED
  BY <1>2, <1>3

(* The page learns that nobody is signed in.                               *)
LEMMA RefusalKeeps ==
    ASSUME ShInv, fetched # H!Pending, NEW r, r \subseteq reads,
           H!Commit(fetched, TRUE, cache, r), UNCHANGED <<cookie, asked, login, sessions, failures>>
    PROVE  ShInv'
<1>1. fetched \in Held \union {H!Nobody, H!Pending}
  BY DEF ShInv, ShellTypes
<1>2. /\ fetched' = fetched /\ expired' = TRUE
      /\ Out => cache' = cache /\ reads' = r
      /\ ~ Out => cache' = {} /\ reads' = {}
  BY <1>1, CommitIs DEF ShInv
<1>3. Out' /\ cache' = {} /\ reads' = {}
  BY <1>2 DEF Out, ShInv, NothingOfNobody
<1>4. ShellTypes'
  BY <1>1, <1>2, <1>3 DEF ShInv, ShellTypes
<1>5. NothingOfNobody'
  BY <1>2, <1>3 DEF NothingOfNobody, In
<1>6. CookieIsTheLast' /\ TokenIsTheNext' /\ DataOfTheShown'
  BY <1>2, <1>3 DEF ShInv, CookieIsTheLast, TokenIsTheNext, DataOfTheShown, SignInUnanswered
<1>7. QED
  BY <1>4, <1>5, <1>6 DEF ShInv

LEMMA NothingNew ==
    ASSUME ShInv, NEW r, r \subseteq reads, H!Commit(fetched, expired, cache, r),
           UNCHANGED <<cookie, asked, csrf, login, logout, sessions, failures>>
    PROVE  ShInv'
<1>1. fetched \in Held \union {H!Nobody, H!Pending} /\ expired \in BOOLEAN
  BY DEF ShInv, ShellTypes
<1>2. Out <=> expired \/ fetched = H!Nobody
  BY DEF Out
<1>3. fetched' = fetched /\ expired' = expired /\ cache' = cache /\ reads' = r /\ had' = had
  BY <1>1, <1>2, CommitIs DEF ShInv
<1>4. Out => reads' = reads
  BY <1>3 DEF ShInv, NothingOfNobody
<1>5. /\ Data' \subseteq Data
      /\ \A p \in reads' : p \in [answer : Readers \union {H!Unanswered, H!Unauthenticated}]
  BY <1>3 DEF Data, ShInv, ShellTypes
<1>6. QED
  BY <1>3, <1>4, <1>5, ShellStays

LEMMA AnswerKeeps ==
    ASSUME ShInv,
           \/ \E r \in reads : H!LandRead(r)
           \/ \E w \in writes : H!LandWrite(w)
           \/ \E q \in logout : H!SignedOut(q)
    PROVE  ShInv'
<1>1. expired \in BOOLEAN
  BY DEF ShInv, ShellTypes
<1>2. H!Suppressed <=> asked # {} \/ login # {}
  BY DEF H!Suppressed
<1>3. ASSUME NEW r \in reads, H!LandRead(r) PROVE ShInv'
  <2>1. CASE r.answer = H!Unauthenticated
    <3>1. /\ H!Commit(fetched, H!Refusal(r), cache, reads \ {r})
          /\ UNCHANGED <<cookie, asked, csrf, login, logout, sessions, failures>>
      BY <1>3, <2>1 DEF H!LandRead
    <3>2. CASE H!Refusal(r)
      <4>1. H!Commit(fetched, TRUE, cache, reads \ {r})
        BY <3>1, <3>2 DEF H!Commit, H!AuthState, H!Account
      <4>2. fetched # H!Pending
        BY <1>2, <3>2 DEF H!Refusal, ShInv, NothingOfNobody
      <4>3. QED
        BY <3>1, <4>1, <4>2, RefusalKeeps
    <3>3. CASE ~ H!Refusal(r)
      <4>1. H!Commit(fetched, expired, cache, reads \ {r})
        BY <1>1, <3>1, <3>3 DEF H!Refusal, H!Commit, H!AuthState, H!Account
      <4>2. QED
        BY <3>1, <4>1, NothingNew
    <3>4. QED
      BY <3>2, <3>3
  <2>2. CASE r.answer # H!Unauthenticated
    <3>1. /\ H!Commit(fetched, expired, cache \union {r.answer}, reads \ {r})
          /\ r.answer # H!Unanswered
          /\ UNCHANGED <<cookie, asked, csrf, login, logout, sessions, failures>>
      BY <1>3, <2>2 DEF H!LandRead
    <3>2. ~ Out /\ fetched \in Held \union {H!Nobody, H!Pending}
      BY DEF ShInv, NothingOfNobody, ShellTypes
    <3>3. /\ fetched' = fetched /\ expired' = expired
          /\ cache' = cache \union {r.answer} /\ reads' = reads \ {r} /\ had' = had
      BY <1>1, <3>1, <3>2, CommitIs DEF ShInv, Out
    <3>4. Data' \subseteq Data
      BY <3>1, <3>3, <2>2 DEF Data
    <3>5. \A p \in reads' : p \in [answer : Readers \union {H!Unanswered, H!Unauthenticated}]
      BY <3>3 DEF ShInv, ShellTypes
    <3>6. /\ cookie' \in {cookie, H!Nobody} /\ logout' = logout /\ (Out => reads' = reads /\ cache' = cache)
          /\ UNCHANGED <<fetched, asked, expired, had, csrf, login, sessions, failures>>
      BY <3>1, <3>2, <3>3
    <3>7. QED
      BY <3>1, <3>2, <3>3, <3>4, <3>5, <3>6, ShellStays
  <2>3. QED
    BY <2>1, <2>2
<1>4. ASSUME NEW w \in writes, H!LandWrite(w) PROVE ShInv'
  <2>1. CASE w.answer = H!Unauthenticated
    <3>1. /\ H!Commit(fetched, IF w.kind = "request" THEN H!Refusal(w) ELSE expired, cache, reads)
          /\ UNCHANGED <<cookie, asked, csrf, login, logout, sessions, failures>>
      BY <1>4, <2>1 DEF H!LandWrite
    <3>2. CASE w.kind = "request" /\ H!Refusal(w)
      <4>1. H!Commit(fetched, TRUE, cache, reads)
        BY <3>1, <3>2 DEF H!Commit, H!AuthState, H!Account
      <4>2. fetched # H!Pending
        BY <1>2, <3>2 DEF H!Refusal, ShInv, NothingOfNobody
      <4>3. QED
        BY <3>1, <4>1, <4>2, RefusalKeeps
    <3>3. CASE ~ (w.kind = "request" /\ H!Refusal(w))
      <4>1. H!Commit(fetched, expired, cache, reads)
        BY <1>1, <3>1, <3>3 DEF H!Refusal, H!Commit, H!AuthState, H!Account
      <4>2. QED
        BY <3>1, <4>1, NothingNew
    <3>4. QED
      BY <3>2, <3>3
  <2>2. CASE w.answer # H!Unauthenticated
    BY <1>4, <2>2, ShellStays DEF H!LandWrite, ShInv, ShellTypes, Data
  <2>3. QED
    BY <2>1, <2>2
<1>5. ASSUME NEW q \in logout, H!SignedOut(q) PROVE ShInv'
  <2>1. fetched # H!Pending
    BY DEF ShInv, NothingOfNobody
  <2>2. /\ H!Commit(fetched, TRUE, cache, reads) /\ logout' = {}
        /\ UNCHANGED <<cookie, asked, login, sessions, failures>>
    BY <1>5 DEF H!SignedOut
  <2>3. QED
    BY <2>1, <2>2, RefusalKeeps
<1>6. QED
  BY <1>3, <1>4, <1>5

LEMMA LoginKeeps ==
    ASSUME ShInv, NEW x \in Readers, H!Login(x)
    PROVE  ShInv'
<1>1. Out
  BY StateIs, NobodyElse DEF H!Login, H!Unauthenticated, ShInv, ShellTypes, Out
<1>2. /\ login = {} /\ login' = {[user |-> x, answer |-> H!Pending]}
      /\ UNCHANGED <<cookie, fetched, asked, expired, had, csrf, cache, reads, logout, sessions, failures>>
  BY DEF H!Login
<1>3. \A q \in login' : q = [user |-> x, answer |-> H!Pending] /\ q.answer = H!Pending
  BY <1>2
<1>4. SignInUnanswered /\ SignInUnanswered'
  BY <1>2, <1>3 DEF SignInUnanswered
<1>5. ShellTypes'
  BY <1>2, <1>3 DEF ShInv, ShellTypes
<1>6. NothingOfNobody'
  BY <1>1, <1>2, NobodyElse DEF ShInv, NothingOfNobody, Out, In
<1>7. CookieIsTheLast' /\ TokenIsTheNext' /\ DataOfTheShown'
  BY <1>1, <1>2, <1>3, <1>4 DEF ShInv, CookieIsTheLast, TokenIsTheNext, DataOfTheShown, Out
<1>8. QED
  BY <1>5, <1>6, <1>7 DEF ShInv

LEMMA AnswerLoginKeeps ==
    ASSUME ShInv, NEW q \in login, H!AnswerLogin(q)
    PROVE  ShInv'
<1> DEFINE s == [user |-> q.user, token |-> sessions + 1]
<1>1. /\ q.answer = H!Pending /\ cookie' = s /\ login' = {[q EXCEPT !.answer = s]}
      /\ sessions' = sessions + 1
      /\ UNCHANGED <<fetched, asked, expired, had, csrf, cache, reads, logout, failures>>
  BY DEF H!AnswerLogin
<1>2. q \in [user : Readers, answer : Held \union {H!Pending}] /\ \A p \in login : p = q
  BY DEF ShInv, ShellTypes
<1>3. s \in Held /\ sessions' \in Nat
  BY <1>1, <1>2 DEF ShInv, ShellTypes, Held
<1> HIDE DEF s
<1>4. login' = {[user |-> q.user, answer |-> s]}
  BY <1>1, <1>2
<1>5. \A p \in login' : p \in [user : Readers, answer : Held \union {H!Pending}] /\ p.answer = s
  BY <1>2, <1>3, <1>4
<1>6. s # H!Pending /\ ~ SignInUnanswered' /\ SignInUnanswered
  BY <1>1, <1>2, <1>3, <1>4, NobodyElse DEF SignInUnanswered
<1>7. ShellTypes'
  BY <1>1, <1>3, <1>4, <1>5 DEF ShInv, ShellTypes
<1>8. NothingOfNobody' /\ (fetched # H!Pending)
  BY <1>1, NobodyElse DEF ShInv, NothingOfNobody, Out, In
<1>9. CookieIsTheLast' /\ TokenIsTheNext'
  BY <1>1, <1>5, <1>6 DEF CookieIsTheLast, TokenIsTheNext
<1>10. DataOfTheShown'
  <2>1. ~ Out' => ~ Out /\ asked = {} /\ failures = 0
    BY <1>1 DEF ShInv, NothingOfNobody, Out
  <2>2. ~ Out' => Data' \subseteq {fetched.user}
    BY <1>1, <1>6, <2>1 DEF ShInv, DataOfTheShown, Data
  <2>3. QED
    BY <1>1, <1>6, <2>1, <2>2 DEF DataOfTheShown
<1>11. QED
  BY <1>7, <1>8, <1>9, <1>10 DEF ShInv

(* Signed in, the page shows whom it showed before, if anybody, and asks.  *)
LEMMA SignedInKeeps ==
    ASSUME ShInv, NEW q \in login, H!SignedIn(q)
    PROVE  ShInv'
<1>1. /\ q.answer # H!Pending /\ login' = {} /\ asked' = {[answer |-> H!Pending]}
      /\ csrf' = q.answer.token /\ H!Commit(fetched, FALSE, cache, reads)
      /\ UNCHANGED <<cookie, logout, sessions, failures>>
  BY DEF H!SignedIn, H!TokenAnswered
<1>2. fetched \in Held \union {H!Nobody} /\ fetched # H!Pending
  BY DEF ShInv, ShellTypes, NothingOfNobody
<1>3. /\ fetched' = fetched /\ expired' = FALSE
      /\ (Out <=> fetched = H!Nobody) => cache' = cache /\ reads' = reads /\ had' = had
      /\ fetched \in Held /\ Out =>
            /\ had' = fetched.user
            /\ \/ cache' = {} /\ reads' = {}
               \/ cache' = cache /\ reads' = reads
  BY <1>1, <1>2, CommitIs, NobodyElse DEF ShInv
<1>4. /\ \/ cache' = {} /\ reads' = {}
         \/ cache' = cache /\ reads' = reads
      /\ Out => cache' = {} /\ reads' = {}
  BY <1>2, <1>3, NobodyElse DEF ShInv, NothingOfNobody, Out
<1>5. /\ \A p \in asked' : p.answer = H!Pending /\ p \in [answer : Held \union {H!Nobody, H!Pending}]
      /\ \A p, o \in asked' : p = o
  BY <1>1
<1>6. Out' <=> fetched = H!Nobody
  BY <1>3 DEF Out
<1>7. ShellTypes'
  BY <1>1, <1>2, <1>3, <1>4, <1>5 DEF ShInv, ShellTypes
<1>8. NothingOfNobody'
  <2>1. In' => had' = fetched.user
    BY <1>2, <1>3, NobodyElse DEF In, Out, ShInv, NothingOfNobody
  <2>2. Out' => cache' = {} /\ reads' = {}
    BY <1>4, <1>6 DEF Out
  <2>3. QED
    BY <1>1, <1>2, <1>3, <2>1, <2>2 DEF NothingOfNobody
<1>9. cookie \in {H!Nobody, q.answer}
  BY <1>1 DEF ShInv, CookieIsTheLast
<1>10. CookieIsTheLast' /\ TokenIsTheNext'
  <2>1. asked' # {}
    BY <1>1
  <2>2. QED
    BY <1>1, <1>5, <1>9, <2>1, NobodyElse DEF CookieIsTheLast, TokenIsTheNext
<1>11. DataOfTheShown'
  <2> SUFFICES ASSUME ~ Out', cookie # H!Nobody, cookie.user = fetched.user
               PROVE  Data' \subseteq {cookie.user}
    BY <1>1, <1>2, <1>3, <1>5 DEF DataOfTheShown, Awaited
  <2>1. q.answer.user = fetched.user
    BY <1>9
  <2>2. CASE Out
    BY <1>4, <2>2 DEF Data
  <2>3. CASE ~ Out
    <3>1. Data \subseteq {fetched.user}
      BY <1>1, <2>1, <2>3 DEF ShInv, DataOfTheShown
    <3>2. QED
      BY <1>4, <3>1 DEF Data
  <2>4. QED
    BY <2>2, <2>3
<1>12. QED
  BY <1>7, <1>8, <1>10, <1>11 DEF ShInv

LEMMA ShellKeeps == ShInv /\ H!Next => ShInv'
BY ServerKeeps, AnswerSessionKeeps, LandSessionKeeps, LoseSessionKeeps, AnswerKeeps, LoginKeeps,
   AnswerLoginKeeps, SignedInKeeps DEF H!Next

LEMMA ShellStarts == H!Init => ShInv
<1> SUFFICES ASSUME H!Init PROVE ShInv
  OBVIOUS
<1>1. /\ cookie \in Held \union {H!Nobody} /\ fetched = H!Pending
      /\ asked = {[answer |-> H!Pending]} /\ expired = FALSE /\ had = "undefined"
      /\ cache = {} /\ reads = {} /\ login = {} /\ logout = {} /\ sessions = 1 /\ failures = 0
  BY DEF H!Init, Held
<1>2. ~ Out /\ ~ In /\ Data = {}
  BY <1>1, NobodyElse DEF Out, In, Data
<1>3. \A q \in asked : q.answer = H!Pending
  BY <1>1
<1>4. ShellTypes
  <2>1. \A q \in asked : q = [answer |-> H!Pending]
    BY <1>1
  <2>2. \A q \in asked : q \in [answer : Held \union {H!Nobody, H!Pending}]
    BY <2>1
  <2>3. \A p, q \in asked : p = q
    BY <2>1
  <2>4. QED
    BY <1>1, <2>2, <2>3 DEF ShellTypes
<1>5. NothingOfNobody /\ CookieIsTheLast /\ TokenIsTheNext /\ DataOfTheShown
  BY <1>1, <1>2, <1>3 DEF NothingOfNobody, CookieIsTheLast, TokenIsTheNext, DataOfTheShown
<1>6. QED
  BY <1>4, <1>5 DEF ShInv

(* For any accounts, any number of sessions, requests and lost answers: a  *)
(* page that knows who is signed in holds nothing of another account, and  *)
(* sends the token that is accepted (Root.tsx, api.ts).                    *)
THEOREM KeepsTheirOwn == Spec => []OnlyTheirOwn
<1>1. Init => ShInv
  BY ShellStarts DEF Init
<1>2. ShInv /\ [Next]_<<part, sessionsVars, accountVars, shellVars>> => ShInv'
  <2> SUFFICES ASSUME ShInv, [Next]_<<part, sessionsVars, accountVars, shellVars>> PROVE ShInv'
    OBVIOUS
  <2>1. CASE UNCHANGED shellVars
    BY <2>1 DEF shellVars, ShInv, ShellTypes, NothingOfNobody, CookieIsTheLast, TokenIsTheNext,
                DataOfTheShown, Out, In, Data, SignInUnanswered, Awaited
  <2>2. QED
    BY <2>1, ShellKeeps DEF Next
<1>3. ShInv => OnlyTheirOwn
  <2> SUFFICES ASSUME ShInv, In, asked = {}, login = {}, failures = 0
               PROVE  /\ cache \subseteq {fetched.user}
                      /\ cookie # H!Nobody => cookie.user = fetched.user /\ csrf = cookie.token
    BY InIs DEF OnlyTheirOwn, H!OnlyTheirOwn, H!WritesAreAccepted, H!Known, ShInv
  <2>1. ~ Out /\ SignInUnanswered
    BY NobodyElse DEF Out, In, SignInUnanswered
  <2>2. QED
    BY <2>1 DEF ShInv, CookieIsTheLast, DataOfTheShown, Data
<1>4. QED
  BY <1>1, <1>2, <1>3, PTL DEF Spec

-----------------------------------------------------------------------------
(* Accounts.  Who is barred is not active, and was so before; a request    *)
(* that came through the door came as somebody who was active meanwhile.   *)
Unaimed == {"idle", "resolve", "lookup", "evict", "admin", "start", "exists", "done", "refused"}
AtDoor == Unaimed \ {"exists"}
Changing == {"exists", "check", "read", "unlocked", "list", "remove"}
TargetKinds == {"account", "patch", "delete", "adminPassword"}

AccountTypes ==
    /\ account = [i \in Ids |-> account[i]]
    /\ place = [r \in Askers |-> place[r]] /\ job = [r \in Askers |-> job[r]]
    /\ who = [r \in Askers |-> who[r]] /\ before = [r \in Askers |-> before[r]]
    /\ found = [r \in Askers |-> found[r]] /\ hit = [r \in Askers |-> hit[r]]
    /\ barred \subseteq Ids

BarredAreInactive ==
    /\ \A i \in barred : ~ A!Active(account[i])
    /\ barred \subseteq issued
    /\ \A i \in Ids : account[i] # None => i \in issued
    /\ running \intersect barred \subseteq late

Judged(r) ==
    /\ before[r] \subseteq barred
    /\ place[r] \in {"idle", "resolve"} => who[r] = None
    /\ place[r] = "start" /\ who[r] \in barred => who[r] \in late
    /\ place[r] # "idle" => job[r] \in A!Job
    /\ who[r] \in Ids /\ place[r] \notin {"lookup", "evict"} => who[r] \in issued
    /\ place[r] \notin Unaimed /\ A!Is(r, {"patch", "delete", "adminPassword"}) =>
           job[r].target \in issued
    /\ place[r] \in Changing => A!Is(r, TargetKinds)
    /\ place[r] \notin AtDoor => ~ A!Is(r, {"visit", "logout", "send"})
    /\ A!Served(r) => who[r] \notin before[r]
    /\ place[r] # "idle" /\ A!Is(r, {"login"}) =>
           /\ place[r] = "verify" /\ A!Active(hit[r]) => found[r] \notin before[r]
           /\ place[r] \in {"swap", "open"} => found[r] \notin before[r]

BarInv == AccountTypes /\ BarredAreInactive /\ \A r \in Askers : Judged(r)

(* A step that changes what one request knows, and no account.             *)
LEMMA OwnStep ==
    ASSUME BarInv, NEW r \in Askers, NEW to, A!Go(r, to),
           UNCHANGED <<account, running, barred, late, before, job>>, issued \subseteq issued',
           \E x : who' = [who EXCEPT ![r] = x],
           \E x : found' = [found EXCEPT ![r] = x],
           \E x : hit' = [hit EXCEPT ![r] = x],
           to # "idle", place[r] # "idle",
           Judged(r)'
    PROVE  BarInv'
<1>1. /\ place'[r] = to /\ \A q \in Askers \ {r} : place'[q] = place[q]
      /\ place' = [q \in Askers |-> place'[q]]
  BY DEF A!Go, BarInv, AccountTypes
<1>2. /\ who' = [q \in Askers |-> who'[q]] /\ found' = [q \in Askers |-> found'[q]]
      /\ hit' = [q \in Askers |-> hit'[q]]
      /\ \A q \in Askers \ {r} : who'[q] = who[q] /\ found'[q] = found[q] /\ hit'[q] = hit[q]
  BY DEF BarInv, AccountTypes
<1>3. AccountTypes'
  BY <1>1, <1>2 DEF BarInv, AccountTypes
<1>4. BarredAreInactive'
  BY DEF BarInv, BarredAreInactive, A!Active
<1>5. ASSUME NEW q \in Askers, q # r PROVE Judged(q)'
  <2>1. Judged(q) /\ place'[q] = place[q] /\ who'[q] = who[q] /\ found'[q] = found[q] /\ hit'[q] = hit[q]
    BY <1>1, <1>2, <1>5 DEF BarInv
  <2>2. QED
    BY <2>1 DEF Judged, A!Is, A!Served, A!Active
<1>6. QED
  BY <1>3, <1>4, <1>5 DEF BarInv

(* Nothing new is known of anybody.                                        *)
LEMMA SameOf ==
    ASSUME BarInv, NEW r \in Askers
    PROVE  /\ who = [who EXCEPT ![r] = who[r]]
           /\ found = [found EXCEPT ![r] = found[r]]
           /\ hit = [hit EXCEPT ![r] = hit[r]]
BY DEF BarInv, AccountTypes

LEMMA AtTheDoor ==
    ASSUME BarInv, NEW r \in Askers, A!Resolve(r) \/ A!Lookup(r) \/ A!Evict(r) \/ A!RequireAdmin(r)
    PROVE  BarInv'
<1>1. CASE A!Resolve(r)
  <2>1. PICK to \in {"start", "refused", "lookup"} :
            /\ A!Go(r, to) /\ place[r] = "resolve"
            /\ UNCHANGED <<account, running, barred, late, before, job, issued, found, hit>>
            /\ \/ UNCHANGED who
               \/ to = "lookup" /\ who' = [who EXCEPT ![r] = session[job[r].token]]
    BY <1>1 DEF A!Resolve, A!Anonymous, A!history, A!seeking, A!disk
  <2>2. place'[r] = to
    BY <2>1 DEF A!Go, BarInv, AccountTypes
  <2>3. who[r] = None /\ Judged(r)
    BY <2>1 DEF BarInv, Judged
  <2>4. /\ \E x : who' = [who EXCEPT ![r] = x]
        /\ \E x : found' = [found EXCEPT ![r] = x]
        /\ \E x : hit' = [hit EXCEPT ![r] = x]
        /\ to # "lookup" => who'[r] = None
    BY <2>1, <2>3, SameOf
  <2>5. Judged(r)'
    BY <2>1, <2>2, <2>3, <2>4, Assumptions DEF Judged, A!Served, A!Is, Unaimed, AtDoor, Changing,
         Assumptions, A!NoneAssumption, BarInv, AccountTypes
  <2>6. QED
    BY <2>1, <2>4, <2>5, OwnStep
<1>2. CASE A!Lookup(r)
  <2>1. PICK to \in {"start", "admin", "evict"} :
            /\ A!Go(r, to) /\ place[r] = "lookup" /\ (to # "evict" => A!Active(account[who[r]]))
            /\ UNCHANGED <<account, running, barred, late, before, job, issued, found, hit, who>>
    BY <1>2 DEF A!Lookup, A!history, A!seeking, A!disk
  <2>2. place'[r] = to
    BY <2>1 DEF A!Go, BarInv, AccountTypes
  <2>3. Judged(r)
    BY DEF BarInv
  <2>4. to # "evict" => who[r] \notin barred
    BY <2>1 DEF BarInv, BarredAreInactive
  <2>5. to # "evict" /\ who[r] \in Ids => who[r] \in issued
    BY <2>1 DEF BarInv, BarredAreInactive, A!Active
  <2>6. Judged(r)'
    BY <2>1, <2>2, <2>3, <2>4, <2>5 DEF Judged, A!Served, A!Is, Unaimed, AtDoor, Changing
  <2>7. QED
    BY <2>1, <2>6, SameOf, OwnStep
<1>3. CASE A!Evict(r)
  <2>1. PICK to \in {"start", "refused"} :
            /\ A!Go(r, to) /\ place[r] = "evict" /\ who' = [who EXCEPT ![r] = None]
            /\ UNCHANGED <<account, running, barred, late, before, job, issued, found, hit>>
    BY <1>3 DEF A!Evict, A!Anonymous, A!history, A!seeking
  <2>2. place'[r] = to /\ who'[r] = None
    BY <2>1 DEF A!Go, BarInv, AccountTypes
  <2>3. Judged(r)
    BY DEF BarInv
  <2>4. Judged(r)'
    BY <2>1, <2>2, <2>3, Assumptions DEF Judged, A!Served, A!Is, Unaimed, AtDoor, Changing,
         Assumptions, A!NoneAssumption, BarInv, AccountTypes
  <2>5. QED
    BY <2>1, <2>4, SameOf, OwnStep
<1>4. CASE A!RequireAdmin(r)
  <2>1. PICK to \in {"start", "refused"} :
            /\ A!Go(r, to) /\ place[r] = "admin" /\ (to = "start" => who[r] \in A!ActiveAdmins)
            /\ UNCHANGED <<account, running, barred, late, before, job, issued, found, hit, who>>
    BY <1>4 DEF A!RequireAdmin, A!history, A!seeking, A!disk
  <2>2. place'[r] = to
    BY <2>1 DEF A!Go, BarInv, AccountTypes
  <2>3. Judged(r)
    BY DEF BarInv
  <2>4. to = "start" => who[r] \notin barred
    BY <2>1 DEF BarInv, BarredAreInactive, A!ActiveAdmins
  <2>5. Judged(r)'
    BY <2>1, <2>2, <2>3, <2>4 DEF Judged, A!Served, A!Is, Unaimed, AtDoor, Changing
  <2>6. QED
    BY <2>1, <2>5, SameOf, OwnStep
<1>5. QED
  BY <1>1, <1>2, <1>3, <1>4

(* What may be asked, and that an account an administrator's request names *)
(* is one.                                                                 *)
LEMMA Kinds ==
    ASSUME NEW j \in A!Job
    PROVE  /\ j.kind \in {"visit", "logout", "send", "login", "claim", "signup", "account",
                          "adminCreate", "adminPassword", "patch", "delete"}
           /\ j.kind \in {"patch", "delete", "adminPassword"} => j.target \in Ids
           /\ j.kind \in {"claim", "signup", "adminCreate"} => j.name \in Names
<1>1. \/ j \in [kind : {"visit", "logout", "send"}, token : Cookies]
      \/ j \in [kind : {"login"}, token : A!Maybe(Cookies, None), name : Names, pw : Passwords]
      \/ j \in [kind : {"claim", "signup"}, name : Names, pw : Passwords]
      \/ j \in [kind : {"account"}, token : Cookies, pw : Passwords,
                name : A!Maybe(Names, None), newPw : A!Maybe(Passwords, None)]
      \/ j \in [kind : {"adminCreate"}, token : Cookies, name : Names, pw : Passwords, role : A!Roles]
      \/ j \in [kind : {"adminPassword"}, token : Cookies, target : Ids, newPw : Passwords]
      \/ j \in [kind : {"patch"}, token : Cookies, target : Ids,
                role : A!Maybe(A!Roles, None), status : {"active", "disabled", None}]
      \/ j \in [kind : {"delete"}, token : Cookies, target : Ids, name : Names]
  BY DEF A!Job
<1>2. QED
  BY <1>1

(* A step of a request past authentication, which stays who it is.         *)
LEMMA OnwardStep ==
    ASSUME BarInv, NEW r \in Askers, NEW to, A!Go(r, to),
           UNCHANGED <<account, running, barred, late, before, job, who>>, issued \subseteq issued',
           \E x : found' = [found EXCEPT ![r] = x],
           \E x : hit' = [hit EXCEPT ![r] = x],
           place[r] \notin {"idle", "resolve", "lookup", "evict", "refused"},
           to \notin {"idle", "resolve", "start"},
           place[r] \in Unaimed /\ to \notin Unaimed /\ A!Is(r, {"patch", "delete", "adminPassword"}) =>
               job[r].target \in issued,
           to \in Changing => place[r] \in Changing \/ A!Is(r, TargetKinds),
           place[r] \in AtDoor /\ to \notin AtDoor => ~ A!Is(r, {"visit", "logout", "send"}),
           A!Is(r, {"login"}) =>
               /\ to = "verify" /\ A!Active(hit'[r]) => found'[r] \notin before[r]
               /\ to \in {"swap", "open"} => found'[r] \notin before[r]
    PROVE  BarInv'
<1>1. place'[r] = to
  BY DEF A!Go, BarInv, AccountTypes
<1>2. Judged(r) /\ A!Served(r)' = (who[r] # None /\ to \notin {"lookup", "evict", "refused"})
  BY <1>1 DEF BarInv, A!Served
<1>3. Judged(r)'
  BY <1>1, <1>2 DEF Judged, A!Served, A!Is, Unaimed, A!Active
<1>4. QED
  BY <1>3, SameOf, OwnStep

(* The steps that neither look anything up nor change an account.          *)
LEMMA StayThemselves ==
    ASSUME BarInv, NEW r \in Askers,
           \/ A!Begin(r) \/ A!Scan(r) \/ A!Swap(r) \/ \E t \in Cookies : A!Open(r, t)
           \/ A!Queue(r) \/ A!Enter(r) \/ A!Decide(r) \/ A!Rescan(r)
           \/ A!AssertNotLastAdmin(r) \/ A!UpdateRead(r) \/ A!List(r)
    PROVE  BarInv'
<1> USE DEF A!history, A!seeking, A!disk
<1>0. ASSUME NEW to, A!Go(r, to),
             UNCHANGED <<account, running, barred, late, before, job, who, found, hit>>,
             issued \subseteq issued',
             place[r] \notin {"idle", "resolve", "lookup", "evict", "refused"},
             to \notin {"idle", "resolve", "start", "verify"},
             to = "open" => ~ A!Is(r, {"login"}) \/ place[r] = "swap",
             to # "swap",
             place[r] \in Unaimed /\ to \notin Unaimed => ~ A!Is(r, {"patch", "delete", "adminPassword"}),
             to \in Changing => place[r] \in Changing \/ A!Is(r, TargetKinds),
             place[r] \in AtDoor /\ to \notin AtDoor => ~ A!Is(r, {"visit", "logout", "send"})
      PROVE  BarInv'
  <2>1. to = "open" /\ A!Is(r, {"login"}) => found[r] \notin before[r]
    BY <1>0 DEF BarInv, Judged
  <2>2. found'[r] = found[r] /\ before'[r] = before[r]
    BY <1>0
  <2>3. QED
    BY <1>0, <2>1, <2>2, SameOf, OnwardStep
<1>1. CASE A!Begin(r) /\ A!Is(r, {"patch", "delete", "adminPassword"})
  <2>1. A!Go(r, "exists")
    BY <1>1 DEF A!Begin, A!Is
  <2>2. QED
    BY <1>1, <2>1, <1>0 DEF A!Begin, Unaimed, TargetKinds, A!Is
<1>2. CASE A!Begin(r) /\ ~ A!Is(r, {"patch", "delete", "adminPassword"})
  <2>1. place[r] = "start" /\ ~ A!Is(r, {"visit", "logout", "send"})
        /\ UNCHANGED <<account, running, barred, late, before, job, who, found, hit, issued>>
    BY <1>2 DEF A!Begin
  <2>2. job[r] \in A!Job
    BY <2>1 DEF BarInv, Judged
  <2>3. PICK to \in {"seek", "queue"} : A!Go(r, to)
    BY <1>2, <2>1, <2>2, Kinds DEF A!Begin, A!Is
  <2>4. QED
    BY <1>2, <2>1, <2>3, <1>0 DEF Changing
<1>3. CASE A!Scan(r)
  BY <1>3, <1>0 DEF A!Scan, Unaimed, AtDoor, Changing
<1>4. CASE A!Swap(r)
  BY <1>4, <1>0 DEF A!Swap, Unaimed, AtDoor, Changing
<1>5. CASE \E t \in Cookies : A!Open(r, t)
  BY <1>5, <1>0 DEF A!Open, Unaimed, AtDoor, Changing
<1>6. CASE A!Queue(r)
  BY <1>6, <1>0 DEF A!Queue, Unaimed, AtDoor, Changing
<1>7. CASE A!Enter(r)
  <2>1. PICK to \in {"refused", "seek", "read", "done", "erase"} :
            A!Go(r, to) /\ (to = "read" => A!Is(r, TargetKinds))
    BY <1>7 DEF A!Enter, A!EnterToClaim, A!EnterToCreate, A!EnterToRename, A!EnterToDelete, A!Answer, A!Renamed, A!Is, TargetKinds
  <2>2. place[r] = "inside" /\ UNCHANGED <<account, running, barred, late, before, job, who, found, hit, issued>>
    BY <1>7 DEF A!Enter
  <2>3. QED
    BY <2>1, <2>2, <1>0 DEF Unaimed, AtDoor, Changing
<1>8. CASE A!Decide(r)
  <2>1. PICK to \in {"refused", "write"} : A!Go(r, to)
    BY <1>8 DEF A!Decide, A!Answer
  <2>2. place[r] = "decide" /\ UNCHANGED <<account, running, barred, late, before, job, who, found, hit, issued>>
    BY <1>8 DEF A!Decide
  <2>3. QED
    BY <2>1, <2>2, <1>0 DEF Unaimed, AtDoor, Changing
<1>9. CASE A!Rescan(r)
  BY <1>9, <1>0 DEF A!Rescan, Unaimed, AtDoor, Changing
<1>10. CASE A!AssertNotLastAdmin(r)
  <2>1. PICK to \in {"refused", "list", "read"} : A!Go(r, to)
    BY <1>10 DEF A!AssertNotLastAdmin
  <2>2. place[r] = "check" /\ UNCHANGED <<account, running, barred, late, before, job, who, found, hit, issued>>
    BY <1>10 DEF A!AssertNotLastAdmin
  <2>3. QED
    BY <2>1, <2>2, <1>0 DEF Unaimed, AtDoor, Changing
<1>11. CASE A!UpdateRead(r)
  <2>1. PICK to \in {"refused", "unlocked"} : A!Go(r, to)
    BY <1>11 DEF A!UpdateRead
  <2>2. place[r] = "read" /\ UNCHANGED <<account, running, barred, late, before, job, who, found, hit, issued>>
    BY <1>11 DEF A!UpdateRead
  <2>3. QED
    BY <2>1, <2>2, <1>0 DEF Unaimed, AtDoor, Changing
<1>12. CASE A!List(r)
  BY <1>12, <1>0 DEF A!List, Unaimed, AtDoor, Changing
<1>13. QED
  BY <1>1, <1>2, <1>3, <1>4, <1>5, <1>6, <1>7, <1>8, <1>9, <1>10, <1>11, <1>12

(* What is found under a name is what the file holds, or nothing.          *)
LEMMA LookedUp ==
    ASSUME BarInv, NEW r \in Askers,
           \/ A!Seek(r) \/ A!Fetch(r) \/ A!Rewrite(r) \/ A!Refetch(r) \/ A!Exists(r)
    PROVE  BarInv'
<1> USE DEF A!history, A!seeking, A!disk
<1>0. AccountTypes /\ BarredAreInactive /\ Judged(r)
  BY DEF BarInv
<1>1. CASE A!Seek(r) \/ A!Rewrite(r)
  <2>1. PICK to \in {"scan", "fetch", "refetch", "verify", "decide"} :
            /\ A!Go(r, to) /\ place[r] \in {"seek", "rewrite"}
            /\ to = "verify" => hit' = [hit EXCEPT ![r] = None]
            /\ hit' = hit \/ hit' = [hit EXCEPT ![r] = None]
            /\ \E x : found' = [found EXCEPT ![r] = x]
    BY <1>1, SameOf DEF A!Seek, A!Rewrite, A!Then
  <2>2. UNCHANGED <<account, running, barred, late, before, job, who, issued>>
    BY <1>1 DEF A!Seek, A!Rewrite
  <2>3. to = "verify" => ~ A!Active(hit'[r])
    BY <2>1, <1>0 DEF AccountTypes, A!Active
  <2>4. \E x : hit' = [hit EXCEPT ![r] = x]
    BY <2>1, SameOf
  <2>5. QED
    BY <2>1, <2>2, <2>3, <2>4, OnwardStep DEF Unaimed, AtDoor, Changing
<1>2. CASE A!Fetch(r) \/ A!Refetch(r)
  <2>1. PICK to \in {"scan", "verify", "decide"} :
            /\ A!Go(r, to) /\ place[r] \in {"fetch", "refetch"}
            /\ hit' = [hit EXCEPT ![r] = account[found[r]]]
    BY <1>2 DEF A!Fetch, A!Refetch, A!Then
  <2>2. UNCHANGED <<account, running, barred, late, before, job, who, issued, found>>
    BY <1>2 DEF A!Fetch, A!Refetch
  <2>3. hit'[r] = account[found[r]] /\ found'[r] = found[r]
    BY <2>1, <2>2, <1>0 DEF AccountTypes
  <2>4. A!Active(hit'[r]) => found'[r] \notin before[r]
    BY <2>3, <1>0 DEF BarredAreInactive, A!Active, Judged
  <2>5. QED
    BY <2>1, <2>2, <2>4, SameOf, OnwardStep DEF Unaimed, AtDoor, Changing
<1>3. CASE A!Exists(r)
  <2>1. PICK to \in {"refused", "list", "check", "read"} :
            /\ A!Go(r, to) /\ (to # "refused" => account[A!Target(r)] # None)
    <3>1. CASE account[A!Target(r)] = None
      <4>1. A!Go(r, "refused")
        BY <1>3, <3>1 DEF A!Exists
      <4>2. QED
        BY <4>1
    <3>2. CASE account[A!Target(r)] # None
      <4>1. PICK where : A!Go(r, where) /\ where \in {"refused", "list", "check", "read"}
        BY <1>3, <3>2 DEF A!Exists
      <4>2. QED
        BY <4>1, <3>2
    <3>3. QED
      BY <3>1, <3>2
  <2>2. /\ place[r] = "exists" /\ hit' = [hit EXCEPT ![r] = account[A!Target(r)]]
        /\ UNCHANGED <<account, running, barred, late, before, job, who, issued, found>>
    BY <1>3 DEF A!Exists
  <2>3. ASSUME A!Is(r, {"patch", "delete", "adminPassword"}), to # "refused" PROVE job[r].target \in issued
    <3>1. job[r] \in A!Job /\ A!Target(r) = job[r].target
      BY <2>2, <2>3, <1>0 DEF Judged, A!Target, A!Is
    <3>2. job[r].target \in Ids
      BY <3>1, <2>3, Kinds DEF A!Is
    <3>3. QED
      BY <3>1, <3>2, <2>1, <2>3, <1>0 DEF BarredAreInactive
  <2>4. QED
    BY <2>1, <2>2, <2>3, SameOf, OnwardStep DEF Unaimed, AtDoor, Changing
<1>4. QED
  BY <1>1, <1>2, <1>3

(* Signing in asks for an active account; what is found is still as it was *)
(* judged when it was looked up.                                           *)
LEMMA VerifyKeeps ==
    ASSUME BarInv, NEW r \in Askers, A!Verify(r)
    PROVE  BarInv'
<1>1. /\ place[r] = "verify"
      /\ UNCHANGED <<account, running, barred, late, before, job, who, found, hit, issued>>
  BY DEF A!Verify, A!history, A!seeking, A!disk
<1>2. Judged(r) /\ found'[r] = found[r]
  BY <1>1 DEF BarInv
<1>3. CASE A!Is(r, {"login"}) /\ hit[r] # None /\ A!Active(hit[r])
  <2>1. PICK to \in {"refused", "open", "swap"} : A!Go(r, to)
    BY <1>3 DEF A!Verify
  <2>2. found[r] \notin before[r]
    BY <1>1, <1>2, <1>3 DEF Judged
  <2>3. QED
    BY <1>1, <1>2, <2>1, <2>2, SameOf, OnwardStep DEF Unaimed, AtDoor, Changing
<1>4. CASE ~ (A!Is(r, {"login"}) /\ hit[r] # None /\ A!Active(hit[r]))
  <2>1. PICK to \in {"refused", "queue", "read", "done"} :
            A!Go(r, to) /\ (to = "read" => ~ A!Is(r, {"login"}) /\ job[r].name = None)
    BY <1>4 DEF A!Verify, A!Renamed
  <2>2. job[r] \in A!Job /\ ~ A!Is(r, {"visit", "logout", "send"})
    BY <1>1, <1>2 DEF Judged, AtDoor, Unaimed
  <2>3. to = "read" => A!Is(r, TargetKinds)
    BY <2>1, <2>2, Kinds, Assumptions DEF A!Is, TargetKinds, Assumptions, A!NoneAssumption
  <2>4. QED
    BY <1>1, <2>1, <2>3, SameOf, OnwardStep DEF Unaimed, AtDoor, Changing
<1>5. QED
  BY <1>3, <1>4

(* A request that arrives counts as barred whoever is barred by now.       *)
LEMMA ArriveKeeps ==
    ASSUME BarInv, NEW r \in Askers, NEW j \in A!Job, A!Arrive(r, j)
    PROVE  BarInv'
<1>1. /\ place[r] = "idle" /\ job' = [job EXCEPT ![r] = j] /\ before' = [before EXCEPT ![r] = barred]
      /\ UNCHANGED <<account, running, barred, late, who, found, hit, issued>>
  BY DEF A!Arrive, A!seeking, A!disk
<1>2. PICK to \in {"start", "resolve"} : A!Go(r, to)
  BY DEF A!Arrive
<1>3. /\ place'[r] = to /\ \A q \in Askers \ {r} : place'[q] = place[q]
      /\ place' = [q \in Askers |-> place'[q]]
  BY <1>2 DEF A!Go, BarInv, AccountTypes
<1>4. /\ job'[r] = j /\ before'[r] = barred
      /\ \A q \in Askers \ {r} : job'[q] = job[q] /\ before'[q] = before[q]
      /\ job' = [q \in Askers |-> job'[q]] /\ before' = [q \in Askers |-> before'[q]]
  BY <1>1 DEF BarInv, AccountTypes
<1>5. who[r] = None /\ None \notin Ids
  BY <1>1, Assumptions DEF BarInv, Judged, Assumptions, A!NoneAssumption
<1>6. Judged(r)'
  BY <1>1, <1>3, <1>4, <1>5 DEF Judged, A!Served, A!Is, Unaimed, AtDoor, Changing, BarInv, AccountTypes
<1>7. ASSUME NEW q \in Askers, q # r PROVE Judged(q)'
  <2>1. Judged(q) /\ place'[q] = place[q] /\ job'[q] = job[q] /\ before'[q] = before[q]
    BY <1>3, <1>4, <1>7 DEF BarInv
  <2>2. QED
    BY <1>1, <2>1 DEF Judged, A!Is, A!Served, A!Active
<1>8. AccountTypes' /\ BarredAreInactive'
  BY <1>1, <1>3, <1>4 DEF BarInv, AccountTypes, BarredAreInactive, A!Active
<1>9. QED
  BY <1>6, <1>7, <1>8 DEF BarInv

(* Work begins only for somebody who was not barred, or whom the           *)
(* cancellation counted as late.                                           *)
LEMMA VisitKeeps ==
    ASSUME BarInv, NEW r \in Askers, A!Visit(r)
    PROVE  BarInv'
<1>1. /\ place[r] = "start" /\ A!Go(r, "done")
      /\ UNCHANGED <<account, barred, late, before, job, who, found, hit, issued>>
      /\ running' \subseteq running \union {who[r]}
  BY DEF A!Visit, A!history, A!seeking
<1>2. /\ place'[r] = "done" /\ \A q \in Askers \ {r} : place'[q] = place[q]
      /\ place' = [q \in Askers |-> place'[q]]
  BY <1>1 DEF A!Go, BarInv, AccountTypes
<1>3. AccountTypes' /\ BarredAreInactive'
  BY <1>1, <1>2 DEF BarInv, AccountTypes, BarredAreInactive, Judged, A!Active
<1>4. ASSUME NEW q \in Askers PROVE Judged(q)'
  <2>1. Judged(q)
    BY DEF BarInv
  <2>2. CASE q = r
    BY <1>1, <1>2, <2>1, <2>2 DEF Judged, A!Is, A!Served, Unaimed, AtDoor, Changing
  <2>3. CASE q # r
    BY <1>1, <1>2, <2>1, <2>3 DEF Judged, A!Is, A!Served, A!Active
  <2>4. QED
    BY <2>2, <2>3
<1>5. QED
  BY <1>3, <1>4 DEF BarInv

LEMMA GenerationEndsKeeps ==
    ASSUME BarInv, NEW i \in Ids, A!GenerationEnds(i)
    PROVE  BarInv'
<1>1. /\ UNCHANGED <<account, place, barred, late, before, job, who, found, hit, issued>>
      /\ running' \subseteq running
  BY DEF A!GenerationEnds, A!history, A!seeking
<1>2. QED
  BY <1>1 DEF BarInv, AccountTypes, BarredAreInactive, Judged, A!Is, A!Served, A!Active

(* A new account has an id that nobody had, so nobody was barred by it.    *)
LEMMA InsertKeeps ==
    ASSUME BarInv, NEW r \in Askers, NEW i \in Ids, A!Insert(r, i)
    PROVE  BarInv'
<1>1. /\ place[r] = "write" /\ ~ A!Is(r, {"account"}) /\ i \notin issued /\ A!Go(r, "rescan")
      /\ issued' = issued \union {i} /\ found' = [found EXCEPT ![r] = i]
      /\ UNCHANGED <<running, barred, late, before, job, who, hit>>
      /\ \E a : account' = [account EXCEPT ![i] = a]
  BY DEF A!Insert
<1>2. /\ \A k \in Ids \ {i} : account'[k] = account[k]
      /\ account' = [k \in Ids |-> account'[k]]
  BY <1>1 DEF BarInv, AccountTypes
<1>3. /\ place'[r] = "rescan" /\ \A q \in Askers \ {r} : place'[q] = place[q] /\ found'[q] = found[q]
      /\ place' = [q \in Askers |-> place'[q]] /\ found' = [q \in Askers |-> found'[q]]
  BY <1>1 DEF A!Go, BarInv, AccountTypes
<1>4. i \notin barred
  BY <1>1 DEF BarInv, BarredAreInactive
<1>5. AccountTypes'
  BY <1>1, <1>2, <1>3 DEF BarInv, AccountTypes
<1>6. BarredAreInactive'
  BY <1>1, <1>2, <1>4 DEF BarInv, AccountTypes, BarredAreInactive, A!Active
<1>7. ASSUME NEW q \in Askers PROVE Judged(q)'
  <2>1. Judged(q)
    BY DEF BarInv
  <2>2. CASE q = r
    BY <1>1, <1>3, <2>1, <2>2 DEF Judged, A!Is, A!Served, Unaimed, AtDoor, Changing
  <2>3. CASE q # r
    BY <1>1, <1>3, <2>1, <2>3 DEF Judged, A!Is, A!Served, A!Active
  <2>4. QED
    BY <2>2, <2>3
<1>8. QED
  BY <1>5, <1>6, <1>7 DEF BarInv

(* Writing a record back: whoever it makes active is barred no longer.     *)
LEMMA PutKeeps ==
    ASSUME BarInv, NEW r \in Askers, NEW i, NEW a, A!Put(i, a), i \in Ids => i \in issued,
           NEW to \in {"rescan", "list", "done"}, A!Go(r, to),
           place[r] \in {"write", "unlocked"}, to = "list" => place[r] = "unlocked",
           UNCHANGED <<running, job, who, found, hit, issued, late>>
    PROVE  BarInv'
<1>1. /\ \A k \in Ids \ {i} : account'[k] = account[k]
      /\ i \in Ids => account'[i] = a
      /\ account' = [k \in Ids |-> account'[k]]
  BY DEF A!Put, BarInv, AccountTypes
<1>2. /\ place'[r] = to /\ \A q \in Askers \ {r} : place'[q] = place[q]
      /\ place' = [q \in Askers |-> place'[q]]
  BY DEF A!Go, BarInv, AccountTypes
<1>3. /\ \/ A!Active(a) /\ barred' = barred \ {i} /\ \A q \in Askers : before'[q] = before[q] \ {i}
         \/ ~ A!Active(a) /\ barred' = barred /\ \A q \in Askers : before'[q] = before[q]
      /\ before' = [q \in Askers |-> before'[q]]
  BY DEF A!Put, BarInv, AccountTypes
<1>4. AccountTypes'
  BY <1>1, <1>2, <1>3 DEF BarInv, AccountTypes
<1>5. BarredAreInactive'
  <2>1. ASSUME NEW k \in barred' PROVE ~ A!Active(account'[k])
    BY <2>1, <1>1, <1>3 DEF BarInv, AccountTypes, BarredAreInactive
  <2>2. QED
    BY <2>1, <1>1, <1>3 DEF BarInv, AccountTypes, BarredAreInactive, A!Active
<1>6. ASSUME NEW q \in Askers PROVE Judged(q)'
  <2>1. Judged(q) /\ before'[q] \subseteq before[q] /\ before'[q] \subseteq barred' /\ barred' \subseteq barred
    BY <1>3 DEF BarInv, Judged
  <2>2. CASE q = r
    BY <1>2, <2>1, <2>2 DEF Judged, A!Is, A!Served, Unaimed, AtDoor, Changing
  <2>3. CASE q # r
    BY <1>2, <2>1, <2>3 DEF Judged, A!Is, A!Served, A!Active
  <2>4. QED
    BY <2>2, <2>3
<1>7. QED
  BY <1>4, <1>5, <1>6 DEF BarInv

LEMMA WriteBackKeeps ==
    ASSUME BarInv, NEW r \in Askers, A!Rename(r) \/ A!UpdateWrite(r)
    PROVE  BarInv'
<1>1. Judged(r)
  BY DEF BarInv
<1>2. CASE A!Rename(r)
  <2>1. /\ place[r] = "write" /\ A!Put(who[r], [rec[r] EXCEPT !.name = job[r].name])
        /\ A!Go(r, "rescan") /\ UNCHANGED <<running, job, who, found, hit, issued, late>>
    BY <1>2 DEF A!Rename, A!seeking
  <2>2. who[r] \in Ids => who[r] \in issued
    BY <1>1, <2>1 DEF Judged
  <2>3. QED
    BY <2>1, <2>2, PutKeeps
<1>3. CASE A!UpdateWrite(r)
  <2>1. /\ place[r] = "unlocked" /\ A!Put(A!Target(r), A!Changed(r))
        /\ UNCHANGED <<running, job, who, found, hit, issued, late>>
    BY <1>3 DEF A!UpdateWrite, A!seeking
  <2>2. PICK to \in {"list", "done"} : A!Go(r, to)
    BY <1>3 DEF A!UpdateWrite
  <2>3. A!Target(r) \in Ids => A!Target(r) \in issued
    BY <1>1, <2>1 DEF Judged, A!Target, Unaimed, A!Is, TargetKinds, Changing
  <2>4. QED
    BY <2>1, <2>2, <2>3, PutKeeps
<1>4. QED
  BY <1>2, <1>3

LEMMA EraseKeeps ==
    ASSUME BarInv, NEW r \in Askers, A!Erase(r)
    PROVE  BarInv'
<1>1. /\ place[r] = "erase" /\ A!Go(r, "rescan") /\ account' = [account EXCEPT ![job[r].target] = None]
      /\ UNCHANGED <<running, barred, late, before, job, who, found, hit, issued>>
  BY DEF A!Erase, A!history, A!seeking
<1>2. /\ \A i \in Ids : account'[i] = account[i] \/ account'[i] = None
      /\ account' = [i \in Ids |-> account'[i]]
  BY <1>1 DEF BarInv, AccountTypes
<1>3. /\ place'[r] = "rescan" /\ \A q \in Askers \ {r} : place'[q] = place[q]
      /\ place' = [q \in Askers |-> place'[q]]
  BY <1>1 DEF A!Go, BarInv, AccountTypes
<1>4. AccountTypes' /\ BarredAreInactive'
  BY <1>1, <1>2, <1>3 DEF BarInv, AccountTypes, BarredAreInactive, A!Active
<1>5. ASSUME NEW q \in Askers PROVE Judged(q)'
  <2>1. Judged(q)
    BY DEF BarInv
  <2>2. CASE q = r
    BY <1>1, <1>3, <2>1, <2>2 DEF Judged, A!Is, A!Served, Unaimed, AtDoor, Changing
  <2>3. CASE q # r
    BY <1>1, <1>3, <2>1, <2>3 DEF Judged, A!Is, A!Served, A!Active
  <2>4. QED
    BY <2>2, <2>3
<1>6. QED
  BY <1>4, <1>5 DEF BarInv

(* When access is revoked, whoever is past the door by then is late, and   *)
(* what was running is cancelled.                                          *)
LEMMA BarOne ==
    ASSUME BarInv, NEW r \in Askers, NEW i, NEW to \in {"queue", "done", "open", "read"}, A!Go(r, to),
           place[r] \in {"remove", "register"},
           to = "open" => ~ A!Is(r, {"login"}),
           to = "read" => A!Is(r, TargetKinds),
           UNCHANGED <<account, job, who, found, hit, issued, before>>,
           running' \subseteq running, late \subseteq late',
           \/ barred' = barred
           \/ /\ barred' = barred \union {i} /\ i \in Ids /\ i \in issued /\ ~ A!Active(account[i])
              /\ i \in running' => i \in late'
              /\ \A q \in Askers : who[q] = i /\ place[q] = "start" => i \in late'
    PROVE  BarInv'
<1>1. /\ place'[r] = to /\ \A q \in Askers \ {r} : place'[q] = place[q]
      /\ place' = [q \in Askers |-> place'[q]]
  BY DEF A!Go, BarInv, AccountTypes
<1>2. AccountTypes' /\ BarredAreInactive'
  BY <1>1 DEF BarInv, AccountTypes, BarredAreInactive, A!Active
<1>3. ASSUME NEW q \in Askers PROVE Judged(q)'
  <2>1. Judged(q) /\ barred \subseteq barred'
    BY DEF BarInv
  <2>2. CASE q = r
    BY <1>1, <2>1, <2>2 DEF Judged, A!Is, A!Served, Unaimed, AtDoor, Changing
  <2>3. CASE q # r
    <3>1. place'[q] = "start" /\ who'[q] \in barred' => who'[q] \in late'
      BY <1>1, <2>1, <2>3 DEF Judged
    <3>2. QED
      BY <1>1, <2>1, <2>3, <3>1 DEF Judged, A!Is, A!Served, A!Active
  <2>4. QED
    BY <2>2, <2>3
<1>4. QED
  BY <1>2, <1>3 DEF BarInv

LEMMA RemoveKeeps ==
    ASSUME BarInv, NEW r \in Askers, A!Remove(r)
    PROVE  BarInv'
<1>1. /\ place[r] = "remove" /\ UNCHANGED <<account, job, who, found, hit, issued, before>>
      /\ running' \subseteq running /\ late \subseteq late'
  BY DEF A!Remove, A!seeking
<1>2. PICK to \in {"queue", "done"} : A!Go(r, to)
  BY DEF A!Remove
<1>3. CASE A!Is(r, {"patch"})
  <2>1. Judged(r) /\ job[r] \in A!Job /\ A!Target(r) = job[r].target
    BY <1>1, <1>3 DEF BarInv, Judged, A!Target, A!Is
  <2>2. job[r].target \in issued /\ job[r].target \in Ids
    BY <1>1, <1>3, <2>1, Kinds DEF Judged, Unaimed, A!Is
  <2>3. /\ running' = running \ {job[r].target}
        /\ \A q \in Askers : who[q] = job[r].target /\ place[q] = "start" => job[r].target \in late'
        /\ \/ barred' = barred
           \/ barred' = barred \union {job[r].target} /\ ~ A!Active(account[job[r].target])
    BY <1>3, <2>1 DEF A!Remove, A!Is
  <2>4. QED
    BY <1>1, <1>2, <2>2, <2>3, BarOne
<1>4. CASE ~ A!Is(r, {"patch"})
  <2>1. barred' = barred
    BY <1>4 DEF A!Remove
  <2>2. QED
    BY <1>1, <1>2, <2>1, BarOne
<1>5. QED
  BY <1>3, <1>4

LEMMA RegisterKeeps ==
    ASSUME BarInv, NEW r \in Askers, A!Register(r)
    PROVE  BarInv'
<1>1. /\ place[r] = "register" /\ UNCHANGED <<account, job, who, found, hit, issued, before, running>>
      /\ late \subseteq late'
  BY DEF A!Register, A!seeking
<1>2. Judged(r) /\ job[r] \in A!Job
  BY <1>1 DEF BarInv, Judged
<1>3. PICK to \in {"open", "read", "done"} :
          /\ A!Go(r, to) /\ (to = "open" => ~ A!Is(r, {"login"}))
          /\ to = "read" => A!Is(r, TargetKinds)
  BY DEF A!Register, A!Answer, A!Renamed, A!Is, TargetKinds
<1>4. CASE A!Is(r, {"delete"}) /\ account[job[r].target] = None
  <2>1. job[r].target \in issued /\ job[r].target \in Ids
    BY <1>1, <1>2, <1>4, Kinds DEF Judged, Unaimed, A!Is
  <2>2. /\ barred' = barred \union {job[r].target}
        /\ A!PastTheDoor(job[r].target) => job[r].target \in late'
    BY <1>4 DEF A!Register
  <2>3. ~ A!Active(account[job[r].target])
    BY <1>4 DEF A!Active
  <2>4. QED
    BY <1>1, <1>3, <2>1, <2>2, <2>3, BarOne DEF A!PastTheDoor
<1>5. CASE ~ (A!Is(r, {"delete"}) /\ account[job[r].target] = None)
  <2>1. barred' = barred
    BY <1>5 DEF A!Register
  <2>2. QED
    BY <1>1, <1>3, <2>1, BarOne
<1>6. QED
  BY <1>4, <1>5

LEMMA NextAskerAsks == NextAsker \subseteq Askers
<1>1. PICK idle : idle = {q \in Askers : place[q] = "idle"}
  OBVIOUS
<1>2. NextAsker = IF idle = {} THEN {} ELSE {CHOOSE q \in idle : TRUE}
  BY <1>1 DEF NextAsker
<1>3. idle # {} => (CHOOSE q \in idle : TRUE) \in idle
  OBVIOUS
<1>4. QED
  BY <1>1, <1>2, <1>3

LEMMA AccountsKeep == BarInv /\ AccountsNext => BarInv'
<1> SUFFICES ASSUME BarInv, AccountsNext PROVE BarInv'
  OBVIOUS
<1>1. ASSUME NEW r \in Askers, A!Step(r) PROVE BarInv'
  BY <1>1, AtTheDoor, StayThemselves, LookedUp, VerifyKeeps, VisitKeeps, InsertKeeps, WriteBackKeeps,
     EraseKeeps, RemoveKeeps, RegisterKeeps DEF A!Step
<1>2. ASSUME NEW r \in NextAsker, NEW j \in IF part = "accounts" THEN Asked ELSE AskedFirst,
             A!Arrive(r, j)
      PROVE  BarInv'
  <2>1. r \in Askers
    BY NextAskerAsks
  <2>2. j \in A!Job
    BY Assumptions DEF Assumptions
  <2>3. QED
    BY <1>2, <2>1, <2>2, ArriveKeeps
<1>3. ASSUME NEW i \in Ids, A!GenerationEnds(i) PROVE BarInv'
  BY <1>3, GenerationEndsKeeps
<1>4. QED
  BY <1>1, <1>2, <1>3 DEF AccountsNext

LEMMA AccountsStart ==
    ASSUME Init
    PROVE  BarInv
<1>1. A!Resting
  BY DEF Init, Claimed, A!Init
<1>2. /\ account = [i \in Ids |-> account[i]]
      /\ \A i \in Ids : account[i] # None => i \in issued
  <2>1. CASE A!Init
    BY <2>1 DEF A!Init
  <2>2. CASE Claimed
    <3>1. PICK x \in Instances : /\ account = x.account
             /\ issued = {i \in Ids : x.account[i] # None} \union {t \in Cookies : x.session[t] # None}
      BY <2>2 DEF Claimed
    <3>2. x.account \in [Ids -> A!Maybe(A!Account, None)]
      BY Assumptions DEF Assumptions
    <3>3. QED
      BY <3>1, <3>2
  <2>3. QED
    BY <2>1, <2>2 DEF Init
<1>3. /\ barred = {} /\ late = {} /\ \A r \in Askers : place[r] = "idle" /\ who[r] = None /\ before[r] = {}
      /\ place = [r \in Askers |-> place[r]] /\ job = [r \in Askers |-> job[r]]
      /\ who = [r \in Askers |-> who[r]] /\ before = [r \in Askers |-> before[r]]
      /\ found = [r \in Askers |-> found[r]] /\ hit = [r \in Askers |-> hit[r]]
  BY <1>1 DEF A!Resting
<1>4. AccountTypes /\ BarredAreInactive
  BY <1>2, <1>3 DEF AccountTypes, BarredAreInactive
<1>5. None \notin Ids
  BY Assumptions DEF Assumptions, A!NoneAssumption
<1>6. ASSUME NEW r \in Askers PROVE Judged(r)
  BY <1>3, <1>5 DEF Judged, A!Served, Unaimed, AtDoor, Changing
<1>7. QED
  BY <1>4, <1>6 DEF BarInv

-----------------------------------------------------------------------------
(* Claiming an instance.  Who registers holds the registry lock from the   *)
(* first look at the files to the last write, and he who claims has seen   *)
(* none; somebody signing in is never in that line.                        *)
Locked == {"seek", "fetch", "scan", "rewrite", "refetch", "decide", "write", "rescan", "register"}
Unwritten == Locked \ {"rescan", "register"}
SigningIn == {"resolve", "lookup", "evict", "start", "seek", "fetch", "scan", "rewrite", "refetch",
              "verify", "swap", "open", "done", "refused"}
Registering == Locked \union {"start", "queue", "inside", "open", "done", "refused"}

Claiming(r) ==
    /\ place[r] # "idle" => job[r].kind \in {"claim", "signup", "login"}
    /\ place[r] # "idle" /\ A!Is(r, {"login"}) => place[r] \in SigningIn
    /\ place[r] # "idle" /\ ~ A!Is(r, {"login"}) =>
           /\ place[r] \in Registering
           /\ place[r] \in Locked => A!Inside(r)
    /\ place[r] \in Unwritten /\ A!Is(r, {"claim"}) => \A i \in Ids : account[i] = None

Administers(i) == account[i] # None /\ account[i].role = "admin"

InLine ==
    /\ turn \in Seq(Askers)
    /\ \A k \in DOMAIN turn : place[turn[k]] # "idle" /\ ~ A!Is(turn[k], {"login"})

ClaimTypes ==
    /\ account = [i \in Ids |-> account[i]]
    /\ place = [r \in Askers |-> place[r]] /\ job = [r \in Askers |-> job[r]]

ClaimInv ==
    part = "unclaimed" =>
        /\ ClaimTypes
        /\ InLine
        /\ \A r \in Askers : Claiming(r)
        /\ \A i, j \in Ids : Administers(i) /\ Administers(j) => i = j

(* A step under which the line stays as it is and no account changes.      *)
LEMMA InPlace ==
    ASSUME ClaimInv, part = "unclaimed", part' = part, NEW r \in Askers, NEW to, A!Go(r, to),
           UNCHANGED <<account, turn, job>>, place[r] # "idle", to # "idle",
           A!Is(r, {"login"}) => to \in SigningIn,
           ~ A!Is(r, {"login"}) => to \in Registering /\ (to \in Locked => A!Inside(r)),
           to \in Unwritten /\ A!Is(r, {"claim"}) => \A i \in Ids : account[i] = None
    PROVE  ClaimInv'
<1>1. ClaimTypes /\ InLine /\ \A q \in Askers : Claiming(q)
  BY DEF ClaimInv
<1>2. /\ place'[r] = to /\ \A q \in Askers \ {r} : place'[q] = place[q]
      /\ place' = [q \in Askers |-> place'[q]]
  BY <1>1 DEF A!Go, ClaimTypes
<1>3. ClaimTypes'
  BY <1>1, <1>2 DEF ClaimTypes
<1>4. InLine'
  <2>1. \A k \in DOMAIN turn : turn[k] \in Askers
    BY <1>1 DEF InLine
  <2>2. QED
    BY <1>1, <1>2, <2>1 DEF InLine, A!Is
<1>5. ASSUME NEW q \in Askers PROVE Claiming(q)'
  <2>1. CASE q = r
    BY <1>1, <1>2, <2>1 DEF Claiming, A!Is, A!Inside
  <2>2. CASE q # r
    BY <1>1, <1>2, <2>2 DEF Claiming, A!Is, A!Inside
  <2>3. QED
    BY <2>1, <2>2
<1>6. \A i, j \in Ids : Administers(i)' /\ Administers(j)' => i = j
  BY DEF ClaimInv, Administers
<1>7. QED
  BY <1>3, <1>4, <1>5, <1>6 DEF ClaimInv

(* Whoever holds the lock keeps everybody else out of the locked places.   *)
LEMMA HolderIsAlone ==
    ASSUME ClaimInv, part = "unclaimed", NEW r \in Askers, A!Inside(r),
           NEW q \in Askers, q # r, place[q] # "idle", ~ A!Is(q, {"login"})
    PROVE  place[q] \notin Locked
BY DEF ClaimInv, Claiming, A!Inside

(* Answering leaves the line; nobody else was inside.                      *)
LEMMA AnswerKeepsClaims ==
    ASSUME ClaimInv, part = "unclaimed", part' = part, NEW r \in Askers, NEW to \in {"open", "done", "refused"},
           A!Answer(r, to), UNCHANGED <<account, job>>, A!Inside(r)
    PROVE  ClaimInv'
<1>1. ClaimTypes /\ InLine /\ \A q \in Askers : Claiming(q)
  BY DEF ClaimInv
<1>2. /\ place'[r] = to /\ \A q \in Askers \ {r} : place'[q] = place[q]
      /\ place' = [q \in Askers |-> place'[q]]
  BY <1>1 DEF A!Answer, A!Go, ClaimTypes
<1>3. turn # << >> /\ turn' = Tail(turn) /\ Head(turn) = r
  BY DEF A!Answer, A!Inside
<1>4. /\ turn' \in Seq(Askers) /\ DOMAIN turn = 1..Len(turn) /\ DOMAIN turn' = 1..Len(turn')
      /\ Len(turn') = Len(turn) - 1 /\ \A k \in DOMAIN turn' : turn'[k] = turn[k + 1]
      /\ Len(turn) \in Nat /\ 1 \in DOMAIN turn /\ turn[1] = r
  BY <1>1, <1>3, HeadTailProperties DEF InLine
<1>5. \A k \in DOMAIN turn' : k + 1 \in DOMAIN turn
  BY <1>4
<1>6. \A k \in DOMAIN turn : turn[k] \in Askers
  BY <1>1 DEF InLine
<1>7. InLine'
  BY <1>1, <1>2, <1>4, <1>5, <1>6 DEF InLine, A!Is
<1>8. place[r] # "idle" /\ ~ A!Is(r, {"login"})
  BY <1>1, <1>4 DEF InLine
<1>9. ASSUME NEW q \in Askers PROVE Claiming(q)'
  <2>1. CASE q = r
    BY <1>1, <1>2, <1>8, <2>1 DEF Claiming, A!Is, Registering, SigningIn, Locked, Unwritten
  <2>2. CASE q # r
    <3>1. place[q] # "idle" /\ ~ A!Is(q, {"login"}) => place[q] \notin Locked
      BY <2>2, HolderIsAlone
    <3>2. QED
      BY <1>1, <1>2, <2>2, <3>1 DEF Claiming, A!Is
  <2>3. QED
    BY <2>1, <2>2
<1>10. \A i, j \in Ids : Administers(i)' /\ Administers(j)' => i = j
  BY DEF ClaimInv, Administers
<1>11. ClaimTypes'
  BY <1>1, <1>2 DEF ClaimTypes
<1>12. QED
  BY <1>7, <1>9, <1>10, <1>11 DEF ClaimInv

(* Joining the line does not put anybody out of it.                        *)
LEMMA QueueKeepsClaims ==
    ASSUME ClaimInv, part = "unclaimed", part' = part, NEW r \in Askers, A!Queue(r)
    PROVE  ClaimInv'
<1>1. ClaimTypes /\ InLine /\ \A q \in Askers : Claiming(q)
  BY DEF ClaimInv
<1>2. /\ place[r] = "queue" /\ turn' = Append(turn, r) /\ A!Go(r, "inside") /\ UNCHANGED <<account, job>>
  BY DEF A!Queue, A!disk
<1>3. /\ place'[r] = "inside" /\ \A q \in Askers \ {r} : place'[q] = place[q]
      /\ place' = [q \in Askers |-> place'[q]]
  BY <1>1, <1>2 DEF A!Go, ClaimTypes
<1>4. ~ A!Is(r, {"login"})
  BY <1>1, <1>2 DEF Claiming, SigningIn
<1>5. turn \in Seq(Askers)
  BY <1>1 DEF InLine
<1>6. /\ turn' \in Seq(Askers) /\ Len(turn') = Len(turn) + 1 /\ Len(turn) \in Nat
      /\ DOMAIN turn' = 1..(Len(turn) + 1) /\ DOMAIN turn = 1..Len(turn)
      /\ \A k \in DOMAIN turn : turn'[k] = turn[k]
      /\ turn'[Len(turn) + 1] = r
  BY <1>2, <1>5, AppendProperties
<1>7. turn # << >> => turn' # << >> /\ Head(turn') = Head(turn)
  BY <1>2, <1>5, <1>6
<1>8. InLine'
  <2>1. ASSUME NEW k \in DOMAIN turn' PROVE place'[turn'[k]] # "idle" /\ ~ A!Is(turn[k], {"login"})'
    <3>1. CASE k = Len(turn) + 1
      BY <1>2, <1>3, <1>4, <1>6, <3>1 DEF A!Is
    <3>2. CASE k # Len(turn) + 1
      <4>1. k \in DOMAIN turn
        BY <1>6, <3>2
      <4>2. turn[k] \in Askers /\ turn'[k] = turn[k] /\ place[turn[k]] # "idle" /\ ~ A!Is(turn[k], {"login"})
        BY <1>1, <1>6, <4>1 DEF InLine
      <4>3. QED
        BY <1>2, <1>3, <4>2 DEF A!Is
    <3>3. QED
      BY <3>1, <3>2
  <2>2. QED
    BY <1>6, <2>1 DEF InLine
<1>9. ASSUME NEW q \in Askers PROVE Claiming(q)'
  <2>1. CASE q = r
    BY <1>1, <1>2, <1>3, <1>4, <2>1 DEF Claiming, A!Is, Registering, SigningIn, Locked, Unwritten
  <2>2. CASE q # r
    BY <1>1, <1>2, <1>3, <1>7, <2>2 DEF Claiming, A!Is, A!Inside
  <2>3. QED
    BY <2>1, <2>2
<1>10. \A i, j \in Ids : Administers(i)' /\ Administers(j)' => i = j
  BY <1>2 DEF ClaimInv, Administers
<1>11. ClaimTypes'
  BY <1>1, <1>2, <1>3 DEF ClaimTypes
<1>12. QED
  BY <1>8, <1>9, <1>10, <1>11 DEF ClaimInv

(* Whose step it can be, by where the request is.                          *)
LEMMA WhoseStep ==
    ASSUME ClaimInv, part = "unclaimed", NEW r \in Askers, place[r] # "idle"
    PROVE  /\ place[r] \in SigningIn \union Registering
           /\ A!Is(r, {"claim", "signup", "login"})
           /\ place[r] \in {"resolve", "lookup", "evict", "verify", "swap"} => A!Is(r, {"login"})
           /\ place[r] \in {"queue", "inside", "decide", "write", "rescan", "register"} => ~ A!Is(r, {"login"})
           /\ A!Is(r, {"login"}) => ~ A!Inside(r)
           /\ ~ A!Is(r, {"login"}) /\ place[r] \in Locked => A!Inside(r)
<1>1. Claiming(r) /\ InLine
  BY DEF ClaimInv
<1>2. A!Inside(r) => 1 \in DOMAIN turn /\ turn[1] = r
  BY <1>1 DEF InLine, A!Inside
<1>3. A!Is(r, {"login"}) => ~ A!Inside(r)
  BY <1>1, <1>2 DEF InLine
<1>4. QED
  BY <1>1, <1>3 DEF Claiming, SigningIn, Registering, Locked, A!Is

LEMMA OutsideKeepsClaims ==
    ASSUME ClaimInv, part = "unclaimed", part' = part, NEW r \in Askers,
           \/ A!Resolve(r) \/ A!Lookup(r) \/ A!Evict(r) \/ A!Begin(r) \/ A!Verify(r) \/ A!Swap(r)
           \/ \E t \in Cookies : A!Open(r, t)
    PROVE  ClaimInv'
<1> USE DEF A!history, A!seeking, A!disk
<1>1. /\ place[r] # "idle" /\ UNCHANGED <<account, turn, job>>
  BY DEF A!Resolve, A!Lookup, A!Evict, A!Begin, A!Verify, A!Swap, A!Open
<1>2. /\ A!Is(r, {"claim", "signup", "login"})
      /\ place[r] \in {"resolve", "lookup", "evict", "verify", "swap"} => A!Is(r, {"login"})
  BY <1>1, WhoseStep
<1>3. CASE A!Resolve(r) \/ A!Lookup(r) \/ A!Evict(r) \/ A!Verify(r) \/ A!Swap(r)
  <2>1. PICK to \in {"start", "refused", "lookup", "evict", "open", "swap"} : A!Go(r, to) /\ A!Is(r, {"login"})
    BY <1>2, <1>3 DEF A!Resolve, A!Lookup, A!Evict, A!Verify, A!Swap, A!Anonymous, A!Is, A!AdminKinds
  <2>2. QED
    BY <1>1, <2>1, InPlace DEF SigningIn, Unwritten, Locked
<1>4. CASE A!Begin(r)
  <2>1. \/ A!Is(r, {"login"}) /\ A!Go(r, "seek")
        \/ ~ A!Is(r, {"login"}) /\ A!Go(r, "queue")
    BY <1>2, <1>4 DEF A!Begin, A!Is
  <2>2. CASE A!Is(r, {"login"}) /\ A!Go(r, "seek")
    BY <1>1, <2>2, InPlace DEF SigningIn, Unwritten, Locked, A!Is
  <2>3. CASE ~ A!Is(r, {"login"}) /\ A!Go(r, "queue")
    BY <1>1, <2>3, InPlace DEF Registering, Unwritten, Locked
  <2>4. QED
    BY <2>1, <2>2, <2>3
<1>5. CASE \E t \in Cookies : A!Open(r, t)
  <2>1. A!Go(r, "done")
    BY <1>5 DEF A!Open
  <2>2. QED
    BY <1>1, <2>1, InPlace DEF SigningIn, Registering, Unwritten, Locked
<1>6. QED
  BY <1>3, <1>4, <1>5

(* Looking a name up, in the lock or out of it.                            *)
LEMMA LookingUpKeepsClaims ==
    ASSUME ClaimInv, part = "unclaimed", part' = part, NEW r \in Askers,
           \/ A!Seek(r) \/ A!Fetch(r) \/ A!Scan(r) \/ A!Rewrite(r) \/ A!Refetch(r)
    PROVE  ClaimInv'
<1> USE DEF A!history, A!seeking, A!disk
<1>1. /\ place[r] \in {"seek", "fetch", "scan", "rewrite", "refetch"} /\ UNCHANGED <<account, turn, job>>
  BY DEF A!Seek, A!Fetch, A!Scan, A!Rewrite, A!Refetch
<1>2. /\ A!Is(r, {"login"}) => ~ A!Inside(r)
      /\ ~ A!Is(r, {"login"}) => A!Inside(r)
  BY <1>1, WhoseStep DEF Locked
<1>3. PICK to \in {"scan", "fetch", "rewrite", "refetch", "verify", "decide"} :
          A!Go(r, to) /\ (to = "verify" => ~ A!Inside(r)) /\ (to = "decide" => A!Inside(r))
  BY DEF A!Seek, A!Fetch, A!Scan, A!Rewrite, A!Refetch, A!Then
<1>4. place[r] \in Unwritten /\ A!Is(r, {"claim"}) => \A i \in Ids : account[i] = None
  BY DEF ClaimInv, Claiming
<1>5. QED
  BY <1>1, <1>2, <1>3, <1>4, InPlace DEF SigningIn, Registering, Unwritten, Locked

(* Under the lock: claiming goes on only where there is no account.        *)
LEMMA InsideKeepsClaims ==
    ASSUME ClaimInv, part = "unclaimed", part' = part, NEW r \in Askers,
           A!Enter(r) \/ A!Decide(r) \/ A!Rescan(r) \/ A!Register(r)
    PROVE  ClaimInv'
<1> USE DEF A!history, A!seeking, A!disk
<1>1. /\ place[r] \in {"inside", "decide", "rescan", "register"} /\ UNCHANGED <<account, job>>
  BY DEF A!Enter, A!Decide, A!Rescan, A!Register
<1>2. A!Is(r, {"claim", "signup"}) /\ ~ A!Is(r, {"login"}) /\ Claiming(r)
  BY <1>1, WhoseStep DEF A!Is, ClaimInv
<1>3. A!Inside(r)
  BY <1>1, <1>2, WhoseStep DEF A!Enter, A!Decide, A!Rescan, A!Register, Locked
<1>4. \/ /\ UNCHANGED turn
         /\ \E to \in {"seek", "write", "register"} :
                /\ A!Go(r, to)
                /\ to # "register" /\ A!Is(r, {"claim"}) => \A i \in Ids : account[i] = None
      \/ \E to \in {"open", "refused"} : A!Answer(r, to)
  <2>1. CASE A!Enter(r)
    BY <2>1, <1>2 DEF A!Enter, A!EnterToClaim, A!EnterToCreate, A!EnterToRename, A!EnterToDelete, A!Is
  <2>2. CASE A!Decide(r)
    BY <2>2, <1>2 DEF A!Decide, Claiming, Unwritten, Locked
  <2>3. CASE A!Rescan(r)
    BY <2>3 DEF A!Rescan
  <2>4. CASE A!Register(r)
    BY <2>4, <1>2 DEF A!Register, A!Is
  <2>5. QED
    BY <2>1, <2>2, <2>3, <2>4
<1>5. CASE \E to \in {"open", "refused"} : A!Answer(r, to)
  BY <1>1, <1>3, <1>5, AnswerKeepsClaims
<1>6. CASE UNCHANGED turn /\ ~ \E to \in {"open", "refused"} : A!Answer(r, to)
  <2>1. PICK to \in {"seek", "write", "register"} :
            /\ A!Go(r, to)
            /\ to # "register" /\ A!Is(r, {"claim"}) => \A i \in Ids : account[i] = None
    BY <1>4, <1>6
  <2>2. QED
    BY <1>1, <1>2, <1>3, <1>6, <2>1, InPlace DEF Registering, Unwritten, Locked
<1>7. QED
  BY <1>4, <1>5, <1>6

(* Whoever claims writes the first record there is; whoever signs up       *)
(* writes no administrator's.                                              *)
LEMMA InsertKeepsClaims ==
    ASSUME ClaimInv, part = "unclaimed", part' = part, NEW r \in Askers, NEW i \in Ids, A!Insert(r, i)
    PROVE  ClaimInv'
<1>1. ClaimTypes /\ InLine /\ \A q \in Askers : Claiming(q)
  BY DEF ClaimInv
<1>2. /\ place[r] = "write" /\ A!Go(r, "rescan") /\ UNCHANGED <<turn, job>>
      /\ account' = [account EXCEPT ![i] =
             [name |-> job[r].name, status |-> "active", pw |-> job[r].pw,
              role |-> IF A!Is(r, {"claim"}) THEN "admin"
                       ELSE IF A!Is(r, {"adminCreate"}) THEN job[r].role ELSE "user"]]
  BY DEF A!Insert
<1>3. /\ place'[r] = "rescan" /\ \A q \in Askers \ {r} : place'[q] = place[q]
      /\ place' = [q \in Askers |-> place'[q]]
  BY <1>1, <1>2 DEF A!Go, ClaimTypes
<1>4. A!Is(r, {"claim", "signup"}) /\ ~ A!Is(r, {"login"}) /\ A!Inside(r)
  BY <1>2, WhoseStep DEF A!Is, Locked
<1>5. /\ \A k \in Ids \ {i} : account'[k] = account[k]
      /\ ~ A!Is(r, {"claim"}) => account'[i].role = "user"
      /\ account' = [k \in Ids |-> account'[k]]
  BY <1>1, <1>2, <1>4 DEF ClaimTypes, A!Is
<1>6. A!Is(r, {"claim"}) => \A k \in Ids : account[k] = None
  BY <1>1, <1>2 DEF Claiming, Unwritten, Locked
<1>7. ClaimTypes'
  BY <1>1, <1>2, <1>3, <1>5 DEF ClaimTypes
<1>8. InLine'
  <2>1. \A k \in DOMAIN turn : turn[k] \in Askers
    BY <1>1 DEF InLine
  <2>2. QED
    BY <1>1, <1>2, <1>3, <2>1 DEF InLine, A!Is
<1>9. ASSUME NEW q \in Askers PROVE Claiming(q)'
  <2>1. CASE q = r
    BY <1>1, <1>2, <1>3, <1>4, <2>1 DEF Claiming, A!Is, A!Inside, Registering, Unwritten, Locked
  <2>2. CASE q # r
    <3>1. place[q] # "idle" /\ ~ A!Is(q, {"login"}) => place[q] \notin Locked
      BY <1>4, <2>2, HolderIsAlone
    <3>2. place'[q] = place[q] /\ Claiming(q)
      BY <1>1, <1>3, <2>2
    <3>3. A!Is(q, {"claim"}) => ~ A!Is(q, {"login"})
      BY DEF A!Is
    <3>4. place[q] \notin Unwritten \/ ~ A!Is(q, {"claim"})
      BY <3>1, <3>3 DEF Unwritten, Locked
    <3>5. QED
      BY <1>2, <3>1, <3>2, <3>4 DEF Claiming, A!Is, A!Inside
  <2>3. QED
    BY <2>1, <2>2
<1>10. \A j, k \in Ids : Administers(j)' /\ Administers(k)' => j = k
  <2>1. CASE A!Is(r, {"claim"})
    BY <1>5, <1>6, <2>1 DEF Administers
  <2>2. CASE ~ A!Is(r, {"claim"})
    <3>1. \A k \in Ids : Administers(k)' => Administers(k)
      BY <1>5, <2>2 DEF Administers
    <3>2. QED
      BY <3>1 DEF ClaimInv
  <2>3. QED
    BY <2>1, <2>2
<1>11. QED
  BY <1>7, <1>8, <1>9, <1>10 DEF ClaimInv

LEMMA ArriveKeepsClaims ==
    ASSUME ClaimInv, part = "unclaimed", part' = part, NEW r \in Askers, NEW j \in AskedFirst, A!Arrive(r, j)
    PROVE  ClaimInv'
<1>1. ClaimTypes /\ InLine /\ \A q \in Askers : Claiming(q)
  BY DEF ClaimInv
<1>2. /\ place[r] = "idle" /\ job' = [job EXCEPT ![r] = j] /\ UNCHANGED <<account, turn>>
  BY DEF A!Arrive, A!disk
<1>3. j.kind \in {"claim", "signup", "login"}
  BY Assumptions DEF Assumptions
<1>4. PICK to \in {"start", "resolve"} : A!Go(r, to) /\ (to = "resolve" => j.kind \notin {"claim", "signup"})
  BY DEF A!Arrive
<1>5. /\ place'[r] = to /\ job'[r] = j
      /\ \A q \in Askers \ {r} : place'[q] = place[q] /\ job'[q] = job[q]
      /\ place' = [q \in Askers |-> place'[q]] /\ job' = [q \in Askers |-> job'[q]]
  BY <1>1, <1>2, <1>4 DEF A!Go, ClaimTypes
<1>6. InLine'
  <2>1. \A k \in DOMAIN turn : turn[k] \in Askers /\ turn[k] # r
    BY <1>1, <1>2 DEF InLine
  <2>2. QED
    BY <1>1, <1>2, <1>5, <2>1 DEF InLine, A!Is
<1>7. ASSUME NEW q \in Askers PROVE Claiming(q)'
  <2>1. CASE q = r
    BY <1>3, <1>4, <1>5, <2>1 DEF Claiming, A!Is, SigningIn, Registering, Unwritten, Locked
  <2>2. CASE q # r
    BY <1>1, <1>2, <1>5, <2>2 DEF Claiming, A!Is, A!Inside
  <2>3. QED
    BY <2>1, <2>2
<1>8. \A i, k \in Ids : Administers(i)' /\ Administers(k)' => i = k
  BY <1>2 DEF ClaimInv, Administers
<1>9. ClaimTypes'
  BY <1>1, <1>2, <1>5 DEF ClaimTypes
<1>10. QED
  BY <1>6, <1>7, <1>8, <1>9 DEF ClaimInv

LEMMA ClaimsKeep == ClaimInv /\ AccountsNext /\ part' = part => ClaimInv'
<1> SUFFICES ASSUME ClaimInv, AccountsNext, part' = part, part = "unclaimed" PROVE ClaimInv'
  BY DEF ClaimInv
<1>1. ASSUME NEW r \in Askers, A!Step(r) PROVE ClaimInv'
  <2>1. place[r] \notin {"admin", "erase", "exists", "check", "read", "unlocked", "list", "remove"}
    BY WhoseStep DEF SigningIn, Registering, Locked
  <2>2. place[r] # "idle" => A!Is(r, {"claim", "signup", "login"})
    BY WhoseStep
  <2>3. ~ A!RequireAdmin(r) /\ ~ A!Erase(r) /\ ~ A!Exists(r) /\ ~ A!AssertNotLastAdmin(r)
    BY <2>1 DEF A!RequireAdmin, A!Erase, A!Exists, A!AssertNotLastAdmin
  <2>4. ~ A!UpdateRead(r) /\ ~ A!UpdateWrite(r) /\ ~ A!List(r) /\ ~ A!Remove(r)
    BY <2>1 DEF A!UpdateRead, A!UpdateWrite, A!List, A!Remove
  <2>5. ~ A!Visit(r) /\ ~ A!Rename(r)
    BY <2>2 DEF A!Visit, A!Rename, A!Is
  <2>6. QED
    BY <1>1, <2>3, <2>4, <2>5, OutsideKeepsClaims, LookingUpKeepsClaims, InsideKeepsClaims,
       InsertKeepsClaims, QueueKeepsClaims DEF A!Step
<1>2. ASSUME NEW r \in NextAsker, NEW j \in AskedFirst, A!Arrive(r, j) PROVE ClaimInv'
  BY <1>2, NextAskerAsks, ArriveKeepsClaims
<1>3. ASSUME NEW i \in Ids, A!GenerationEnds(i) PROVE ClaimInv'
  BY <1>3 DEF A!GenerationEnds, ClaimInv, ClaimTypes, InLine, Claiming, Administers, A!Is, A!Inside
<1>4. QED
  BY <1>1, <1>2, <1>3 DEF AccountsNext

LEMMA ClaimsStart == Init => ClaimInv
<1> SUFFICES ASSUME Init, part = "unclaimed" PROVE ClaimInv
  BY DEF ClaimInv
<1>1. A!Init
  BY DEF Init
<1>2. /\ account = [i \in Ids |-> None] /\ turn = << >>
      /\ place = [r \in Askers |-> "idle"] /\ job = [r \in Askers |-> None]
  BY <1>1 DEF A!Init, A!Resting
<1>3. ClaimTypes /\ InLine
  BY <1>2 DEF ClaimTypes, InLine
<1>4. (\A r \in Askers : Claiming(r)) /\ \A i \in Ids : ~ Administers(i)
  BY <1>2 DEF Claiming, Administers, Unwritten, Locked
<1>5. QED
  BY <1>3, <1>4 DEF ClaimInv

(* For any accounts, requests and instance: whoever was barred when a      *)
(* request arrived and has been since is neither served nor signed in by   *)
(* it and keeps nothing running but what was past the door; and an         *)
(* instance nobody had claimed gets one administrator (users.ts, auth.ts). *)
THEOREM BarredStayOut == Spec => []BarredAreOut
<1>1. Init => BarInv /\ ClaimInv
  BY AccountsStart, ClaimsStart
<1>2. BarInv /\ ClaimInv /\ [Next]_<<part, sessionsVars, accountVars, shellVars>> => BarInv' /\ ClaimInv'
  <2> SUFFICES ASSUME BarInv, ClaimInv, [Next]_<<part, sessionsVars, accountVars, shellVars>>
               PROVE  BarInv' /\ ClaimInv'
    OBVIOUS
  <2>1. CASE UNCHANGED <<part, accountVars>>
    <3>1. BarInv'
      BY <2>1 DEF accountVars, BarInv, AccountTypes, BarredAreInactive, Judged, A!Is, A!Served, A!Active
    <3>2. ClaimInv'
      BY <2>1 DEF accountVars, ClaimInv, ClaimTypes, InLine, Claiming, Administers, A!Is, A!Inside
    <3>3. QED
      BY <3>1, <3>2
  <2>2. CASE AccountsNext /\ UNCHANGED part
    BY <2>2, AccountsKeep, ClaimsKeep
  <2>3. QED
    BY <2>1, <2>2 DEF Next
<1>3. BarInv /\ ClaimInv => BarredAreOut
  <2> SUFFICES ASSUME BarInv, ClaimInv PROVE BarredAreOut
    OBVIOUS
  <2>1. \A r \in Askers : /\ A!Served(r) => who[r] \notin before[r]
                          /\ place[r] = "open" /\ A!Is(r, {"login"}) => found[r] \notin before[r]
    BY DEF BarInv, Judged
  <2>2. A!BarredAreOut
    BY <2>1 DEF A!BarredAreOut, BarInv, BarredAreInactive
  <2>3. QED
    BY <2>2 DEF BarredAreOut, ClaimInv, Administers
<1>4. QED
  BY <1>1, <1>2, <1>3, PTL DEF Spec

=============================================================================
