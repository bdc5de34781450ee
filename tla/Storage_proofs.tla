---------------------------- MODULE Storage_proofs ----------------------------
(***************************************************************************)
(* What an account keeps beside its conversations: for any number of       *)
(* writers of one file, deaths of the process, losses of power and sweeps  *)
(* a reader sees a whole version, and what was acknowledged stays; and for *)
(* any number of requests a deleted conversation leaves no pin, what a     *)
(* message refers to is there as long as the message is, and a memory card *)
(* does once what it asks for.                                             *)
(***************************************************************************)
EXTENDS MCStorage, FiniteSetTheorems, SequenceTheorems, TLAPS

Phases == {"idle", "write", "sync", "rename", "barrier", "done", "failed", "lost"}

TypeOK ==
    /\ file \in Writers \union {First}
    /\ maybe \subseteq Writers \union {First}
    /\ synced \subseteq Writers
    /\ pc \in [Writers -> Phases]
    /\ renamed \in Seq(Writers)

(* Nobody renames what is not durable, so a version that has the name, or  *)
(* may get it back, is.                                                    *)
SyncedFirst ==
    /\ \A w \in Writers : pc[w] \in {"rename", "barrier"} => w \in synced
    /\ \A w \in Writers : w = file \/ w \in maybe => w \in synced

(* v is the version that got the name i-th, or one that got it later.      *)
Since(i, v) == \E j \in i .. Len(renamed) : v = renamed[j]

(* Up to the barrier of a writer the loss of power may bring back a file   *)
(* from before it; after that, nothing can.                                *)
Reached ==
    \A i \in DOMAIN renamed :
        /\ pc[renamed[i]] \in {"barrier", "done"} => Since(i, file)
        /\ pc[renamed[i]] = "done" => \A v \in maybe : Since(i, v)

(* What has not been renamed is nowhere to be seen.                        *)
Unseen ==
    \A w \in Writers :
        pc[w] \in {"idle", "write", "sync", "rename", "failed"} => w # file /\ w \notin maybe

WInv == TypeOK /\ SyncedFirst /\ Reached /\ Unseen

-----------------------------------------------------------------------------
LEMMA Starts ==
  ASSUME FileInit
  PROVE  WInv
<1>1. DOMAIN renamed = {}
  BY DEF FileInit
<1>2. QED
  BY <1>1, WritersAssumption DEF WritersAssumption, FileInit, WInv, TypeOK, Phases, SyncedFirst, Reached, Unseen

LEMMA Moved ==
  ASSUME WInv, NEW w \in Writers, NEW next \in Phases, Go(w, next)
  PROVE  /\ pc' \in [Writers -> Phases]
         /\ pc'[w] = next /\ \A x \in Writers : x # w => pc'[x] = pc[x]
BY DEF WInv, TypeOK, Go

LEMMA RenamedIs ==
  ASSUME WInv
  PROVE  /\ DOMAIN renamed = 1..Len(renamed) /\ Len(renamed) \in Nat
         /\ \A i \in DOMAIN renamed : renamed[i] \in Writers
  BY LenProperties, ElementOfSeq DEF WInv, TypeOK

(* A writer that moves on without touching what can be seen.               *)
LEMMA Elsewhere ==
  ASSUME WInv, NEW w \in Writers, UNCHANGED <<file, maybe, renamed>>,
         NEW next \in Phases \ {"idle", "barrier", "done"}, Go(w, next),
         pc[w] \in {"idle", "write", "sync", "rename"},
         synced' = synced \/ synced' = synced \union {w},
         next = "rename" => w \in synced'
  PROVE  WInv'
<1>1. /\ pc' \in [Writers -> Phases]
      /\ pc'[w] = next /\ \A x \in Writers : x # w => pc'[x] = pc[x]
  BY Moved
<1>2. synced \subseteq synced' /\ synced' \subseteq Writers
  BY DEF WInv, TypeOK
<1>3. TypeOK'
  BY <1>1, <1>2 DEF WInv, TypeOK
<1>4. SyncedFirst'
  BY <1>1, <1>2 DEF WInv, SyncedFirst
<1>5. Reached'
  BY <1>1, RenamedIs DEF WInv, Reached, Since
<1>6. Unseen'
  BY <1>1 DEF WInv, Unseen
<1>7. QED
  BY <1>3, <1>4, <1>5, <1>6 DEF WInv

LEMMA RenameKeeps ==
  ASSUME WInv, NEW w \in Writers, Rename(w)
  PROVE  WInv'
<1>1. CASE temp[w] = None
  BY <1>1, Elsewhere DEF Rename, Phases
<1>2. CASE temp[w] # None
  <2>1. /\ pc[w] = "rename" /\ file' = w /\ maybe' = maybe \union {Durable(w)}
        /\ renamed' = Append(renamed, w) /\ Go(w, "barrier") /\ synced' = synced
    BY <1>2 DEF Rename
  <2>2. w \in synced /\ maybe' = maybe \union {w}
    BY <2>1 DEF WInv, SyncedFirst, Durable
  <2>3. /\ pc' \in [Writers -> Phases]
        /\ pc'[w] = "barrier" /\ \A x \in Writers : x # w => pc'[x] = pc[x]
    BY <2>1, Moved DEF Phases
  <2>4. /\ renamed' \in Seq(Writers) /\ Len(renamed') = Len(renamed) + 1
        /\ \A i \in 1..Len(renamed) : renamed'[i] = renamed[i]
        /\ renamed'[Len(renamed) + 1] = w
    BY <2>1, AppendProperties DEF WInv, TypeOK
  <2>5. /\ DOMAIN renamed' = 1..(Len(renamed) + 1)
        /\ DOMAIN renamed = 1..Len(renamed) /\ Len(renamed) \in Nat
        /\ \A i \in DOMAIN renamed : renamed[i] \in Writers
    BY <2>4, LenProperties, RenamedIs
  <2>6. TypeOK'
    BY <2>1, <2>2, <2>3, <2>4 DEF WInv, TypeOK
  <2>7. SyncedFirst'
    BY <2>1, <2>2, <2>3 DEF WInv, SyncedFirst
  <2>8. Unseen'
    BY <2>1, <2>2, <2>3 DEF WInv, Unseen
  <2>9. Reached'
    <3> SUFFICES ASSUME NEW i \in DOMAIN renamed'
                 PROVE  /\ pc'[renamed'[i]] \in {"barrier", "done"} => Since(i, file)'
                        /\ pc'[renamed'[i]] = "done" => \A v \in maybe' : Since(i, v)'
      BY DEF Reached, Since
    <3>1. Since(i, w)'
      BY <2>4, <2>5 DEF Since
    <3>2. ASSUME pc'[renamed'[i]] = "done", NEW v \in maybe PROVE Since(i, v)'
      <4>1. i \in DOMAIN renamed /\ renamed'[i] = renamed[i] /\ pc[renamed[i]] = "done"
        BY <2>3, <2>4, <2>5, <3>2
      <4>2. PICK j \in i .. Len(renamed) : v = renamed[j]
        BY <3>2, <4>1 DEF WInv, Reached, Since
      <4>3. j \in i .. Len(renamed') /\ v = renamed'[j]
        BY <2>4, <2>5, <4>1, <4>2
      <4>4. QED
        BY <4>3 DEF Since
    <3>3. Since(i, file)' <=> Since(i, w)'
      BY <2>1 DEF Since
    <3>4. QED
      BY <2>2, <3>1, <3>2, <3>3
  <2>10. QED
    BY <2>6, <2>7, <2>8, <2>9 DEF WInv
<1>3. QED
  BY <1>1, <1>2

(* What is true of the file is now true of all that can come back.         *)
LEMMA BarrierKeeps ==
  ASSUME WInv, NEW w \in Writers, Barrier(w)
  PROVE  WInv'
<1>1. /\ pc[w] = "barrier" /\ Go(w, "done") /\ UNCHANGED <<file, synced, renamed>>
      /\ maybe' = {file}
  BY DEF Barrier, Durable, WInv, SyncedFirst
<1>2. /\ pc' \in [Writers -> Phases]
      /\ pc'[w] = "done" /\ \A x \in Writers : x # w => pc'[x] = pc[x]
  BY <1>1, Moved DEF Phases
<1>3. TypeOK' /\ SyncedFirst' /\ Unseen'
  BY <1>1, <1>2 DEF WInv, TypeOK, SyncedFirst, Unseen
<1>4. \A i \in DOMAIN renamed : pc'[renamed[i]] \in {"barrier", "done"} => Since(i, file)
  BY <1>1, <1>2, RenamedIs DEF WInv, Reached
<1>5. Reached'
  BY <1>1, <1>4 DEF Reached, Since
<1>6. QED
  BY <1>3, <1>5 DEF WInv

LEMMA DownKeeps ==
  ASSUME WInv, Crash \/ PowerLoss
  PROVE  WInv'
<1>1. /\ file' \in maybe \union {file} /\ maybe' \subseteq maybe /\ UNCHANGED <<synced, renamed>>
      /\ pc' = [w \in Writers |-> IF pc[w] \in Ended THEN pc[w] ELSE "lost"]
  BY DEF Crash, PowerLoss
<1>2. /\ pc' \in [Writers -> Phases]
      /\ \A w \in Writers : pc'[w] = IF pc[w] \in Ended THEN pc[w] ELSE "lost"
  BY <1>1 DEF WInv, TypeOK, Phases, Ended
<1>3. TypeOK' /\ SyncedFirst' /\ Unseen'
  BY <1>1, <1>2 DEF WInv, TypeOK, SyncedFirst, Unseen, Ended
<1>4. ASSUME NEW i \in DOMAIN renamed, pc'[renamed[i]] \in {"barrier", "done"}
      PROVE  Since(i, file') /\ \A v \in maybe' : Since(i, v)
  <2>1. pc[renamed[i]] = "done"
    BY <1>2, <1>4, RenamedIs DEF Ended
  <2>2. QED
    BY <1>1, <2>1 DEF WInv, Reached
<1>5. Reached'
  BY <1>1, <1>4 DEF Reached, Since
<1>6. QED
  BY <1>3, <1>5 DEF WInv

LEMMA Kept ==
  ASSUME WInv, [FileNext]_fileVars
  PROVE  WInv'
<1>1. ASSUME NEW w \in Writers, Open(w) \/ WriteData(w) \/ WriteFails(w) \/ RenameFails(w)
      PROVE  WInv'
  BY <1>1, Elsewhere DEF Open, WriteData, WriteFails, RenameFails, Phases
<1>2. ASSUME NEW w \in Writers, Sync(w) PROVE WInv'
  BY <1>2, Elsewhere DEF Sync, Phases
<1>3. ASSUME NEW w \in Writers, Rename(w) PROVE WInv'
  BY <1>3, RenameKeeps
<1>4. ASSUME NEW w \in Writers, Barrier(w) PROVE WInv'
  BY <1>4, BarrierKeeps
<1>5. CASE Sweeping \/ UNCHANGED fileVars
  <2>1. UNCHANGED <<file, maybe, synced, pc, renamed>>
    BY <1>5 DEF Sweeping, StartScript, EndScript, SweepTemp, fileVars
  <2>2. QED
    BY <2>1 DEF WInv, TypeOK, SyncedFirst, Reached, Since, Unseen
<1>6. CASE Crash \/ PowerLoss
  BY <1>6, DownKeeps
<1>7. QED
  BY <1>1, <1>2, <1>3, <1>4, <1>5, <1>6 DEF FileNext, Writing, Failing

(* What the disk may hold, at every moment it may be looked at.            *)
THEOREM Durably == FileSpec => []WInv
<1>1. FileInit => WInv
  BY Starts
<1>2. WInv /\ [FileNext]_fileVars => WInv'
  BY Kept
<1>3. QED
  BY <1>1, <1>2, PTL DEF FileSpec

(* For any number of writers, deaths and losses of power a file is one     *)
(* whole version, what a caller was told is written stays, and what failed *)
(* has changed nothing (atomic.ts).                                        *)
THEOREM WholeAndLast == FileSpec => []WritesAreWholeAndLast
<1>1. WInv => WritesAreWholeAndLast
  <2> SUFFICES ASSUME WInv PROVE WritesAreWholeAndLast
    OBVIOUS
  <2>1. NeverTorn
    BY WritersAssumption DEF WInv, TypeOK, NeverTorn, WritersAssumption
  <2>2. AcknowledgedStays
    BY DEF WInv, Reached, Since, AcknowledgedStays
  <2>3. FailedChangesNothing
    BY DEF WInv, Unseen, FailedChangesNothing
  <2>4. QED
    BY <2>1, <2>2, <2>3 DEF WritesAreWholeAndLast
<1>2. QED
  BY <1>1, Durably, PTL

-----------------------------------------------------------------------------
(* Preferences.  Only the first of the line is about to write, what it has *)
(* read is not ahead of the file, and a deletion never puts a pin in.      *)

Forgetting(q) == E!Asks(q, "delete")

PrefTypes ==
    /\ turn \in Seq(PrefRequests)
    /\ phase \in [PrefRequests -> E!Phases]
    /\ wish \in [PrefRequests -> E!Job \union {None}]
    /\ target \in [PrefRequests -> Ids \union {None}]
    /\ visit \in [PrefRequests -> SUBSET Ids]
    /\ copy \in [PrefRequests -> E!Prefs \union {None}]
    /\ prefs \in E!Prefs
    /\ markdown \subseteq Ids /\ entry \subseteq Ids

WritesWhatItRead ==
    \A q \in PrefRequests : phase[q] = "write" =>
        /\ turn # << >> /\ Head(turn) = q
        /\ copy[q] \in E!Prefs /\ copy[q].pinned \subseteq prefs.pinned

Aims ==
    \A q \in PrefRequests :
        /\ E!Asks(q, "pin") => target[q] = wish[q].id /\ wish[q].id \in Pinnable
        /\ E!Asks(q, "delete") => target[q] = wish[q].id /\ wish[q].id \notin Pinnable
        /\ phase[q] \in {"next", "list"} => E!Asks(q, "clear")
        /\ E!Asks(q, "clear") => phase[q] \notin {"check", "read", "write", "forget"}
        /\ phase[q] = "entry" => target[q] \notin markdown

PInv ==
    /\ PrefTypes /\ WritesWhatItRead /\ Aims
    /\ E!DeletedIsForgotten /\ E!OnDiskIsListed

LEMMA PrefMoves ==
    ASSUME PrefTypes, NEW q \in PrefRequests, NEW to \in E!Phases, E!Go(q, to)
    PROVE  /\ phase' \in [PrefRequests -> E!Phases]
           /\ phase'[q] = to /\ \A r \in PrefRequests \ {q} : phase'[r] = phase[r]
BY DEF PrefTypes, E!Go

(* Whoever joins the line joins behind the first.                          *)
LEMMA Behind ==
    ASSUME PrefTypes, NEW q \in PrefRequests
    PROVE  /\ turn \in Seq(PrefRequests) /\ Append(turn, q) \in Seq(PrefRequests)
           /\ turn # << >> => Append(turn, q) # << >> /\ Head(Append(turn, q)) = Head(turn)
BY DEF PrefTypes

LEMMA PrefsArrive ==
    ASSUME PInv, NEW q \in PrefRequests, NEW j \in PrefJobs, E!Arrive(q, j)
    PROVE  PInv'
<1>1. /\ j \in E!Job /\ j # None
      /\ j.kind \in {"pin", "model", "delete", "clear"}
      /\ j.kind = "pin" => j.id \in Pinnable
      /\ j.kind = "delete" => j.id \in Ids \ Pinnable
  BY Assumptions DEF PrefJobs, E!Job, E!NoneAssumption, Assumptions
<1>2. PICK to \in {"check", "read", "unlink", "list"} :
          /\ E!Go(q, to)
          /\ j.kind = "clear" <=> to = "list"
  BY <1>1 DEF E!Arrive
<1>3. /\ phase' \in [PrefRequests -> E!Phases]
      /\ phase'[q] = to /\ \A r \in PrefRequests \ {q} : phase'[r] = phase[r]
  BY <1>2, PrefMoves DEF PInv, E!Phases
<1>4. /\ wish' \in [PrefRequests -> E!Job \union {None}]
      /\ wish'[q] = j /\ \A r \in PrefRequests \ {q} : wish'[r] = wish[r]
  BY <1>1 DEF E!Arrive, PInv, PrefTypes
<1>5. /\ target' \in [PrefRequests -> Ids \union {None}]
      /\ j.kind \in {"pin", "delete"} => target'[q] = j.id
      /\ \A r \in PrefRequests \ {q} : target'[r] = target[r]
  BY <1>1, Assumptions DEF E!Arrive, PInv, PrefTypes, Assumptions
<1>6. /\ turn' \in Seq(PrefRequests)
      /\ turn # << >> => turn' # << >> /\ Head(turn') = Head(turn)
  BY Behind DEF E!Arrive, PInv, PrefTypes
<1>7. UNCHANGED <<markdown, entry, prefs, visit, copy>>
  BY DEF E!Arrive, E!disk
<1>8. PrefTypes'
  BY <1>3, <1>4, <1>5, <1>6, <1>7 DEF PInv, PrefTypes
<1>9. WritesWhatItRead'
  BY <1>3, <1>6, <1>7 DEF PInv, WritesWhatItRead
<1>10. Aims'
  BY <1>1, <1>2, <1>3, <1>4, <1>5, <1>7 DEF PInv, Aims, E!Asks
<1>11. E!DeletedIsForgotten'
  BY <1>3, <1>4, <1>7 DEF PInv, E!DeletedIsForgotten, E!Asks
<1>12. E!OnDiskIsListed'
  BY <1>7 DEF PInv, E!OnDiskIsListed
<1>13. QED
  BY <1>8, <1>9, <1>10, <1>11, <1>12 DEF PInv

(* A request that moves on without having read or written the preferences. *)
LEMMA PrefsOnward ==
    ASSUME PInv, NEW q \in PrefRequests, NEW to \in E!Phases \ {"write"}, E!Go(q, to),
           phase[q] # "write",
           UNCHANGED <<wish, prefs, copy>>,
           turn' = turn \/ turn' = Append(turn, q),
           target' \in [PrefRequests -> Ids \union {None}],
           \A r \in PrefRequests : target'[r] = target[r] \/ (r = q /\ E!Asks(q, "clear")),
           visit' \in [PrefRequests -> SUBSET Ids],
           markdown' \subseteq markdown, markdown' \subseteq entry', entry' \subseteq Ids,
           to \in {"next", "list"} => E!Asks(q, "clear"),
           E!Asks(q, "clear") => to \notin {"check", "read", "write", "forget"},
           to = "entry" => target'[q] \notin markdown',
           to = "done" /\ E!Asks(q, "delete") => target[q] \notin prefs.pinned
    PROVE  PInv'
<1>1. /\ phase' \in [PrefRequests -> E!Phases]
      /\ phase'[q] = to /\ \A r \in PrefRequests \ {q} : phase'[r] = phase[r]
  BY PrefMoves DEF PInv
<1>2. /\ turn' \in Seq(PrefRequests)
      /\ turn # << >> => turn' # << >> /\ Head(turn') = Head(turn)
  <2>1. CASE turn' = turn
    BY <2>1, Behind DEF PInv
  <2>2. CASE turn' = Append(turn, q)
    BY <2>2, Behind DEF PInv
  <2>3. QED
    BY <2>1, <2>2
<1>3. PrefTypes'
  BY <1>1, <1>2 DEF PInv, PrefTypes
<1>4. WritesWhatItRead'
  BY <1>1, <1>2 DEF PInv, WritesWhatItRead
<1>5. Aims'
  BY <1>1 DEF PInv, Aims, E!Asks
<1>6. E!DeletedIsForgotten'
  BY <1>1 DEF PInv, Aims, E!DeletedIsForgotten, E!Asks
<1>7. E!OnDiskIsListed'
  BY DEF E!OnDiskIsListed
<1>8. QED
  BY <1>3, <1>4, <1>5, <1>6, <1>7 DEF PInv

LEMMA PrefsMoveOn ==
    ASSUME PInv, NEW q \in PrefRequests,
           \/ E!Check(q) \/ E!Unlink(q) \/ E!RemoveEntry(q) \/ E!Forget(q)
           \/ E!ListEntries(q) \/ E!ListFails(q) \/ E!NextEntry(q)
    PROVE  PInv'
<1> USE DEF E!disk, E!Phases
<1>0. /\ PrefTypes /\ Aims /\ markdown \subseteq entry
      /\ E!Asks(q, "clear") => ~ E!Asks(q, "delete")
  BY DEF PInv, E!OnDiskIsListed, E!Asks
<1>1. CASE E!Check(q)
  <2>1. PICK to \in {"read", "refused"} : E!Go(q, to)
    BY <1>1 DEF E!Check
  <2>2. QED
    BY <1>0, <1>1, <2>1, PrefsOnward DEF E!Check, PrefTypes, Aims
<1>2. CASE E!Unlink(q)
  <2>1. PICK to \in {"entry", "refused"} :
            E!Go(q, to) /\ (to = "entry" => target[q] \notin markdown')
    BY <1>2 DEF E!Unlink
  <2>2. QED
    BY <1>0, <1>2, <2>1, PrefsOnward DEF E!Unlink, PrefTypes
<1>3. CASE E!RemoveEntry(q)
  <2>1. PICK to \in {"next", "forget"} : E!Go(q, to) /\ (to = "next" <=> E!Asks(q, "clear"))
    BY <1>3 DEF E!RemoveEntry
  <2>2. QED
    BY <1>0, <1>3, <2>1, PrefsOnward DEF E!RemoveEntry, PrefTypes, Aims
<1>4. CASE E!Forget(q)
  <2>1. PICK to \in {"read", "done"} :
            E!Go(q, to) /\ (to = "done" => target[q] \notin prefs.pinned)
    BY <1>4 DEF E!Forget
  <2>2. QED
    BY <1>0, <1>4, <2>1, PrefsOnward DEF E!Forget, PrefTypes, Aims
<1>5. CASE E!ListEntries(q) \/ E!ListFails(q)
  <2>1. visit' \in [PrefRequests -> SUBSET Ids]
    BY <1>0, <1>5 DEF E!ListEntries, E!ListFails, PrefTypes
  <2>2. QED
    BY <1>0, <1>5, <2>1, PrefsOnward DEF E!ListEntries, E!ListFails, PrefTypes, Aims
<1>6. CASE E!NextEntry(q)
  <2>1. PICK to \in {"done", "unlink"} : E!Go(q, to)
    BY <1>6 DEF E!NextEntry
  <2>2. /\ visit' \in [PrefRequests -> SUBSET Ids]
        /\ target' \in [PrefRequests -> Ids \union {None}]
        /\ \A r \in PrefRequests \ {q} : target'[r] = target[r]
    BY <1>0, <1>6 DEF E!NextEntry, PrefTypes
  <2>3. E!Asks(q, "clear")
    BY <1>0, <1>6 DEF E!NextEntry, Aims
  <2>4. QED
    BY <1>0, <1>6, <2>1, <2>2, <2>3, PrefsOnward DEF E!NextEntry, PrefTypes
<1>7. QED
  BY <1>1, <1>2, <1>3, <1>4, <1>5, <1>6

(* Under the lock the file is as it was read, or was not read at all.      *)
LEMMA PrefsRead ==
    ASSUME PInv, NEW q \in PrefRequests, E!Read(q)
    PROVE  PInv'
<1>1. /\ phase' \in [PrefRequests -> E!Phases]
      /\ phase'[q] = "write" /\ \A r \in PrefRequests \ {q} : phase'[r] = phase[r]
  BY PrefMoves DEF PInv, E!Read, E!Phases
<1>2. /\ copy' \in [PrefRequests -> E!Prefs \union {None}]
      /\ copy'[q] \in E!Prefs /\ copy'[q].pinned \subseteq prefs.pinned
      /\ \A r \in PrefRequests \ {q} : copy'[r] = copy[r]
  BY DEF PInv, PrefTypes, E!Read, E!NoPrefs, E!Prefs
<1>3. UNCHANGED <<markdown, entry, prefs, turn, wish, target, visit>> /\ turn # << >>
      /\ Head(turn) = q /\ phase[q] = "read"
  BY DEF E!Read, E!disk
<1>4. PrefTypes'
  BY <1>1, <1>2, <1>3 DEF PInv, PrefTypes
<1>5. WritesWhatItRead'
  BY <1>1, <1>2, <1>3 DEF PInv, WritesWhatItRead
<1>6. Aims'
  BY <1>1, <1>3 DEF PInv, Aims, E!Asks
<1>7. E!DeletedIsForgotten' /\ E!OnDiskIsListed'
  BY <1>1, <1>3 DEF PInv, E!DeletedIsForgotten, E!OnDiskIsListed, E!Asks
<1>8. QED
  BY <1>4, <1>5, <1>6, <1>7 DEF PInv

(* What is written has no pin that was not there, but for one that may be  *)
(* pinned; and not the one that is deleted.                                *)
LEMMA PrefsWrite ==
    ASSUME PInv, NEW q \in PrefRequests, E!Write(q) \/ E!WriteFails(q)
    PROVE  PInv'
<1>1. PICK to \in {"done", "refused"} : E!Go(q, to) /\ (to = "done" => E!Write(q))
  BY DEF E!Write, E!WriteFails
<1>2. /\ phase' \in [PrefRequests -> E!Phases]
      /\ phase'[q] = to /\ \A r \in PrefRequests \ {q} : phase'[r] = phase[r]
  BY <1>1, PrefMoves DEF PInv, E!Phases
<1>3. phase[q] = "write" /\ UNCHANGED <<markdown, entry, wish, target, visit, copy>>
  BY DEF E!Write, E!WriteFails, E!disk
<1>4. turn # << >> /\ turn' \in Seq(PrefRequests)
  <2>1. turn \in Seq(PrefRequests) /\ turn # << >>
    BY <1>3 DEF PInv, PrefTypes, WritesWhatItRead
  <2>2. turn' = Tail(turn)
    BY DEF E!Write, E!WriteFails, E!LeaveLine
  <2>3. QED
    BY <2>1, <2>2, HeadTailProperties
<1>5. \A r \in PrefRequests : phase'[r] # "write"
  BY <1>1, <1>2, <1>3 DEF PInv, WritesWhatItRead
<1>6. /\ copy[q] \in E!Prefs /\ copy[q].pinned \subseteq prefs.pinned
      /\ E!Asks(q, "pin") => target[q] \in Pinnable
      /\ wish[q] \in E!Job \union {None}
  BY <1>3 DEF PInv, PrefTypes, WritesWhatItRead, Aims
<1>7. /\ E!Changed(q) \in E!Prefs
      /\ E!Changed(q).pinned \subseteq prefs.pinned \union Pinnable
      /\ E!Asks(q, "delete") => target[q] \notin E!Changed(q).pinned
  <2>1. CASE E!Asks(q, "model")
    BY <1>6, <2>1 DEF E!Changed, E!Prefs, E!Asks, E!Job
  <2>2. CASE E!Asks(q, "pin") /\ ~ E!Asks(q, "model") /\ wish[q].on
    BY <1>6, <2>2, Assumptions DEF E!Changed, E!Prefs, E!Asks, Assumptions
  <2>3. CASE ~ E!Asks(q, "model") /\ ~ (E!Asks(q, "pin") /\ wish[q].on)
    BY <1>6, <2>3 DEF E!Changed, E!Prefs
  <2>4. QED
    BY <2>1, <2>2, <2>3 DEF E!Asks
<1>8. /\ prefs' \in E!Prefs /\ prefs'.pinned \subseteq prefs.pinned \union Pinnable
      /\ to = "done" /\ E!Asks(q, "delete") => target[q] \notin prefs'.pinned
  <2>1. prefs' = prefs \/ prefs' = E!Changed(q)
    BY DEF E!Write, E!WriteFails, E!disk
  <2>2. to = "done" => prefs' = E!Changed(q)
    BY <1>1 DEF E!Write
  <2>3. QED
    BY <1>7, <2>1, <2>2 DEF PInv, PrefTypes
<1>9. PrefTypes'
  BY <1>2, <1>3, <1>4, <1>8 DEF PInv, PrefTypes
<1>10. WritesWhatItRead'
  BY <1>5 DEF WritesWhatItRead
<1>11. Aims'
  BY <1>1, <1>2, <1>3 DEF PInv, Aims, E!Asks
<1>12. E!DeletedIsForgotten' /\ E!OnDiskIsListed'
  BY <1>1, <1>2, <1>3, <1>8 DEF PInv, Aims, E!DeletedIsForgotten, E!OnDiskIsListed, E!Asks
<1>13. QED
  BY <1>9, <1>10, <1>11, <1>12 DEF PInv

LEMMA PrefsAround ==
    ASSUME PInv, E!RebuildIndex \/ \E i \in Ids : E!Touch(i)
    PROVE  PInv'
<1>1. /\ UNCHANGED <<markdown, prefs, turn, phase, wish, target, visit, copy>>
      /\ entry' = entry \/ entry' = markdown
  BY DEF E!RebuildIndex, E!Touch, E!disk
<1>2. QED
  BY <1>1 DEF PInv, PrefTypes, WritesWhatItRead, Aims, E!DeletedIsForgotten, E!OnDiskIsListed,
              E!Asks

LEMMA PrefsDie ==
    ASSUME PInv, E!Crash
    PROVE  PInv'
<1>1. /\ UNCHANGED <<markdown, entry, prefs, wish, target, visit, copy>> /\ turn' = << >>
      /\ \A r \in PrefRequests :
            phase'[r] = (IF phase[r] \in {"idle", "done", "refused"} THEN phase[r] ELSE "lost")
      /\ phase' \in [PrefRequests -> E!Phases]
  BY DEF PInv, PrefTypes, E!Crash, E!disk, E!Phases
<1>2. PrefTypes'
  BY <1>1 DEF PInv, PrefTypes
<1>3. WritesWhatItRead' /\ Aims'
  BY <1>1 DEF PInv, WritesWhatItRead, Aims, E!Asks
<1>4. E!DeletedIsForgotten' /\ E!OnDiskIsListed'
  BY <1>1 DEF PInv, E!DeletedIsForgotten, E!OnDiskIsListed, E!Asks
<1>5. QED
  BY <1>2, <1>3, <1>4 DEF PInv

LEMMA PrefsKept ==
    ASSUME PInv, PrefsNext
    PROVE  PInv'
<1>1. CASE \E q \in PrefRequests : E!Step(q) \/ E!WriteFails(q) \/ E!ListFails(q)
  BY <1>1, PrefsMoveOn, PrefsRead, PrefsWrite DEF E!Step
<1>2. CASE E!RebuildIndex \/ \E i \in Ids : E!Touch(i)
  BY <1>2, PrefsAround
<1>3. CASE E!Crash
  BY <1>3, PrefsDie
<1>4. ASSUME NEW q \in NextOf(PrefRequests \ ModelRequests, phase), NEW j \in PrefJobs,
             E!Arrive(q, j)
      PROVE  PInv'
  BY <1>4, PrefsArrive DEF NextOf, AnyOf
<1>5. ASSUME NEW q \in NextOf(ModelRequests, phase), NEW m \in Models,
             E!Arrive(q, [kind |-> "model", to |-> m])
      PROVE  PInv'
  <2>1. q \in PrefRequests /\ [kind |-> "model", to |-> m] \in PrefJobs
    BY Assumptions DEF NextOf, AnyOf, PrefJobs, Assumptions
  <2>2. QED
    BY <1>5, <2>1, PrefsArrive
<1>6. QED
  BY <1>1, <1>2, <1>3, <1>4, <1>5 DEF PrefsNext

(* For any number of requests, conversations and deaths a conversation     *)
(* that was deleted, and answered so, is pinned no longer, and one that is *)
(* on disk is in the list (preferences.ts, clearHistory.ts).               *)
THEOREM NothingOutlivesIt == Spec => []DeletedIsForgotten
<1>1. Init => PInv
  <2> SUFFICES ASSUME Init PROVE PInv
    OBVIOUS
  <2>1. E!Init
    BY DEF Init
  <2>2. PrefTypes
    BY <2>1 DEF E!Init, PrefTypes, E!Phases
  <2>3. WritesWhatItRead /\ Aims /\ E!DeletedIsForgotten /\ E!OnDiskIsListed
    BY <2>1 DEF E!Init, WritesWhatItRead, Aims, E!DeletedIsForgotten, E!OnDiskIsListed, E!Asks
  <2>4. QED
    BY <2>2, <2>3 DEF PInv
<1>2. PInv /\ [Next]_<<part, down, cardVars, attachmentVars, prefVars, fileVars>> => PInv'
  <2> SUFFICES ASSUME PInv, [Next]_<<part, down, cardVars, attachmentVars, prefVars, fileVars>>
               PROVE  PInv'
    OBVIOUS
  <2>1. CASE UNCHANGED prefVars
    BY <2>1 DEF prefVars, PInv, PrefTypes, WritesWhatItRead, Aims, E!DeletedIsForgotten,
                E!OnDiskIsListed, E!Asks
  <2>2. QED
    BY <2>1, PrefsKept DEF Next
<1>3. PInv => DeletedIsForgotten
  BY DEF PInv, DeletedIsForgotten
<1>4. QED
  BY <1>1, <1>2, <1>3, PTL DEF Spec

-----------------------------------------------------------------------------
(* Attachments.  The bytes of some files, none counted twice.              *)
BytesOf(F) == UNION {T!Bytes(f) : f \in F}
CompleteFiles == {f \in Files : T!Complete(f)}

LEMMA SameCount == \A S : T!Cardinality(S) = Cardinality(S)
BY DEF T!Cardinality, Cardinality

LEMMA SameFinite == \A S : T!IsFiniteSet(S) <=> IsFiniteSet(S)
BY DEF T!IsFiniteSet, IsFiniteSet

LEMMA BytesOfOne ==
    ASSUME NEW f \in Files
    PROVE  IsFiniteSet(T!Bytes(f)) /\ Cardinality(T!Bytes(f)) = Size(f)
<1>1. Size(f) \in Nat
  BY Assumptions DEF Assumptions, T!SizeAssumption
<1>2. IsFiniteSet(1 .. Size(f)) /\ Cardinality(1 .. Size(f)) = Size(f)
  BY <1>1, FS_Interval
<1>3. IsFiniteSet({f}) /\ Cardinality({f}) = 1
  BY FS_Singleton
<1>4. QED
  BY <1>1, <1>2, <1>3, FS_Product DEF T!Bytes

LEMMA BytesFinite ==
    ASSUME NEW F \in SUBSET Files
    PROVE  IsFiniteSet(BytesOf(F)) /\ Cardinality(BytesOf(F)) \in Nat
<1> DEFINE all == {T!Bytes(f) : f \in F}
           of == [f \in F |-> T!Bytes(f)]
<1>1. IsFiniteSet(F)
  BY Assumptions, SameFinite, FS_Subset DEF Assumptions, T!SizeAssumption
<1>2. of \in Surjection(F, all)
  BY DEF Surjection
<1>3. IsFiniteSet(all)
  BY <1>1, <1>2, FS_Surjection
<1>4. \A B \in all : IsFiniteSet(B)
  BY BytesOfOne
<1>5. IsFiniteSet(UNION all)
  BY <1>3, <1>4, FS_UNION
<1>6. QED
  BY <1>5, FS_CardinalityType DEF BytesOf

(* A file more is its bytes more, and fewer files are not more bytes.      *)
LEMMA BytesAdd ==
    ASSUME NEW F \in SUBSET Files, NEW f \in Files \ F
    PROVE  Cardinality(BytesOf(F \union {f})) = Cardinality(BytesOf(F)) + Size(f)
<1>1. BytesOf(F \union {f}) = BytesOf(F) \union T!Bytes(f)
  BY DEF BytesOf
<1>2. BytesOf(F) \intersect T!Bytes(f) = {}
  BY DEF BytesOf, T!Bytes
<1>3. Size(f) \in Nat /\ Cardinality({}) = 0
  BY Assumptions, FS_EmptySet DEF Assumptions, T!SizeAssumption
<1>4. /\ IsFiniteSet(BytesOf(F)) /\ Cardinality(BytesOf(F)) \in Nat
      /\ IsFiniteSet(T!Bytes(f)) /\ Cardinality(T!Bytes(f)) = Size(f)
  BY BytesFinite, BytesOfOne
<1>5. Cardinality(BytesOf(F) \union T!Bytes(f))
        = Cardinality(BytesOf(F)) + Size(f) - Cardinality(BytesOf(F) \intersect T!Bytes(f))
  BY <1>4, FS_Union
<1>6. Cardinality(BytesOf(F) \intersect T!Bytes(f)) = 0
  BY <1>2, <1>3
<1>7. Cardinality(BytesOf(F) \union T!Bytes(f)) = Cardinality(BytesOf(F)) + Size(f)
  BY <1>3, <1>4, <1>5, <1>6
<1>8. QED
  BY <1>1, <1>7

LEMMA BytesFewer ==
    ASSUME NEW F \in SUBSET Files, NEW G \in SUBSET F
    PROVE  Cardinality(BytesOf(G)) <= Cardinality(BytesOf(F))
<1>1. BytesOf(G) \subseteq BytesOf(F)
  BY DEF BytesOf
<1>2. QED
  BY <1>1, BytesFinite, FS_Subset

LEMMA TotalIs ==
    /\ T!TotalBytes = Cardinality(BytesOf(CompleteFiles)) /\ T!TotalBytes \in Nat
    /\ T!TotalBytes' = Cardinality(BytesOf(CompleteFiles')) /\ T!TotalBytes' \in Nat
<1>1. T!TotalBytes = T!Cardinality(BytesOf(CompleteFiles))
  BY DEF T!TotalBytes, BytesOf, CompleteFiles
<1>2. T!TotalBytes' = T!Cardinality(BytesOf(CompleteFiles'))
  BY DEF T!TotalBytes, BytesOf, CompleteFiles
<1>3. CompleteFiles \subseteq Files /\ CompleteFiles' \subseteq Files
  BY DEF CompleteFiles
<1>4. QED
  BY <1>1, <1>2, <1>3, SameCount, BytesFinite

(* What a request refers to, and what a deletion goes for.                 *)
AttTypes ==
    /\ dirs \in [Files -> SUBSET {"temp", "blob", "meta"}]
    /\ linked \in [Files -> FileRequests \union {None}]
    /\ there \subseteq Conversations
    /\ msgs \in [Conversations -> SUBSET FileRequests]
    /\ doing \in [T!Actors -> T!Phases]
    /\ job \in [FileRequests -> T!Job \union {None}]
    /\ todo \in [FileRequests -> SUBSET Files]

(* Before it is done an upload has no metadata; the one that holds the     *)
(* account's lock has room.                                                *)
UploadsFit ==
    /\ \A f \in Files :
          /\ doing[f] \in {"idle", "arriving", "rename", "meta"} => ~ T!Complete(f)
          /\ doing[f] \in {"rename", "meta"} =>
                committing = f /\ T!TotalBytes + Size(f) <= Quota
    /\ T!QuotaHolds /\ T!MetadataMeansBytes

(* A file is sent once; what a request has still to link or delete was     *)
(* sent to its conversation, and who deletes has removed that.             *)
SentOnce ==
    /\ \A p, q \in FileRequests :
          Sends(p) /\ Sends(q) /\ p # q => job[p].files \intersect job[q].files = {}
    /\ \A q \in FileRequests :
          /\ doing[q] = "idle" => job[q] = None /\ todo[q] = {}
          /\ doing[q] # "idle" => job[q] \in T!Job
          /\ doing[q] \in {"ready", "link"} => Sends(q)
          /\ doing[q] = "dispose" => job[q].at \notin there
          /\ \A f \in todo[q] :
                \E p \in FileRequests :
                    Sends(p) /\ f \in job[p].files /\ job[p].at = job[q].at
    /\ \A c \in Conversations :
          /\ c \notin there => msgs[c] = {}
          /\ \A q \in msgs[c] : Sends(q) /\ job[q].at = c

(* What a message refers to, and has linked, is there and is its own.      *)
LinkedIsTheirs ==
    \A c \in Conversations : \A q \in msgs[c] :
        /\ doing[q] = "link" => \A f \in job[q].files \ todo[q] : T!Complete(f) /\ linked[f] = q
        /\ doing[q] = "done" => \A f \in job[q].files : T!Complete(f) /\ linked[f] = q

AInv == AttTypes /\ UploadsFit /\ SentOnce /\ LinkedIsTheirs

LEMMA AttMoves ==
    ASSUME AttTypes, NEW a \in T!Actors, NEW to \in T!Phases, T!Go(a, to)
    PROVE  /\ doing' \in [T!Actors -> T!Phases]
           /\ doing'[a] = to /\ \A b \in T!Actors \ {a} : doing'[b] = doing[b]
BY DEF AttTypes, T!Go

LEMMA TwoKinds ==
    /\ Files \subseteq T!Actors /\ FileRequests \subseteq T!Actors
    /\ Files \intersect FileRequests = {}
    /\ None \notin Files \union FileRequests \union T!Job
BY Assumptions DEF Assumptions, T!NoneAssumption, T!Actors

LEMMA Asked ==
    ASSUME AttTypes, NEW q \in FileRequests, job[q] \in T!Job
    PROVE  /\ job[q].kind \in {"send", "remove", "delete", "clear", "deleteMessage"}
           /\ job[q].kind = "send" => job[q].files \subseteq Files
           /\ job[q].kind = "remove" => job[q].file \in Files
           /\ job[q].kind # "remove" => job[q].at \in Conversations
           /\ job[q].kind = "send" <=> Sends(q)
BY TwoKinds DEF T!Job, Sends

(* A step that takes no file away from a message, and moves no request     *)
(* but to its end.                                                         *)
LEMMA MessagesStay ==
    ASSUME AInv, UNCHANGED <<there, msgs, job, todo>>,
           \A q \in FileRequests : doing'[q] = doing[q] \/ (doing'[q] = "lost" /\ doing[q] # "idle"),
           \A f \in Files : T!Complete(f) /\ linked[f] # None => T!Complete(f)' /\ linked'[f] = linked[f]
    PROVE  SentOnce' /\ LinkedIsTheirs'
<1>1. SentOnce'
  BY DEF AInv, SentOnce, Sends
<1>2. LinkedIsTheirs'
  <2> SUFFICES ASSUME NEW c \in Conversations, NEW q \in msgs[c], doing[q] \in {"link", "done"},
                      doing'[q] = doing[q], NEW f \in job[q].files,
                      doing[q] = "link" => f \notin todo[q]
               PROVE  T!Complete(f)' /\ linked'[f] = q
    BY DEF AInv, AttTypes, LinkedIsTheirs
  <2>1. q \in FileRequests /\ q # None /\ f \in Files
    BY TwoKinds, Asked DEF AInv, AttTypes, SentOnce, Sends
  <2>2. T!Complete(f) /\ linked[f] = q
    BY DEF AInv, LinkedIsTheirs
  <2>3. QED
    BY <2>1, <2>2
<1>3. QED
  BY <1>1, <1>2

(* A step that leaves every directory as it was or empties it.             *)
LEMMA FilesFewer ==
    ASSUME AInv,
           dirs' \in [Files -> SUBSET {"temp", "blob", "meta"}],
           \A f \in Files : dirs'[f] = dirs[f] \/ dirs'[f] = {},
           \A f \in Files : doing'[f] = doing[f] \/ doing'[f] \notin {"idle", "arriving", "rename", "meta"},
           committing' = committing \/ \A f \in Files : doing'[f] \notin {"rename", "meta"}
    PROVE  UploadsFit'
<1>1. \A f \in Files : T!Complete(f)' => T!Complete(f)
  BY DEF T!Complete
<1>2. CompleteFiles' \subseteq CompleteFiles /\ CompleteFiles \subseteq Files
  BY <1>1 DEF CompleteFiles
<1>3. T!TotalBytes' <= T!TotalBytes
  BY <1>2, TotalIs, BytesFewer
<1>4. T!TotalBytes \in Nat /\ T!TotalBytes' \in Nat
  BY TotalIs
<1>5. Quota \in Nat /\ \A f \in Files : Size(f) \in Nat
  BY Assumptions DEF Assumptions, T!SizeAssumption
<1>6. T!QuotaHolds'
  BY <1>3, <1>4, <1>5 DEF AInv, UploadsFit, T!QuotaHolds
<1>7. T!MetadataMeansBytes'
  BY DEF AInv, UploadsFit, T!MetadataMeansBytes, T!Complete
<1>8. ASSUME NEW f \in Files
      PROVE  /\ doing'[f] \in {"idle", "arriving", "rename", "meta"} => ~ T!Complete(f)'
             /\ doing'[f] \in {"rename", "meta"} =>
                  committing' = f /\ T!TotalBytes' + Size(f) <= Quota
  BY <1>1, <1>3, <1>4, <1>5 DEF AInv, UploadsFit
<1>9. QED
  BY <1>6, <1>7, <1>8 DEF UploadsFit

(* An upload moves on: only its last step gives it metadata.               *)
LEMMA UploadKeeps ==
    ASSUME AInv, NEW f \in Files, T!Uploading(f)
    PROVE  AInv'
<1>1. /\ UNCHANGED <<linked, there, msgs, job, todo>>
      /\ \E to \in {"arriving", "refused", "rename", "meta", "done"} : T!Go(f, to)
  BY DEF T!Uploading, T!Begin, T!RefuseUpload, T!Commit, T!Rename, T!WriteMeta, T!CommitFails,
         T!stored, T!uploads
<1>2. PICK to \in {"arriving", "refused", "rename", "meta", "done"} : T!Go(f, to)
  BY <1>1
<1>3. /\ doing' \in [T!Actors -> T!Phases]
      /\ doing'[f] = to /\ \A b \in T!Actors \ {f} : doing'[b] = doing[b]
  BY <1>2, AttMoves, TwoKinds DEF AInv, T!Phases
<1>4. /\ dirs' \in [Files -> SUBSET {"temp", "blob", "meta"}]
      /\ \A g \in Files \ {f} : dirs'[g] = dirs[g]
      /\ ~ T!Complete(f)
  BY DEF AInv, AttTypes, UploadsFit, T!Uploading, T!Begin, T!RefuseUpload, T!Commit, T!Rename,
         T!WriteMeta, T!CommitFails
<1>5. AttTypes'
  BY <1>1, <1>3, <1>4 DEF AInv, AttTypes
<1>6. SentOnce' /\ LinkedIsTheirs'
  <2>1. \A q \in FileRequests : doing'[q] = doing[q]
    BY <1>3, TwoKinds
  <2>2. \A g \in Files : T!Complete(g) => T!Complete(g)'
    BY <1>4 DEF T!Complete
  <2>3. QED
    BY <1>1, <2>1, <2>2, MessagesStay
<1>7. UploadsFit'
  <2>1. CASE T!WriteMeta(f)
    <3>1. dirs'[f] = {"blob", "meta"} /\ doing[f] = "meta" /\ doing'[f] = "done"
      BY <2>1 DEF AInv, AttTypes, T!Go, T!Actors, T!WriteMeta
    <3>2. CompleteFiles' = CompleteFiles \union {f} /\ f \notin CompleteFiles
      BY <1>4, <3>1 DEF CompleteFiles, T!Complete
    <3>3. T!TotalBytes' = T!TotalBytes + Size(f)
      BY <3>2, TotalIs, BytesAdd DEF CompleteFiles
    <3>4. T!QuotaHolds'
      BY <3>1, <3>3 DEF AInv, UploadsFit, T!QuotaHolds
    <3>5. T!MetadataMeansBytes'
      BY <1>4, <3>1 DEF AInv, UploadsFit, T!MetadataMeansBytes, T!Complete
    <3>6. \A g \in Files \ {f} : doing[g] \notin {"rename", "meta"}
      BY <3>1 DEF AInv, UploadsFit
    <3>7. \A g \in Files : doing'[g] \in {"idle", "arriving", "rename", "meta"} => ~ T!Complete(g)'
      BY <1>3, <1>4, <3>1, TwoKinds DEF AInv, UploadsFit, T!Complete
    <3>8. \A g \in Files : doing'[g] \notin {"rename", "meta"}
      BY <1>3, <3>1, <3>6, TwoKinds
    <3>9. QED
      BY <3>4, <3>5, <3>7, <3>8 DEF UploadsFit
  <2>2. CASE ~ T!WriteMeta(f)
    <3>1. "meta" \notin dirs'[f]
      BY <1>4, <2>2 DEF AInv, AttTypes, T!Uploading, T!Begin, T!RefuseUpload, T!Commit, T!Rename,
             T!CommitFails, T!Complete
    <3>2. CompleteFiles' = CompleteFiles
      BY <1>4, <3>1 DEF CompleteFiles, T!Complete
    <3>3. T!TotalBytes' = T!TotalBytes
      BY <3>2, TotalIs
    <3>4. T!QuotaHolds' /\ T!MetadataMeansBytes'
      BY <1>4, <3>1, <3>3 DEF AInv, UploadsFit, T!QuotaHolds, T!MetadataMeansBytes, T!Complete
    <3>5. \A g \in Files : doing'[g] \in {"idle", "arriving", "rename", "meta"} => ~ T!Complete(g)'
      BY <1>3, <1>4, <3>1, TwoKinds DEF AInv, UploadsFit, T!Complete
    <3>6. ASSUME NEW g \in Files, doing'[g] \in {"rename", "meta"}
          PROVE  committing' = g /\ T!TotalBytes' + Size(g) <= Quota
      <4>1. CASE T!Commit(f)
        <5>1. committing = None /\ doing[f] = "arriving" /\ f # None
          BY <4>1, TwoKinds DEF T!Commit
        <5>2. g = f
          BY <1>3, <3>6, <5>1, TwoKinds DEF AInv, UploadsFit
        <5>3. doing'[f] # "refused"
          BY <3>6, <5>2
        <5>4. ~ (T!TotalBytes + Size(f) > Quota) /\ committing' = f
          BY <1>2, <1>3, <4>1, <5>3 DEF T!Commit, AInv, AttTypes, T!Go, T!Actors
        <5>5. T!TotalBytes \in Nat /\ Size(f) \in Nat /\ Quota \in Nat
          BY TotalIs, Assumptions DEF Assumptions, T!SizeAssumption
        <5>6. QED
          BY <3>3, <5>2, <5>4, <5>5
      <4>2. CASE T!Begin(f) \/ T!RefuseUpload(f) \/ T!Rename(f)
        <5>1. /\ committing' = committing
              /\ doing'[f] \in {"rename", "meta"} => doing[f] \in {"rename", "meta"}
          BY <1>3, <4>2 DEF T!Begin, T!RefuseUpload, T!Rename, T!uploads, T!Go, AInv, AttTypes
        <5>2. QED
          BY <1>3, <3>3, <3>6, <5>1, TwoKinds DEF AInv, UploadsFit
      <4>3. CASE T!CommitFails(f)
        <5>1. doing[f] \in {"rename", "meta"} /\ doing'[f] = "refused"
          BY <1>3, <4>3, TwoKinds DEF T!CommitFails, T!Go, AInv, AttTypes
        <5>2. \A h \in Files \ {f} : doing[h] \notin {"rename", "meta"}
          BY <5>1 DEF AInv, UploadsFit
        <5>3. QED
          BY <1>3, <3>6, <5>1, <5>2, TwoKinds
      <4>4. QED
        BY <2>2, <4>1, <4>2, <4>3 DEF T!Uploading
    <3>7. QED
      BY <3>4, <3>5, <3>6 DEF UploadsFit
  <2>3. QED
    BY <2>1, <2>2
<1>8. QED
  BY <1>5, <1>6, <1>7 DEF AInv

LEMMA AttAround ==
    ASSUME AInv,
           \/ \E f \in Files : T!Age(f)
           \/ \E c \in Conversations : T!RunEnds(c)
           \/ T!Housekeeping
    PROVE  AInv'
<1>1. UNCHANGED <<there, msgs, doing, job, todo, committing>>
  BY DEF T!Age, T!RunEnds, T!Housekeeping, T!Reconcile, T!Sweep, T!stored, T!uploads, T!directory
<1>2. /\ dirs' \in [Files -> SUBSET {"temp", "blob", "meta"}]
      /\ linked' \in [Files -> FileRequests \union {None}]
      /\ \A f \in Files : dirs'[f] = dirs[f] \/ dirs'[f] = {}
      /\ \A f \in Files : T!Complete(f) /\ linked[f] # None => T!Complete(f)' /\ linked'[f] = linked[f]
  <2>1. CASE (\E f \in Files : T!Age(f)) \/ \E c \in Conversations : T!RunEnds(c)
    BY <2>1 DEF T!Age, T!RunEnds, T!directory, AInv, AttTypes, T!Complete
  <2>2. CASE T!Reconcile
    BY <2>2 DEF T!Reconcile, AInv, AttTypes, T!Complete, T!Pending
  <2>3. CASE T!Sweep
    BY <2>3 DEF T!Sweep, AInv, AttTypes, T!Complete
  <2>4. QED
    BY <2>1, <2>2, <2>3 DEF T!Housekeeping
<1>3. AttTypes'
  BY <1>1, <1>2 DEF AInv, AttTypes
<1>4. SentOnce' /\ LinkedIsTheirs'
  BY <1>1, <1>2, MessagesStay
<1>5. UploadsFit'
  BY <1>1, <1>2, FilesFewer
<1>6. QED
  BY <1>3, <1>4, <1>5 DEF AInv

LEMMA AttDies ==
    ASSUME AInv, T!Crash
    PROVE  AInv'
<1>1. /\ UNCHANGED <<dirs, linked, there, msgs, job, todo>>
      /\ doing' \in [T!Actors -> T!Phases]
      /\ \A a \in T!Actors :
            doing'[a] = (IF doing[a] \in {"idle", "done", "refused"} THEN doing[a] ELSE "lost")
  BY DEF T!Crash, T!directory, AInv, AttTypes, T!Phases
<1>2. AttTypes'
  BY <1>1 DEF AInv, AttTypes
<1>3. SentOnce' /\ LinkedIsTheirs'
  <2>1. \A q \in FileRequests :
            doing'[q] = doing[q] \/ (doing'[q] = "lost" /\ doing[q] # "idle")
    BY <1>1, TwoKinds
  <2>2. \A f \in Files : T!Complete(f) => T!Complete(f)'
    BY <1>1 DEF T!Complete
  <2>3. QED
    BY <1>1, <2>1, <2>2, MessagesStay
<1>4. UploadsFit'
  <2>1. \A f \in Files : /\ doing'[f] = doing[f] \/ doing'[f] = "lost"
                         /\ doing'[f] \notin {"rename", "meta"}
    BY <1>1, TwoKinds
  <2>2. QED
    BY <1>1, <2>1, FilesFewer DEF AInv, AttTypes
<1>5. QED
  BY <1>2, <1>3, <1>4 DEF AInv

(* A request moves on: it takes away only what no message refers to, adds  *)
(* itself to a conversation only as a question with everything to link,    *)
(* and ends well only with everything linked.                              *)
LEMMA RequestKeeps ==
    ASSUME AInv, NEW q \in FileRequests, UNCHANGED <<committing, job>>,
           doing' \in [T!Actors -> T!Phases], doing[q] # "idle", doing'[q] # "idle",
           \A b \in T!Actors \ {q} : doing'[b] = doing[b],
           dirs' \in [Files -> SUBSET {"temp", "blob", "meta"}],
           \A f \in Files : dirs'[f] = dirs[f] \/ dirs'[f] = {},
           linked' \in [Files -> FileRequests \union {None}],
           there' \subseteq there,
           msgs' \in [Conversations -> SUBSET FileRequests],
           \A c \in Conversations :
               /\ c \notin there' => msgs'[c] = {}
               /\ \A p \in msgs'[c] \ msgs[c] :
                     p = q /\ Sends(q) /\ job[q].at = c /\ doing'[q] = "link" /\ todo'[q] = job[q].files,
           todo' \in [FileRequests -> SUBSET Files],
           \A p \in FileRequests \ {q} : todo'[p] = todo[p],
           \A f \in todo'[q] : \E p \in FileRequests :
               Sends(p) /\ f \in job[p].files /\ job[p].at = job[q].at,
           doing'[q] \in {"ready", "link"} => Sends(q),
           doing'[q] = "dispose" => job[q].at \notin there',
           \A f \in Files :
               \/ T!Complete(f) /\ linked[f] # None => T!Complete(f)' /\ linked'[f] = linked[f]
               \/ \A c \in Conversations : \A p \in msgs'[c] : f \notin job[p].files,
           \A c \in Conversations : q \in msgs'[c] =>
               /\ doing'[q] = "link" =>
                     \A f \in job[q].files \ todo'[q] : T!Complete(f)' /\ linked'[f] = q
               /\ doing'[q] = "done" => \A f \in job[q].files : T!Complete(f)' /\ linked'[f] = q
    PROVE  AInv'
<1>1. AttTypes'
  BY DEF AInv, AttTypes
<1>2. UploadsFit'
  <2>1. \A f \in Files : doing'[f] = doing[f]
    BY TwoKinds
  <2>2. QED
    BY <2>1, FilesFewer
<1>3. \A p \in FileRequests \ {q} : doing'[p] = doing[p]
  BY TwoKinds
<1>4. SentOnce'
  <2>1. \A p, r \in FileRequests :
            Sends(p)' /\ Sends(r)' /\ p # r => job'[p].files \intersect job'[r].files = {}
    BY DEF AInv, SentOnce, Sends
  <2>2. ASSUME NEW p \in FileRequests
        PROVE  /\ doing'[p] = "idle" => job'[p] = None /\ todo'[p] = {}
               /\ doing'[p] # "idle" => job'[p] \in T!Job
               /\ doing'[p] \in {"ready", "link"} => Sends(p)'
               /\ doing'[p] = "dispose" => job'[p].at \notin there'
    BY <1>3 DEF AInv, SentOnce, Sends
  <2>3. ASSUME NEW p \in FileRequests, NEW f \in todo'[p]
        PROVE  \E r \in FileRequests : Sends(r)' /\ f \in job'[r].files /\ job'[r].at = job'[p].at
    BY <2>3 DEF AInv, SentOnce, Sends
  <2>4. ASSUME NEW c \in Conversations, NEW p \in msgs'[c]
        PROVE  Sends(p)' /\ job'[p].at = c
    BY <2>4 DEF AInv, SentOnce, Sends
  <2>5. QED
    BY <2>1, <2>2, <2>3, <2>4 DEF SentOnce
<1>5. LinkedIsTheirs'
  <2> SUFFICES ASSUME NEW c \in Conversations, NEW p \in msgs'[c]
               PROVE  /\ doing'[p] = "link" =>
                            \A f \in job[p].files \ todo'[p] : T!Complete(f)' /\ linked'[f] = p
                      /\ doing'[p] = "done" =>
                            \A f \in job[p].files : T!Complete(f)' /\ linked'[f] = p
    BY DEF LinkedIsTheirs
  <2>1. CASE p = q
    BY <2>1
  <2>2. CASE p # q
    <3>1. p \in msgs[c] /\ p \in FileRequests /\ doing'[p] = doing[p] /\ todo'[p] = todo[p] /\ p # None
      BY <1>3, <2>2, TwoKinds DEF AInv, AttTypes
    <3>2. ASSUME NEW f \in job[p].files, T!Complete(f), linked[f] = p
          PROVE  T!Complete(f)' /\ linked'[f] = p
      <4>1. f \in Files
        BY <3>1, Asked DEF AInv, SentOnce, Sends
      <4>2. QED
        BY <3>1, <3>2, <4>1
    <3>3. QED
      BY <3>1, <3>2 DEF AInv, LinkedIsTheirs
  <2>3. QED
    BY <2>1, <2>2
<1>6. QED
  BY <1>1, <1>2, <1>4, <1>5 DEF AInv

LEMMA FilesArrive ==
    ASSUME AInv, NEW q \in FileRequests, NEW j \in AttachmentJobs, T!Arrive(q, j)
    PROVE  AInv'
<1>1. /\ j \in T!Job /\ j # None
      /\ j.kind = "send" => j.files \intersect Sent = {}
  <2>1. j \in T!Job
    BY DEF AttachmentJobs, T!Job, Known
  <2>2. j.kind = "send" => j.files \intersect Sent = {}
    BY DEF AttachmentJobs
  <2>3. QED
    BY <2>1, <2>2, TwoKinds
<1>2. /\ doing[q] = "idle" /\ doing' \in [T!Actors -> T!Phases] /\ doing'[q] = "start"
      /\ \A b \in T!Actors \ {q} : doing'[b] = doing[b]
  BY AttMoves, TwoKinds DEF T!Arrive, AInv, T!Phases
<1>3. /\ job' \in [FileRequests -> T!Job \union {None}] /\ job'[q] = j
      /\ \A p \in FileRequests \ {q} : job'[p] = job[p]
  BY <1>1 DEF T!Arrive, AInv, AttTypes
<1>4. UNCHANGED <<dirs, linked, there, msgs, committing, todo>>
  BY DEF T!Arrive, T!directory, T!stored, T!uploads
<1>5. AttTypes'
  BY <1>2, <1>3, <1>4 DEF AInv, AttTypes
<1>6. UploadsFit'
  <2>1. \A f \in Files : doing'[f] = doing[f]
    BY <1>2, TwoKinds
  <2>2. QED
    BY <1>4, <2>1, FilesFewer DEF AInv, AttTypes
<1>7. job[q] = None /\ todo[q] = {} /\ ~ Sends(q)
  BY <1>2 DEF AInv, SentOnce, Sends
<1>8. \A p \in FileRequests \ {q} :
          (Sends(p)' <=> Sends(p)) /\ job'[p] = job[p] /\ doing'[p] = doing[p]
  BY <1>2, <1>3, TwoKinds DEF Sends
<1>9. SentOnce'
  <2>1. \A p \in FileRequests : Sends(p) => job[p].files \subseteq Sent
    BY DEF Sent
  <2>2. \A p, r \in FileRequests :
            Sends(p)' /\ Sends(r)' /\ p # r => job'[p].files \intersect job'[r].files = {}
    BY <1>1, <1>3, <1>8, <2>1 DEF AInv, SentOnce, Sends
  <2>3. ASSUME NEW p \in FileRequests
        PROVE  /\ doing'[p] = "idle" => job'[p] = None /\ todo'[p] = {}
               /\ doing'[p] # "idle" => job'[p] \in T!Job
               /\ doing'[p] \in {"ready", "link"} => Sends(p)'
               /\ doing'[p] = "dispose" => job'[p].at \notin there'
    BY <1>1, <1>2, <1>3, <1>4, <1>8 DEF AInv, SentOnce
  <2>4. ASSUME NEW p \in FileRequests, NEW f \in todo'[p]
        PROVE  \E r \in FileRequests : Sends(r)' /\ f \in job'[r].files /\ job'[r].at = job'[p].at
    BY <1>4, <1>7, <1>8, <2>4 DEF AInv, SentOnce
  <2>5. ASSUME NEW c \in Conversations
        PROVE  /\ c \notin there' => msgs'[c] = {}
               /\ \A p \in msgs'[c] : Sends(p)' /\ job'[p].at = c
    BY <1>4, <1>7, <1>8 DEF AInv, AttTypes, SentOnce
  <2>6. QED
    BY <2>2, <2>3, <2>4, <2>5 DEF SentOnce
<1>10. LinkedIsTheirs'
  <2>1. \A c \in Conversations : \A p \in msgs[c] : p \in FileRequests \ {q}
    BY <1>7 DEF AInv, AttTypes, SentOnce
  <2>2. \A f \in Files : T!Complete(f)' <=> T!Complete(f)
    BY <1>4 DEF T!Complete
  <2>3. \A p \in FileRequests : Sends(p) => job[p].files \subseteq Files
    BY Asked, TwoKinds DEF AInv, AttTypes, Sends
  <2>4. QED
    BY <1>4, <1>8, <2>1, <2>2, <2>3 DEF AInv, SentOnce, LinkedIsTheirs
<1>11. QED
  BY <1>5, <1>6, <1>9, <1>10 DEF AInv

(* A request at work: what it asks is known.                               *)
LEMMA AtWork ==
    ASSUME AInv, NEW q \in FileRequests, doing[q] # "idle"
    PROVE  /\ AttTypes /\ q \in T!Actors /\ q # None
           /\ job[q] \in T!Job
           /\ job[q].kind \in {"send", "remove", "delete", "clear", "deleteMessage"}
           /\ job[q].kind = "send" => job[q].files \subseteq Files
           /\ job[q].kind = "remove" => job[q].file \in Files
           /\ job[q].kind # "remove" => job[q].at \in Conversations
           /\ job[q].kind = "send" <=> Sends(q)
           /\ \A f \in todo[q] : f \in Files /\
                \E p \in FileRequests : Sends(p) /\ f \in job[p].files /\ job[p].at = job[q].at
           /\ \A to \in T!Phases : T!Go(q, to) =>
                /\ doing' \in [T!Actors -> T!Phases]
                /\ doing'[q] = to /\ \A b \in T!Actors \ {q} : doing'[b] = doing[b]
<1>1. AttTypes /\ q \in T!Actors /\ q # None
  BY TwoKinds DEF AInv
<1>2. job[q] \in T!Job
  BY DEF AInv, SentOnce
<1>3. \A f \in todo[q] : f \in Files /\
          \E p \in FileRequests : Sends(p) /\ f \in job[p].files /\ job[p].at = job[q].at
  BY DEF AInv, AttTypes, SentOnce
<1>4. \A to \in T!Phases : T!Go(q, to) =>
          /\ doing' \in [T!Actors -> T!Phases]
          /\ doing'[q] = to /\ \A b \in T!Actors \ {q} : doing'[b] = doing[b]
  BY <1>1, AttMoves
<1>5. QED
  BY <1>1, <1>2, <1>3, <1>4, Asked

LEMMA MovesOnly ==
    ASSUME AInv, NEW q \in FileRequests, T!PrepareAttachments(q) \/ T!Disposed(q)
    PROVE  AInv'
<1>1. PICK to \in {"ready", "refused", "done"} : T!Go(q, to) /\
          (to = "ready" => job[q].kind = "send") /\ (to = "done" => doing[q] = "dispose")
  BY DEF T!PrepareAttachments, T!Disposed, T!Is
<1>2. /\ doing[q] # "idle"
      /\ UNCHANGED <<dirs, linked, there, msgs, committing, job, todo>>
  BY DEF T!PrepareAttachments, T!Disposed, T!Is, T!directory, T!stored, T!uploads
<1>3. \A c \in Conversations : q \in msgs[c] => doing'[q] # "done"
  BY <1>1, <1>2, AtWork DEF AInv, SentOnce, T!Phases
<1>4. QED
  BY <1>1, <1>2, <1>3, AtWork, RequestKeeps DEF AttTypes, AInv, SentOnce, T!Complete, T!Phases

LEMMA QuestionKeeps ==
    ASSUME AInv, NEW q \in FileRequests, T!WriteQuestion(q)
    PROVE  AInv'
<1>1. doing[q] = "ready" /\ Sends(q) /\ doing[q] # "idle"
  BY DEF T!WriteQuestion, AInv, SentOnce
<1>2. /\ UNCHANGED <<dirs, linked, there, committing, job>>
      /\ \A f \in Files : T!Complete(f)' <=> T!Complete(f)
  BY DEF T!WriteQuestion, T!directory, T!uploads, T!Complete
<1>3. CASE T!Go(q, "refused") /\ UNCHANGED <<msgs, todo>>
  BY <1>1, <1>2, <1>3, AtWork, RequestKeeps DEF AttTypes, AInv, SentOnce, T!Phases
<1>4. CASE /\ T!Go(q, "link") /\ job[q].at \in there
           /\ msgs' = [msgs EXCEPT ![job[q].at] = @ \union {q}]
           /\ todo' = [todo EXCEPT ![q] = job[q].files]
  <2>1. /\ AttTypes /\ job[q].at \in Conversations /\ job[q].files \subseteq Files
        /\ doing' \in [T!Actors -> T!Phases]
        /\ doing'[q] = "link" /\ \A b \in T!Actors \ {q} : doing'[b] = doing[b]
    BY <1>1, <1>4, AtWork DEF T!Phases
  <2>2. /\ msgs' \in [Conversations -> SUBSET FileRequests]
        /\ \A c \in Conversations \ {job[q].at} : msgs'[c] = msgs[c]
        /\ msgs'[job[q].at] = msgs[job[q].at] \union {q}
    BY <1>4, <2>1 DEF AttTypes
  <2>3. /\ todo' \in [FileRequests -> SUBSET Files] /\ todo'[q] = job[q].files
        /\ \A p \in FileRequests \ {q} : todo'[p] = todo[p]
    BY <1>4, <2>1 DEF AttTypes
  <2>4. \A c \in Conversations : c \notin there' => msgs'[c] = {}
    BY <1>2, <1>4, <2>2 DEF AInv, SentOnce
  <2>5. QED
    BY <1>1, <1>2, <2>1, <2>2, <2>3, <2>4, RequestKeeps DEF AttTypes
<1>5. QED
  BY <1>3, <1>4 DEF T!WriteQuestion

LEMMA LinkKeeps ==
    ASSUME AInv, NEW q \in FileRequests, NEW f \in Files, T!Link(q, f)
    PROVE  AInv'
<1>1. doing[q] = "link" /\ Sends(q) /\ f \in todo[q] /\ doing[q] # "idle"
  BY DEF T!Link, AInv, SentOnce
<1>2. /\ UNCHANGED <<dirs, there, msgs, committing, job>>
      /\ \A g \in Files : T!Complete(g)' <=> T!Complete(g)
  BY DEF T!Link, T!uploads, T!Complete
<1>3. CASE T!Go(q, "refused") /\ UNCHANGED <<linked, todo>>
  BY <1>1, <1>2, <1>3, AtWork, RequestKeeps DEF AttTypes, AInv, SentOnce, T!Phases
<1>4. CASE /\ T!Complete(f) /\ linked[f] \in {None, q} /\ UNCHANGED doing
           /\ linked' = [linked EXCEPT ![f] = q] /\ todo' = [todo EXCEPT ![q] = @ \ {f}]
  <2>1. AttTypes
    BY DEF AInv
  <2>2. /\ linked' \in [Files -> FileRequests \union {None}] /\ linked'[f] = q
        /\ \A g \in Files \ {f} : linked'[g] = linked[g]
    BY <1>4, <2>1 DEF AttTypes
  <2>3. /\ todo' \in [FileRequests -> SUBSET Files] /\ todo'[q] = todo[q] \ {f}
        /\ \A p \in FileRequests \ {q} : todo'[p] = todo[p]
    BY <1>4, <2>1 DEF AttTypes
  <2>4. \A g \in Files : T!Complete(g) /\ linked[g] # None => T!Complete(g)' /\ linked'[g] = linked[g]
    BY <1>2, <1>4, <2>2
  <2>5. \A c \in Conversations : q \in msgs'[c] =>
            \A g \in job[q].files \ todo'[q] : T!Complete(g)' /\ linked'[g] = q
    <3> SUFFICES ASSUME NEW c \in Conversations, q \in msgs[c], NEW g \in job[q].files \ todo'[q]
                 PROVE  T!Complete(g)' /\ linked'[g] = q
      BY <1>2
    <3>1. CASE g = f
      BY <1>2, <1>4, <2>2, <3>1
    <3>2. CASE g # f
      <4>1. g \notin todo[q] /\ g \in Files
        BY <1>1, <2>3, <3>2, AtWork
      <4>2. QED
        BY <1>1, <1>2, <2>2, <3>2, <4>1 DEF AInv, LinkedIsTheirs
    <3>3. QED
      BY <3>1, <3>2
  <2>6. \A g \in todo'[q] : \E p \in FileRequests :
            Sends(p) /\ g \in job[p].files /\ job[p].at = job[q].at
    BY <1>1, <2>3, AtWork
  <2>7. QED
    BY <1>1, <1>2, <1>4, <2>1, <2>2, <2>3, <2>4, <2>5, <2>6, RequestKeeps DEF AttTypes, AInv, SentOnce
<1>5. QED
  BY <1>3, <1>4 DEF T!Link

LEMMA LaunchKeeps ==
    ASSUME AInv, NEW q \in FileRequests, T!Launch(q)
    PROVE  AInv'
<1>1. doing[q] = "link" /\ todo[q] = {} /\ doing[q] # "idle" /\ T!Go(q, "done")
  BY DEF T!Launch
<1>2. /\ UNCHANGED <<dirs, linked, there, msgs, committing, job, todo>>
      /\ \A g \in Files : T!Complete(g)' <=> T!Complete(g)
  BY DEF T!Launch, T!directory, T!uploads, T!Complete
<1>3. \A c \in Conversations : q \in msgs[c] =>
          \A g \in job[q].files : T!Complete(g)' /\ linked'[g] = q
  <2> SUFFICES ASSUME NEW c \in Conversations, q \in msgs[c], NEW g \in job[q].files
               PROVE  T!Complete(g)' /\ linked'[g] = q
    OBVIOUS
  <2>1. g \in Files /\ T!Complete(g) /\ linked[g] = q
    BY <1>1, AtWork DEF AInv, SentOnce, LinkedIsTheirs
  <2>2. QED
    BY <1>2, <2>1
<1>4. QED
  BY <1>1, <1>2, <1>3, AtWork, RequestKeeps DEF AttTypes, AInv, SentOnce, T!Phases

(* A file that is not linked is of no message that has linked its own.     *)
LEMMA RemoveKeeps ==
    ASSUME AInv, NEW q \in FileRequests, T!Remove(q)
    PROVE  AInv'
<1>1. doing[q] = "start" /\ job[q].kind = "remove" /\ doing[q] # "idle"
  BY DEF T!Remove, T!Is
<1>2. UNCHANGED <<linked, there, msgs, committing, job, todo>>
  BY DEF T!Remove, T!stored, T!uploads
<1>3. PICK to \in {"done", "refused"} : T!Go(q, to)
  BY DEF T!Remove
<1>4. /\ dirs' \in [Files -> SUBSET {"temp", "blob", "meta"}]
      /\ \A f \in Files : dirs'[f] = dirs[f] \/ (dirs'[f] = {} /\ T!Pending(f))
  BY <1>1, AtWork DEF T!Remove, AttTypes
<1>5. \A f \in Files : T!Complete(f) /\ linked[f] # None => T!Complete(f)' /\ linked'[f] = linked[f]
  BY <1>2, <1>4 DEF T!Complete, T!Pending
<1>6. \A c \in Conversations : q \notin msgs[c]
  BY <1>1, AtWork DEF AInv, SentOnce
<1>7. /\ doing' \in [T!Actors -> T!Phases] /\ doing'[q] = to
      /\ \A b \in T!Actors \ {q} : doing'[b] = doing[b]
  BY <1>1, <1>3, AtWork DEF T!Phases
<1>8. \A f \in Files : dirs'[f] = dirs[f] \/ dirs'[f] = {}
  BY <1>4
<1>9. AttTypes /\ \A c \in Conversations : c \notin there => msgs[c] = {}
  BY DEF AInv, SentOnce
<1>10. \A f \in todo[q] : \E p \in FileRequests :
           Sends(p) /\ f \in job[p].files /\ job[p].at = job[q].at
  BY <1>1, AtWork
<1>11. QED
  BY <1>1, <1>2, <1>4, <1>5, <1>6, <1>7, <1>8, <1>9, <1>10, RequestKeeps DEF AttTypes

LEMMA OwnedKeeps ==
    ASSUME AInv, NEW q \in FileRequests, T!ReadOwned(q)
    PROVE  AInv'
<1>1. /\ doing[q] = "start" /\ job[q].kind = "delete" /\ doing[q] # "idle" /\ T!Go(q, "owned")
      /\ todo' = [todo EXCEPT ![q] = T!ReferencedIds(job[q].at)]
  BY DEF T!ReadOwned, T!Is
<1>2. /\ UNCHANGED <<dirs, linked, there, msgs, committing, job>>
      /\ \A f \in Files : T!Complete(f)' <=> T!Complete(f)
  BY DEF T!ReadOwned, T!directory, T!stored, T!uploads, T!Complete
<1>3. \A f \in T!ReferencedIds(job[q].at) :
          \E p \in FileRequests : Sends(p) /\ f \in job[p].files /\ job[p].at = job[q].at
  BY <1>1, AtWork DEF T!ReferencedIds, AInv, AttTypes, SentOnce
<1>4. T!ReferencedIds(job[q].at) \subseteq Files
  BY <1>3, Asked, TwoKinds DEF AInv, AttTypes, Sends
<1>5. /\ todo' \in [FileRequests -> SUBSET Files] /\ todo'[q] = T!ReferencedIds(job[q].at)
      /\ \A p \in FileRequests \ {q} : todo'[p] = todo[p]
  BY <1>1, <1>4 DEF AInv, AttTypes
<1>6. QED
  BY <1>1, <1>2, <1>3, <1>5, AtWork, RequestKeeps DEF AttTypes, AInv, SentOnce, T!Phases

LEMMA ConversationGoes ==
    ASSUME AInv, NEW q \in FileRequests, T!DeleteConversation(q)
    PROVE  AInv'
<1>1. doing[q] # "idle"
  BY DEF T!DeleteConversation, T!Is
<1>2. /\ UNCHANGED <<dirs, linked, committing, job, todo>>
      /\ \A f \in Files : T!Complete(f)' <=> T!Complete(f)
  BY DEF T!DeleteConversation, T!directory, T!uploads, T!Complete
<1>3. CASE T!Go(q, "refused") /\ UNCHANGED <<there, msgs>>
  BY <1>1, <1>2, <1>3, AtWork, RequestKeeps DEF AttTypes, AInv, SentOnce, T!Phases
<1>4. CASE /\ job[q].at \in there /\ T!Go(q, "dispose")
           /\ there' = there \ {job[q].at}
           /\ msgs' = [msgs EXCEPT ![job[q].at] = {}]
  <2>1. /\ msgs' \in [Conversations -> SUBSET FileRequests]
        /\ msgs'[job[q].at] = {}
        /\ \A c \in Conversations : msgs'[c] \subseteq msgs[c]
    BY <1>4 DEF AInv, AttTypes
  <2>2. \A c \in Conversations : c \notin there' => msgs'[c] = {}
    BY <1>4, <2>1 DEF AInv, SentOnce
  <2>3. QED
    BY <1>1, <1>2, <1>4, <2>1, <2>2, AtWork, RequestKeeps DEF AttTypes, AInv, T!Phases
<1>5. QED
  BY <1>3, <1>4 DEF T!DeleteConversation

(* What a deletion goes for was sent to a conversation that is no more.    *)
LEMMA FileGoes ==
    ASSUME AInv, NEW q \in FileRequests, NEW f \in Files, T!DeleteFile(q, f)
    PROVE  AInv'
<1>1. doing[q] = "dispose" /\ f \in todo[q] /\ doing[q] # "idle" /\ job[q].at \notin there
  BY DEF T!DeleteFile, AInv, SentOnce
<1>2. UNCHANGED <<there, msgs, committing, job, doing>>
  BY DEF T!DeleteFile, T!stored, T!uploads
<1>3. /\ dirs' \in [Files -> SUBSET {"temp", "blob", "meta"}]
      /\ linked' \in [Files -> FileRequests \union {None}]
      /\ dirs'[f] = {} /\ \A g \in Files \ {f} : dirs'[g] = dirs[g] /\ linked'[g] = linked[g]
  BY DEF T!DeleteFile, AInv, AttTypes
<1>4. /\ todo' \in [FileRequests -> SUBSET Files] /\ todo'[q] \subseteq todo[q]
      /\ \A p \in FileRequests \ {q} : todo'[p] = todo[p]
  BY DEF T!DeleteFile, AInv, AttTypes
<1>5. \A c \in Conversations : \A p \in msgs[c] : f \notin job[p].files
  <2> SUFFICES ASSUME NEW c \in Conversations, NEW p \in msgs[c], f \in job[p].files
               PROVE  FALSE
    OBVIOUS
  <2>1. PICK r \in FileRequests : Sends(r) /\ f \in job[r].files /\ job[r].at = job[q].at
    BY <1>1 DEF AInv, SentOnce
  <2>2. p = r
    BY <2>1 DEF AInv, AttTypes, SentOnce
  <2>3. c \notin there
    BY <1>1, <2>1, <2>2 DEF AInv, SentOnce
  <2>4. QED
    BY <2>3 DEF AInv, SentOnce
<1>6. \A g \in Files :
          \/ T!Complete(g) /\ linked[g] # None => T!Complete(g)' /\ linked'[g] = linked[g]
          \/ \A c \in Conversations : \A p \in msgs'[c] : g \notin job[p].files
  BY <1>2, <1>3, <1>5 DEF T!Complete
<1>7. QED
  BY <1>1, <1>2, <1>3, <1>4, <1>6, AtWork, RequestKeeps DEF AttTypes, AInv, SentOnce

LEMMA MessageGoes ==
    ASSUME AInv, NEW q \in FileRequests, T!DeleteMessage(q)
    PROVE  AInv'
<1>1. doing[q] = "start" /\ job[q].kind = "deleteMessage" /\ doing[q] # "idle"
  BY DEF T!DeleteMessage, T!Is
<1>2. /\ UNCHANGED <<dirs, linked, there, committing, job, todo>>
      /\ \A f \in Files : T!Complete(f)' <=> T!Complete(f)
  BY DEF T!DeleteMessage, T!directory, T!uploads, T!Complete
<1>3. PICK to \in {"unlink", "done", "refused"} : T!Go(q, to)
  BY DEF T!DeleteMessage
<1>4. /\ msgs' \in [Conversations -> SUBSET FileRequests]
      /\ \A c \in Conversations : msgs'[c] \subseteq msgs[c]
  BY <1>1, AtWork DEF T!DeleteMessage, AttTypes
<1>5. \A c \in Conversations : q \notin msgs[c]
  BY <1>1, AtWork DEF AInv, SentOnce
<1>6. \A c \in Conversations : c \notin there' => msgs'[c] = {}
  BY <1>2, <1>4 DEF AInv, SentOnce
<1>7. QED
  BY <1>1, <1>2, <1>3, <1>4, <1>5, <1>6, AtWork, RequestKeeps DEF AttTypes, AInv, SentOnce, T!Phases

LEMMA AttachmentsKept ==
    ASSUME AInv, AttachmentsNext \/ UploadsNext
    PROVE  AInv'
<1>1. CASE \E f \in Files : T!Uploading(f)
  BY <1>1, UploadKeeps
<1>2. ASSUME NEW f \in NextOf(Files \ Held, doing), T!Begin(f) PROVE AInv'
  BY <1>2, UploadKeeps DEF NextOf, AnyOf, T!Uploading
<1>3. ASSUME NEW q \in NextOf(FileRequests, doing), NEW j \in AttachmentJobs, T!Arrive(q, j)
      PROVE  AInv'
  BY <1>3, FilesArrive DEF NextOf, AnyOf
<1>4. CASE \E q \in FileRequests : T!Sending(q)
  BY <1>4, MovesOnly, QuestionKeeps, LinkKeeps, LaunchKeeps DEF T!Sending
<1>5. CASE \E q \in FileRequests : T!Deleting(q)
  BY <1>5, MovesOnly, RemoveKeeps, OwnedKeeps, ConversationGoes, FileGoes, MessageGoes DEF T!Deleting
<1>6. CASE (\E f \in Files : T!Age(f)) \/ (\E c \in Conversations : T!RunEnds(c)) \/ T!Housekeeping
  BY <1>6, AttAround
<1>7. CASE T!Crash
  BY <1>7, AttDies
<1>8. QED
  BY <1>1, <1>2, <1>3, <1>4, <1>5, <1>6, <1>7 DEF AttachmentsNext, UploadsNext

LEMMA AttachmentsStart ==
    ASSUME Init
    PROVE  AInv
<1>1. T!Resting /\ (T!Init \/ HeldAlready)
  BY DEF Init, T!Init, HeldAlready
<1>2. AttTypes
  BY <1>1 DEF T!Resting, T!Init, HeldAlready, AttTypes, T!Phases
<1>3. SentOnce /\ LinkedIsTheirs
  <2>1. \A q \in FileRequests : doing[q] = "idle" /\ ~ Sends(q) /\ job[q] = None /\ todo[q] = {}
    BY <1>1, TwoKinds, Assumptions DEF T!Resting, T!Init, HeldAlready, Sends, T!Actors, Assumptions
  <2>2. \A c \in Conversations : msgs[c] = {}
    BY <1>1 DEF T!Resting
  <2>3. QED
    BY <2>1, <2>2 DEF SentOnce, LinkedIsTheirs
<1>4. UploadsFit
  <2>1. CASE T!Init
    <3>1. CompleteFiles = {}
      BY <2>1 DEF T!Init, CompleteFiles, T!Complete
    <3>2. T!TotalBytes = 0
      BY <3>1, TotalIs, FS_EmptySet DEF BytesOf
    <3>3. QED
      BY <2>1, <3>1, <3>2, Assumptions
         DEF T!Init, UploadsFit, CompleteFiles, T!Actors, T!QuotaHolds, T!MetadataMeansBytes,
             T!SizeAssumption, Assumptions
  <2>2. CASE HeldAlready
    BY <2>2 DEF HeldAlready, UploadsFit, T!Actors, T!MetadataMeansBytes, T!Complete
  <2>3. QED
    BY <1>1, <2>1, <2>2
<1>5. QED
  BY <1>2, <1>3, <1>4 DEF AInv

(* For any files, requests, conversations, quota and deaths: a file that a *)
(* question refers to is there as long as the question is, with all its    *)
(* bytes, and the account holds no more than its quota (attachments/store.ts, *)
(* create(), delete(); reconcile.ts).                                      *)
THEOREM WhatIsReferredToStays == Spec => []ReferencedStays
<1>1. Init => AInv
  BY AttachmentsStart
<1>2. AInv /\ [Next]_<<part, down, cardVars, attachmentVars, prefVars, fileVars>> => AInv'
  <2> SUFFICES ASSUME AInv, [Next]_<<part, down, cardVars, attachmentVars, prefVars, fileVars>>
               PROVE  AInv'
    OBVIOUS
  <2>1. CASE UNCHANGED attachmentVars
    BY <2>1 DEF attachmentVars, AInv, AttTypes, UploadsFit, SentOnce, LinkedIsTheirs, Sends,
                T!Complete, T!TotalBytes, T!QuotaHolds, T!MetadataMeansBytes
  <2>2. QED
    BY <2>1, AttachmentsKept DEF Next
<1>3. AInv => ReferencedStays
  BY DEF AInv, UploadsFit, LinkedIsTheirs, ReferencedStays, T!ReferencedStays
<1>4. QED
  BY <1>1, <1>2, <1>3, PTL DEF Spec
-----------------------------------------------------------------------------
(* The cards of memories.  A run makes one card, and a second of the same  *)
(* call when its message is stored; whatever is in the file, served, asked *)
(* about or being filed is one of these.                                   *)
Made(r, k) == IF k = 1 THEN call[r] # None ELSE ask[r] # None /\ ask[r].card.nth = 2
Its(r, k) == IF k = 1 THEN call[r] ELSE ask[r].card
Genuine(c) == \E r \in Runs, k \in {1, 2} : Made(r, k) /\ c = Its(r, k)

(* A request that writes a note of its own; whoever applies a card, which  *)
(* only the first of the line does; and whoever is changing the cards.     *)
Puts(a) == a \in CardRequests /\ actor[a] # "idle" /\ asked[a].kind = "put"
Applying(a) == actor[a] \in {"apply", "noteWait", "noteWrite"} /\ ~ Puts(a)
Changing(a) == actor[a] \in {"queued", "write"} \/ Applying(a)

NoteTypes ==
    /\ clock \in Nat
    /\ note \in [Names -> Nat \union {None}]
    /\ \A x \in Names : note[x] # None => note[x] <= clock
    /\ applied \in [Runs \X {1, 2} -> Nat]

CardTypes ==
    /\ filings \in Nat
    /\ line \in Seq(P!Actors)
    /\ call = [r \in Runs |-> call[r]]
    /\ asked = [q \in CardRequests |-> asked[q]]
    /\ ask = [a \in P!Actors |-> ask[a]]
    /\ back = [a \in P!Actors |-> back[a]]
    /\ seen = [a \in P!Actors |-> seen[a]]
    /\ actor = [a \in P!Actors |-> actor[a]]

(* What a card says of itself is so.                                       *)
Fits(r, k) ==
    /\ Its(r, k) \in P!Card
    /\ Its(r, k).run = r /\ Its(r, k).nth = k /\ Its(r, k).op = call[r].op
    /\ Its(r, k).since <= clock
    /\ Its(r, k).base # None => Its(r, k).base <= Its(r, k).since

(* A file of cards: none filed after the last, and one of each run.        *)
FileOfCards(s) ==
    /\ \A i \in DOMAIN s : i \in Nat /\ i <= filings /\ Genuine(s[i])
    /\ \A i, j \in DOMAIN s : s[i].run = s[j].run => i = j

AllGenuine ==
    /\ FileOfCards(cards) /\ \A a \in P!Actors : FileOfCards(seen[a])
    /\ \A c \in shown : Genuine(c)
    /\ \A q \in CardRequests :
          actor[q] # "idle" /\ asked[q].kind = "answer" => Genuine(asked[q].card)
    /\ \A a \in P!Actors :
          Changing(a) /\ ask[a].do \in {"add", "take", "resolve"} => Genuine(ask[a].card)

RunOrder(r) ==
    /\ actor[r] \in {"idle", "streaming"} => call[r] = None /\ ask[r] = None
    /\ ask[r] # None => ask[r].do = "add" /\ call[r] # None
    /\ actor[r] \notin {"apply", "noteWait", "noteWrite"}
    /\ actor[r] = "stored" => call[r] # None
    /\ actor[r] \in {"queued", "write"} => ask[r] # None /\ back[r] \in {"called", "filed"}
    /\ Made(r, 2) => /\ actor[r] \in {"queued", "write", "filed", "done", "lost"}
                     /\ actor[r] \in {"queued", "write"} => back[r] = "filed"

RequestOrder(q) ==
    /\ actor[q] = "idle" <=> asked[q] = None
    /\ actor[q] \in {"queued", "write", "apply"} => ~ Puts(q)
    /\ Changing(q) => back[q] \in {"done", "launch", "unlink"}

AtTheHead(a) ==
    /\ Applying(a) => ask[a].do = "resolve"
    /\ Applying(a) \/ actor[a] = "write" => P!Inside(a)

CardsInv ==
    /\ NoteTypes /\ CardTypes /\ AllGenuine
    /\ \A r \in Runs, k \in {1, 2} : Made(r, k) => Fits(r, k)
    /\ \A r \in Runs : RunOrder(r)
    /\ \A q \in CardRequests : RequestOrder(q)
    /\ \A a \in P!Actors : AtTheHead(a)

(* A change that was made shows on its note, and is refused a second time. *)
Spent(c) ==
    /\ note[c.name] # None
    /\ c.op = "update" => note[c.name] > c.since
MadeOnce(a) ==
    Applying(a) =>
        /\ actor[a] = "noteWait" /\ ask[a].card.op = "update" /\ ask[a].card.base = None
              => applied[P!Id(ask[a].card)] = 0
        /\ actor[a] = "noteWrite" => applied[P!Id(ask[a].card)] = 0
SpentOnce ==
    /\ \A r \in Runs, k \in {1, 2} :
          applied[<<r, k>>] # 0 => applied[<<r, k>>] = 1 /\ Made(r, k) /\ Spent(Its(r, k))
    /\ \A a \in P!Actors : MadeOnce(a)

-----------------------------------------------------------------------------
LEMMA TwoSorts ==
    /\ P!Actors = Runs \union CardRequests
    /\ \A r \in Runs : r \notin CardRequests
BY Assumptions DEF Assumptions, P!NoneAssumption, P!Actors

(* A function that is changed at one place.                                *)
LEMMA ChangedAt ==
    ASSUME NEW S, NEW f, f = [x \in S |-> f[x]], NEW a \in S, NEW v,
           NEW g, g = [f EXCEPT ![a] = v]
    PROVE  g = [x \in S |-> g[x]] /\ g[a] = v /\ \A b \in S \ {a} : g[b] = f[b]
OBVIOUS

LEMMA ActorMoves ==
    ASSUME CardTypes, NEW a \in P!Actors, NEW to, P!Go(a, to)
    PROVE  /\ actor' = [x \in P!Actors |-> actor'[x]]
           /\ actor'[a] = to /\ \A b \in P!Actors \ {a} : actor'[b] = actor[b]
BY ChangedAt DEF CardTypes, P!Go

(* Whoever joins the line or leaves it, the head that stays is the head.   *)
LEMMA LineStays ==
    ASSUME CardTypes, NEW a \in P!Actors,
           line' = line \/ line' = Append(line, a) \/ P!LeaveLine(a)
    PROVE  /\ line' \in Seq(P!Actors)
           /\ \A b \in P!Actors \ {a} : P!Inside(b) => P!Inside(b)'
           /\ line' = line \/ line' = Append(line, a) => (P!Inside(a) => P!Inside(a)')
<1>1. CASE line' = line
  BY <1>1 DEF CardTypes, P!Inside
<1>2. CASE line' = Append(line, a)
  BY <1>2 DEF CardTypes, P!Inside
<1>3. CASE P!LeaveLine(a) /\ ~ P!Inside(a)
  BY <1>3, <1>1 DEF P!LeaveLine
<1>4. CASE P!LeaveLine(a) /\ P!Inside(a)
  <2>1. line' = Tail(line) /\ Tail(line) \in Seq(P!Actors)
    BY <1>4 DEF P!LeaveLine, P!Inside, CardTypes
  <2>2. \A b \in P!Actors \ {a} : ~ P!Inside(b)
    BY <1>4 DEF P!Inside
  <2>3. line' # line /\ line' # Append(line, a)
    BY <1>4, <2>1 DEF P!Inside, CardTypes
  <2>4. QED
    BY <2>1, <2>2, <2>3
<1>5. QED
  BY <1>1, <1>2, <1>3, <1>4

(* What the step of one leaves of the others.                              *)
LEMMA OthersStay ==
    ASSUME CardsInv, NEW a \in P!Actors,
           \A b \in P!Actors \ {a} :
               actor'[b] = actor[b] /\ ask'[b] = ask[b] /\ back'[b] = back[b],
           \A r \in Runs \ {a} : call'[r] = call[r],
           \A q \in CardRequests \ {a} : asked'[q] = asked[q],
           \A b \in P!Actors \ {a} : P!Inside(b) => P!Inside(b)'
    PROVE  /\ \A r \in Runs \ {a} : RunOrder(r)'
           /\ \A q \in CardRequests \ {a} : RequestOrder(q)'
           /\ \A b \in P!Actors \ {a} : AtTheHead(b)'
           /\ \A b \in P!Actors \ {a} : (Changing(b)' <=> Changing(b)) /\ (Applying(b)' <=> Applying(b))
<1>1. \A r \in Runs \ {a} : RunOrder(r)'
  BY TwoSorts DEF CardsInv, RunOrder, Made
<1>2. \A b \in P!Actors \ {a} : (Changing(b)' <=> Changing(b)) /\ (Applying(b)' <=> Applying(b))
  BY TwoSorts DEF Changing, Applying, Puts
<1>3. \A q \in CardRequests \ {a} : RequestOrder(q)'
  BY <1>2, TwoSorts DEF CardsInv, RequestOrder, Puts
<1>4. \A b \in P!Actors \ {a} : AtTheHead(b)'
  BY <1>2, TwoSorts DEF CardsInv, AtTheHead
<1>5. QED
  BY <1>1, <1>2, <1>3, <1>4

(* The cards that were made stay as they are.                              *)
LEMMA StillGenuine ==
    ASSUME \A r \in Runs, k \in {1, 2} : Made(r, k) => Made(r, k)' /\ Its(r, k)' = Its(r, k)
    PROVE  \A c : Genuine(c) => Genuine(c)'
BY DEF Genuine

LEMMA StillAFile ==
    ASSUME \A c : Genuine(c) => Genuine(c)', filings \in Nat, filings' \in Nat, filings <= filings'
    PROVE  \A s : FileOfCards(s) => FileOfCards(s)'
BY DEF FileOfCards

LEMMA GenuineCard ==
    ASSUME CardsInv, NEW c, Genuine(c)
    PROVE  /\ c \in P!Card /\ Made(c.run, c.nth) /\ c = Its(c.run, c.nth)
           /\ c.run \in Runs /\ c.nth \in {1, 2} /\ c.op = call[c.run].op /\ call[c.run] # None
           /\ c.since <= clock /\ c.name \in Names /\ c.since \in Nat
           /\ c.base # None => c.base \in Nat /\ c.base <= c.since
<1>1. PICK r \in Runs, k \in {1, 2} : Made(r, k) /\ c = Its(r, k)
  BY DEF Genuine
<1>2. Fits(r, k)
  BY <1>1 DEF CardsInv
<1>3. c.run = r /\ c.nth = k /\ c \in P!Card
  BY <1>1, <1>2 DEF Fits
<1>4. call[r] # None
  BY <1>1 DEF Made, CardsInv, RunOrder
<1>5. QED
  BY <1>1, <1>2, <1>3, <1>4 DEF Fits, P!Card
-----------------------------------------------------------------------------
(* A step of one of them that makes no card.                               *)
LEMMA SameCards ==
    ASSUME UNCHANGED <<call, ask>>
    PROVE  /\ \A r \in Runs, k \in {1, 2} : Made(r, k)' = Made(r, k) /\ Its(r, k)' = Its(r, k)
           /\ \A c : Genuine(c) => Genuine(c)'
<1>1. \A r \in Runs, k \in {1, 2} : Made(r, k)' = Made(r, k) /\ Its(r, k)' = Its(r, k)
  BY DEF Made, Its
<1>2. QED
  BY <1>1, StillGenuine

LEMMA FileOnward ==
    ASSUME CardsInv, NEW a \in P!Actors, NEW to, P!Go(a, to),
           line' = line \/ P!LeaveLine(a),
           UNCHANGED <<call, asked, ask, back>>,
           filings' \in Nat, filings <= filings', seen' = [b \in P!Actors |-> seen'[b]],
           FileOfCards(cards)', \A b \in P!Actors : FileOfCards(seen[b])',
           \A c \in shown' : Genuine(c),
           NoteTypes', clock <= clock',
           a \in CardRequests => actor[a] # "idle", Changing(a)' => Changing(a),
           a \in Runs => RunOrder(a)', a \in CardRequests => RequestOrder(a)', AtTheHead(a)'
    PROVE  CardsInv'
<1>1. /\ actor' = [x \in P!Actors |-> actor'[x]]
      /\ actor'[a] = to /\ \A b \in P!Actors \ {a} : actor'[b] = actor[b]
  BY ActorMoves DEF CardsInv
<1>2. /\ line' \in Seq(P!Actors)
      /\ \A b \in P!Actors \ {a} : P!Inside(b) => P!Inside(b)'
  BY LineStays DEF CardsInv
<1>3. CardTypes'
  BY <1>1, <1>2 DEF CardsInv, CardTypes
<1>4. /\ \A r \in Runs, k \in {1, 2} : Made(r, k)' = Made(r, k) /\ Its(r, k)' = Its(r, k)
      /\ \A c : Genuine(c) => Genuine(c)'
  BY SameCards
<1>5. /\ \A r \in Runs \ {a} : RunOrder(r)'
      /\ \A q \in CardRequests \ {a} : RequestOrder(q)'
      /\ \A b \in P!Actors \ {a} : AtTheHead(b)'
      /\ \A b \in P!Actors \ {a} : Changing(b)' <=> Changing(b)
  BY <1>1, <1>2, OthersStay
<1>6. AllGenuine'
  <2>1. \A c \in shown' : Genuine(c)'
    BY <1>4
  <2>2. \A q \in CardRequests :
            actor'[q] # "idle" /\ asked'[q].kind = "answer" => Genuine(asked[q].card)'
    BY <1>1, <1>4, TwoSorts DEF CardsInv, AllGenuine
  <2>3. \A b \in P!Actors :
            Changing(b)' /\ ask'[b].do \in {"add", "take", "resolve"} => Genuine(ask[b].card)'
    BY <1>4, <1>5 DEF CardsInv, AllGenuine
  <2>4. QED
    BY <2>1, <2>2, <2>3 DEF AllGenuine
<1>7. \A r \in Runs, k \in {1, 2} : Made(r, k)' => Fits(r, k)'
  <2> SUFFICES ASSUME NEW r \in Runs, NEW k \in {1, 2}, Made(r, k)' PROVE Fits(r, k)'
    OBVIOUS
  <2>1. Fits(r, k) /\ Its(r, k)' = Its(r, k) /\ Its(r, k) \in P!Card
    BY <1>4 DEF CardsInv, Fits
  <2>2. Its(r, k).since <= clock'
    BY <2>1 DEF Fits, P!Card, CardsInv, NoteTypes
  <2>3. QED
    BY <2>1, <2>2 DEF Fits
<1>8. (\A r \in Runs : RunOrder(r)') /\ (\A q \in CardRequests : RequestOrder(q)')
      /\ \A b \in P!Actors : AtTheHead(b)'
  BY <1>5
<1>9. QED
  BY <1>3, <1>6, <1>7, <1>8 DEF CardsInv

(* One that only moves, and may leave the line.                            *)
LEMMA CardsOnward ==
    ASSUME CardsInv, NEW a \in P!Actors, NEW to, P!Go(a, to),
           line' = line \/ P!LeaveLine(a),
           UNCHANGED <<cards, filings, call, asked, ask, back, seen, shown>>,
           NoteTypes', clock <= clock',
           a \in CardRequests => actor[a] # "idle", Changing(a)' => Changing(a),
           a \in Runs => RunOrder(a)', a \in CardRequests => RequestOrder(a)', AtTheHead(a)'
    PROVE  CardsInv'
<1>1. \A c : Genuine(c) => Genuine(c)'
  BY SameCards
<1>2. filings' \in Nat /\ filings <= filings' /\ seen' = [b \in P!Actors |-> seen'[b]]
  BY DEF CardsInv, CardTypes
<1>3. \A s : FileOfCards(s) => FileOfCards(s)'
  BY <1>1, <1>2, StillAFile DEF CardsInv, CardTypes
<1>4. /\ FileOfCards(cards)' /\ \A b \in P!Actors : FileOfCards(seen[b])'
      /\ \A c \in shown' : Genuine(c)
  BY <1>3 DEF CardsInv, AllGenuine
<1>5. QED
  BY <1>2, <1>4, FileOnward

LEMMA NotesStay ==
    ASSUME CardsInv, UNCHANGED <<note, clock, applied>>
    PROVE  NoteTypes' /\ clock <= clock'
BY DEF CardsInv, NoteTypes

LEMMA RunsMove ==
    ASSUME CardsInv, NEW r \in Runs,
           P!Send(r) \/ P!End(r) \/ P!Persist(r) \/ P!Finish(r) \/ P!Recover(r)
    PROVE  CardsInv' /\ UNCHANGED <<call, asked, ask, note, clock, applied>>
<1>1. UNCHANGED <<call, asked, ask, note, clock, applied, line, cards, filings, back, seen, shown>>
  BY DEF P!Send, P!End, P!Persist, P!Finish, P!Recover, P!file, P!notes, P!calls, P!change, P!history
<1>2. PICK to \in {"streaming", "completed", "broken", "stored", "filed", "done"} :
         /\ P!Go(r, to)
         /\ to = "streaming" => actor[r] = "idle"
         /\ to = "stored" => call[r] # None
         /\ to \in {"completed", "broken"} => actor[r] \in {"streaming", "called"}
         /\ to \in {"stored", "filed"} => actor[r] \in {"completed", "broken"}
         /\ actor[r] \notin {"queued", "write"}
  BY DEF P!Send, P!End, P!Persist, P!Finish, P!Recover
<1>3. r \in P!Actors /\ actor'[r] = to
  BY <1>2, TwoSorts, ActorMoves DEF CardsInv
<1>4. RunOrder(r)'
  BY <1>1, <1>2, <1>3 DEF RunOrder, Made, CardsInv
<1>5. ~ Changing(r)' /\ AtTheHead(r)'
  BY <1>3 DEF Changing, Applying, AtTheHead
<1>6. QED
  BY <1>1, <1>2, <1>3, <1>4, <1>5, TwoSorts, NotesStay, CardsOnward

(* Who is applying a card, or writing, is a request at the head.           *)
LEMMA ApplyingIs ==
    ASSUME CardsInv, NEW a \in P!Actors, Applying(a)
    PROVE  /\ a \in CardRequests /\ P!Inside(a) /\ ask[a].do = "resolve" /\ Genuine(ask[a].card)
           /\ P!Target(a) = ask[a].card.name /\ P!Operation(a) = ask[a].card.op
           /\ P!Operation(a) \in {"create", "update", "delete"}
           /\ P!Base(a) = ask[a].card.base
           /\ back[a] \in {"done", "launch", "unlink"}
<1>1. a \in CardRequests /\ P!Inside(a) /\ ask[a].do = "resolve" /\ Genuine(ask[a].card)
  BY TwoSorts DEF CardsInv, RunOrder, AtTheHead, AllGenuine, Changing, Applying
<1>2. actor[a] # "idle" /\ ~ (asked[a].kind = "put")
  BY <1>1 DEF Applying, Puts
<1>3. ask[a].card.op \in {"create", "update", "delete"}
  BY <1>1, GenuineCard DEF P!Card, P!Operations
<1>4. QED
  BY <1>1, <1>2, <1>3 DEF P!Target, P!Operation, P!Base, CardsInv, RequestOrder, Changing

LEMMA PutsIs ==
    ASSUME CardsInv, NEW a \in P!Actors, Puts(a)
    PROVE  /\ a \in CardRequests /\ actor[a] \notin {"idle", "queued", "write", "apply"}
           /\ P!Target(a) = asked[a].name /\ P!Operation(a) = "put"
BY DEF CardsInv, RequestOrder, Puts, P!Target, P!Operation
-----------------------------------------------------------------------------
(* The steps of whoever applies a card, or puts a note.                    *)
LEMMA ApplyMoves ==
    ASSUME CardsInv, NEW q \in CardRequests,
           Applying(q) \/ Puts(q), NEW to \in {"refused", "done", "noteWait", "noteWrite", "write"},
           P!Go(q, to),
           to \in {"noteWait", "noteWrite"} => line' = line,
           to = "write" => Applying(q) /\ line' = line,
           to = "done" => line' = line,
           to = "refused" => P!LeaveLine(q),
           UNCHANGED <<cards, filings, call, asked, ask, back, seen, shown>>,
           NoteTypes', clock <= clock'
    PROVE  CardsInv'
<1>1. q \in P!Actors /\ q \notin Runs /\ actor'[q] = to /\ actor[q] # "idle"
  BY TwoSorts, ActorMoves DEF CardsInv, Applying, Puts
<1>2. line' = line => (P!Inside(q) => P!Inside(q)')
  BY <1>1, LineStays DEF CardsInv
<1>3. Puts(q)' <=> Puts(q)
  BY <1>1 DEF Puts
<1>4. /\ Changing(q)' => Applying(q)
      /\ Applying(q)' => to \in {"noteWait", "noteWrite"}
  BY <1>1, <1>3 DEF Changing, Applying
<1>5. Applying(q) => Changing(q) /\ P!Inside(q) /\ ask[q].do = "resolve"
  BY <1>1 DEF CardsInv, AtTheHead, Changing
<1>6. RequestOrder(q)'
  BY <1>1, <1>3, <1>4, <1>5 DEF CardsInv, RequestOrder, Puts, Applying
<1>7. AtTheHead(q)'
  BY <1>1, <1>2, <1>4, <1>5 DEF AtTheHead, Changing
<1>8. QED
  BY <1>1, <1>4, <1>5, <1>6, <1>7, CardsOnward

LEMMA Looks ==
    ASSUME CardsInv, NEW a \in P!Actors, P!Look(a) \/ P!WriteNoteFails(a)
    PROVE  CardsInv' /\ UNCHANGED <<call, asked, ask, note, clock, applied>>
<1>1. UNCHANGED <<call, asked, ask, note, clock, applied, cards, filings, back, seen, shown>>
  BY DEF P!Look, P!WriteNoteFails, P!file, P!notes, P!calls, P!change, P!history
<1>2. a \in CardRequests /\ (Applying(a) \/ Puts(a))
  BY TwoSorts DEF CardsInv, RunOrder, P!Look, P!WriteNoteFails, Applying
<1>3. PICK to \in {"refused", "noteWait"} :
          /\ P!Go(a, to)
          /\ to = "noteWait" => line' = line
          /\ to = "refused" => P!LeaveLine(a)
  BY DEF P!Look, P!WriteNoteFails, P!Refuse
<1>4. QED
  BY <1>1, <1>2, <1>3, NotesStay, ApplyMoves

LEMMA CheckNoteIs ==
    ASSUME CardsInv, NEW a \in P!Actors, P!CheckNote(a)
    PROVE  /\ a \in CardRequests /\ actor[a] = "noteWait" /\ (Applying(a) \/ Puts(a))
           /\ UNCHANGED <<clock, call, asked, ask, cards, filings, back, seen, shown>>
           /\ \/ /\ P!Go(a, "refused") /\ P!LeaveLine(a) /\ UNCHANGED <<note, applied>>
              \/ /\ P!Operation(a) = "delete" /\ Applying(a)
                 /\ P!Go(a, "write") /\ line' = line
                 /\ note' = [note EXCEPT ![P!Target(a)] = None]
                 /\ \/ applied' = applied
                    \/ applied' = [applied EXCEPT ![P!Id(ask[a].card)] = @ + 1]
              \/ /\ P!Operation(a) # "delete" /\ ~ P!Conflict(a)
                 /\ P!Go(a, "noteWrite") /\ UNCHANGED <<line, note, applied>>
<1>1. actor[a] = "noteWait"
      /\ UNCHANGED <<clock, call, asked, ask, cards, filings, back, seen, shown>>
  BY DEF P!CheckNote, P!file, P!calls, P!change
<1>2. a \in CardRequests /\ (Applying(a) \/ Puts(a))
  BY <1>1, TwoSorts DEF CardsInv, RunOrder, Applying
<1>3. P!Operation(a) = "delete" => Applying(a)
  BY <1>2, PutsIs
<1>4. QED
  BY <1>1, <1>2, <1>3 DEF P!CheckNote, P!Refuse

(* The identity of a card that is applied is that of a call and its turn.  *)
LEMMA IdIs ==
    ASSUME CardsInv, NEW c, Genuine(c)
    PROVE  P!Id(c) \in Runs \X {1, 2} /\ P!Id(c) = <<c.run, c.nth>>
BY GenuineCard DEF P!Id

LEMMA ChecksNote ==
    ASSUME CardsInv, NEW a \in P!Actors, P!CheckNote(a)
    PROVE  CardsInv'
<1>1. CASE P!Go(a, "refused") /\ P!LeaveLine(a) /\ UNCHANGED <<note, applied>>
  BY <1>1, CheckNoteIs, NotesStay, ApplyMoves
<1>2. CASE P!Go(a, "noteWrite") /\ UNCHANGED <<line, note, applied>>
  BY <1>2, CheckNoteIs, NotesStay, ApplyMoves
<1>3. CASE /\ P!Operation(a) = "delete" /\ Applying(a)
           /\ P!Go(a, "write") /\ line' = line
           /\ note' = [note EXCEPT ![P!Target(a)] = None]
           /\ \/ applied' = applied
              \/ applied' = [applied EXCEPT ![P!Id(ask[a].card)] = @ + 1]
  <2>1. P!Id(ask[a].card) \in Runs \X {1, 2}
    BY <1>3, ApplyingIs, IdIs
  <2>2. applied' \in [Runs \X {1, 2} -> Nat]
    BY <1>3, <2>1 DEF CardsInv, NoteTypes
  <2>3. clock' = clock
    BY CheckNoteIs
  <2>4. note' \in [Names -> Nat \union {None}] /\ \A x \in Names : note'[x] # None => note'[x] <= clock'
    BY <1>3, <2>3 DEF CardsInv, NoteTypes
  <2>5. NoteTypes' /\ clock <= clock'
    BY <2>2, <2>3, <2>4 DEF CardsInv, NoteTypes
  <2>6. QED
    BY <1>3, <2>5, CheckNoteIs, ApplyMoves
<1>4. QED
  BY <1>1, <1>2, <1>3, CheckNoteIs

LEMMA WriteNoteIs ==
    ASSUME CardsInv, NEW a \in P!Actors, P!WriteNote(a)
    PROVE  /\ a \in CardRequests /\ actor[a] = "noteWrite" /\ (Applying(a) \/ Puts(a))
           /\ UNCHANGED <<line, call, asked, ask, cards, filings, back, seen, shown>>
           /\ clock' = clock + 1 /\ note' = [note EXCEPT ![P!Target(a)] = clock + 1]
           /\ \/ Puts(a) /\ P!Go(a, "done") /\ UNCHANGED applied
              \/ /\ Applying(a) /\ P!Go(a, "write")
                 /\ applied' = [applied EXCEPT ![P!Id(ask[a].card)] = @ + 1]
<1>1. /\ actor[a] = "noteWrite" /\ clock' = clock + 1 /\ note' = [note EXCEPT ![P!Target(a)] = clock + 1]
      /\ UNCHANGED <<line, call, asked, ask, cards, filings, back, seen, shown>>
  BY DEF P!WriteNote, P!file, P!calls, P!change
<1>2. a \in CardRequests /\ (Applying(a) \/ Puts(a))
  BY <1>1, TwoSorts DEF CardsInv, RunOrder, Applying
<1>3. CASE Applying(a)
  <2>1. P!Operation(a) # "put"
    BY <1>3, ApplyingIs
  <2>2. QED
    BY <1>1, <1>2, <1>3, <2>1 DEF P!WriteNote
<1>4. CASE Puts(a)
  <2>1. P!Operation(a) = "put"
    BY <1>4, PutsIs
  <2>2. QED
    BY <1>1, <1>2, <1>4, <2>1 DEF P!WriteNote
<1>5. QED
  BY <1>2, <1>3, <1>4

LEMMA WritesNote ==
    ASSUME CardsInv, NEW a \in P!Actors, P!WriteNote(a)
    PROVE  CardsInv'
<1>1. clock' \in Nat /\ clock <= clock' /\ clock' = clock + 1
  BY WriteNoteIs DEF CardsInv, NoteTypes
<1>2. note' \in [Names -> Nat \union {None}] /\ \A x \in Names : note'[x] # None => note'[x] <= clock'
  BY <1>1, WriteNoteIs, Assumptions DEF CardsInv, NoteTypes, Assumptions, P!NoneAssumption
<1>3. applied' \in [Runs \X {1, 2} -> Nat]
  <2>1. CASE Applying(a)
    BY <2>1, ApplyingIs, IdIs, WriteNoteIs DEF CardsInv, NoteTypes
  <2>2. QED
    BY <2>1, WriteNoteIs DEF CardsInv, NoteTypes
<1>4. NoteTypes'
  BY <1>1, <1>2, <1>3 DEF NoteTypes
<1>5. QED
  BY <1>1, <1>4, WriteNoteIs, ApplyMoves

(* Others that only move: what is not there, what cannot be written.       *)
LEMMA RestMove ==
    ASSUME CardsInv, NEW a \in P!Actors,
           P!WriteCardsFails(a) \/ (a \in CardRequests /\ (P!NotFound(a) \/ P!Unlink(a)))
    PROVE  CardsInv' /\ UNCHANGED <<call, asked, ask, note, clock, applied>>
<1>1. UNCHANGED <<call, asked, ask, note, clock, applied, cards, filings, back, seen, shown>>
  BY DEF P!WriteCardsFails, P!NotFound, P!Unlink, P!file, P!notes, P!calls, P!change, P!history
<1>2. line' = line \/ P!LeaveLine(a)
  BY DEF P!WriteCardsFails, P!NotFound, P!Unlink
<1>3. PICK to \in {"refused", "done", "clear", "broken"} :
          P!Go(a, to) /\ (a \in Runs => actor[a] = "write" /\ to = IF back[a] = "called" THEN "broken" ELSE "done")
  BY TwoSorts DEF P!WriteCardsFails, P!NotFound, P!Unlink
<1>4. actor'[a] = to /\ (a \in CardRequests => actor[a] # "idle")
  BY <1>3, ActorMoves DEF CardsInv, P!WriteCardsFails, P!NotFound, P!Unlink, P!Is
<1>5. ~ Changing(a)' /\ AtTheHead(a)'
  BY <1>4 DEF Changing, Applying, AtTheHead
<1>6. a \in CardRequests => RequestOrder(a)'
  BY <1>1, <1>4, <1>5 DEF CardsInv, RequestOrder, Puts
<1>7. a \in Runs => RunOrder(a)'
  BY <1>1, <1>3, <1>4 DEF CardsInv, RunOrder, Made
<1>8. QED
  BY <1>1, <1>2, <1>3, <1>4, <1>5, <1>6, <1>7, NotesStay, CardsOnward
-----------------------------------------------------------------------------
(* Whoever joins the line, with a change of the cards.                     *)
LEMMA Joins ==
    ASSUME CardsInv, NEW a \in P!Actors, NEW x, NEW next, P!Enqueue(a, x, next),
           UNCHANGED <<asked, cards, filings, shown, note, clock, applied>>,
           call' = [r \in Runs |-> call'[r]], \A r \in Runs \ {a} : call'[r] = call[r],
           \A r \in Runs, k \in {1, 2} : Made(r, k) => Made(r, k)' /\ Its(r, k)' = Its(r, k),
           \A r \in Runs, k \in {1, 2} : Made(r, k)' => Fits(r, k)',
           x.do \in {"add", "take", "resolve"} => Genuine(x.card)',
           a \in Runs => RunOrder(a)',
           a \in CardRequests => /\ actor[a] # "idle" /\ ~ (asked[a].kind = "put")
                                 /\ next \in {"done", "launch", "unlink"}
    PROVE  CardsInv'
<1>1. /\ actor' = [y \in P!Actors |-> actor'[y]]
      /\ actor'[a] = "queued" /\ \A b \in P!Actors \ {a} : actor'[b] = actor[b]
  BY ActorMoves DEF CardsInv, P!Enqueue
<1>2. /\ line' \in Seq(P!Actors) /\ line' = Append(line, a)
      /\ \A b \in P!Actors \ {a} : P!Inside(b) => P!Inside(b)'
  BY LineStays DEF CardsInv, P!Enqueue
<1>3. /\ ask' = [y \in P!Actors |-> ask'[y]]
      /\ ask'[a] = x /\ \A b \in P!Actors \ {a} : ask'[b] = ask[b]
  BY ChangedAt DEF CardsInv, CardTypes, P!Enqueue
<1>4. /\ back' = [y \in P!Actors |-> back'[y]]
      /\ back'[a] = next /\ \A b \in P!Actors \ {a} : back'[b] = back[b]
  BY ChangedAt DEF CardsInv, CardTypes, P!Enqueue
<1>5. seen' = seen /\ note' = note /\ clock' = clock
  BY DEF P!Enqueue
<1>6. CardTypes' /\ NoteTypes'
  BY <1>1, <1>2, <1>3, <1>4, <1>5 DEF CardsInv, CardTypes, NoteTypes
<1>7. \A c : Genuine(c) => Genuine(c)'
  BY StillGenuine
<1>8. \A s : FileOfCards(s) => FileOfCards(s)'
  BY <1>7, StillAFile DEF CardsInv, CardTypes
<1>9. /\ \A r \in Runs \ {a} : RunOrder(r)'
      /\ \A q \in CardRequests \ {a} : RequestOrder(q)'
      /\ \A b \in P!Actors \ {a} : AtTheHead(b)'
      /\ \A b \in P!Actors \ {a} : Changing(b)' <=> Changing(b)
  BY <1>1, <1>2, <1>3, <1>4, OthersStay
<1>10. a \in CardRequests => RequestOrder(a)'
  BY <1>1, <1>4 DEF CardsInv, RequestOrder, Puts, Changing, Applying
<1>11. AtTheHead(a)'
  BY <1>1 DEF AtTheHead, Applying
<1>12. AllGenuine'
  <2>1. FileOfCards(cards)' /\ \A b \in P!Actors : FileOfCards(seen[b])'
    BY <1>5, <1>8 DEF CardsInv, AllGenuine, FileOfCards
  <2>2. \A c \in shown' : Genuine(c)'
    BY <1>7 DEF CardsInv, AllGenuine
  <2>3. \A q \in CardRequests :
            actor'[q] # "idle" /\ asked'[q].kind = "answer" => Genuine(asked[q].card)'
    BY <1>1, <1>7, TwoSorts DEF CardsInv, AllGenuine
  <2>4. \A b \in P!Actors :
            Changing(b)' /\ ask'[b].do \in {"add", "take", "resolve"} => Genuine(ask[b].card)'
    BY <1>3, <1>7, <1>9 DEF CardsInv, AllGenuine
  <2>5. QED
    BY <2>1, <2>2, <2>3, <2>4 DEF AllGenuine
<1>13. (\A r \in Runs : RunOrder(r)') /\ (\A q \in CardRequests : RequestOrder(q)')
       /\ \A b \in P!Actors : AtTheHead(b)'
  BY <1>9, <1>10, <1>11
<1>14. QED
  BY <1>6, <1>12, <1>13 DEF CardsInv
LEMMA CardForIs ==
    ASSUME CardsInv, NEW r \in Runs, NEW k \in {1, 2}, NEW op \in P!Operations, NEW n \in Names
    PROVE  /\ P!CardFor(r, k, op, n) \in P!Card
           /\ P!CardFor(r, k, op, n) # None
           /\ [do |-> "add", card |-> P!CardFor(r, k, op, n)] # None
           /\ P!CardFor(r, k, op, n).run = r /\ P!CardFor(r, k, op, n).nth = k
           /\ P!CardFor(r, k, op, n).op = op /\ P!CardFor(r, k, op, n).since = clock
           /\ P!CardFor(r, k, op, n).base # None => P!CardFor(r, k, op, n).base <= clock
<1> DEFINE c == P!CardFor(r, k, op, n)
<1>1. c = [run |-> r, nth |-> k, op |-> op, name |-> n,
           base |-> IF op = "create" THEN None ELSE note[n], since |-> clock]
  BY DEF P!CardFor
<1>2. (IF op = "create" THEN None ELSE note[n]) \in Nat \union {None} /\ clock \in Nat
  BY DEF CardsInv, NoteTypes
<1>3. c \in P!Card
  BY <1>1, <1>2 DEF P!Card
<1>4. [do |-> "add", card |-> c] \in P!Change
  BY <1>3 DEF P!Change
<1>5. c.base # None => c.base <= clock
  BY <1>1 DEF CardsInv, NoteTypes
<1>6. QED
  BY <1>1, <1>3, <1>4, <1>5, Assumptions DEF Assumptions, P!NoneAssumption

LEMMA RunCalls ==
    ASSUME CardsInv, NEW r \in Runs, NEW op \in P!Operations, NEW n \in Names, P!Call(r, op, n)
    PROVE  /\ CardsInv' /\ UNCHANGED <<asked, note, clock, applied>>
           /\ call[r] = None /\ call' = [call EXCEPT ![r] = P!CardFor(r, 1, op, n)]
           /\ ask[r] = None /\ ask' = [ask EXCEPT ![r] = [do |-> "add", card |-> P!CardFor(r, 1, op, n)]]
           /\ ~ Applying(r) /\ ~ Applying(r)'
<1>0. PICK c : c = P!CardFor(r, 1, op, n)
  OBVIOUS
<1> DEFINE x == [do |-> "add", card |-> c]
<1>1. /\ actor[r] = "streaming" /\ call' = [call EXCEPT ![r] = c] /\ P!Enqueue(r, x, "called")
      /\ UNCHANGED <<asked, cards, filings, shown, note, clock, applied>>
  BY <1>0 DEF P!Call, P!file, P!notes, P!history
<1>2. call[r] = None /\ ask[r] = None /\ r \in P!Actors /\ r \notin CardRequests
  BY <1>1, TwoSorts DEF CardsInv, RunOrder
<1>3. /\ c \in P!Card /\ c # None /\ x # None
      /\ c.run = r /\ c.nth = 1 /\ c.op = op /\ c.since = clock
      /\ c.base # None => c.base <= clock
  BY <1>0, CardForIs
<1>4. /\ call' = [s \in Runs |-> call'[s]]
      /\ call'[r] = c /\ \A s \in Runs \ {r} : call'[s] = call[s]
  BY <1>1, ChangedAt DEF CardsInv, CardTypes
<1>5. /\ ask' = [ask EXCEPT ![r] = x]
      /\ ask'[r] = x /\ \A s \in P!Actors \ {r} : ask'[s] = ask[s]
  BY <1>1, <1>2, ChangedAt DEF CardsInv, CardTypes, P!Enqueue
<1>6. actor'[r] = "queued" /\ back'[r] = "called"
  BY <1>1, <1>2, ChangedAt, ActorMoves DEF CardsInv, CardTypes, P!Enqueue
<1>7. ~ Made(r, 2)' /\ ~ Made(r, 1) /\ ~ Made(r, 2) /\ Made(r, 1)' /\ Its(r, 1)' = c
  BY <1>2, <1>3, <1>4, <1>5 DEF Made, Its
<1>8. \A s \in Runs \ {r}, k \in {1, 2} : Made(s, k)' = Made(s, k) /\ Its(s, k)' = Its(s, k)
  BY <1>4, <1>5, TwoSorts DEF Made, Its
<1>9. Fits(r, 1)'
  BY <1>1, <1>3, <1>4, <1>7 DEF Fits, CardsInv, NoteTypes
<1>10. \A s \in Runs, k \in {1, 2} : Made(s, k) => Made(s, k)' /\ Its(s, k)' = Its(s, k)
  BY <1>7, <1>8
<1>11. \A s \in Runs, k \in {1, 2} : Made(s, k)' => Fits(s, k)'
  <2>1. \A s \in Runs \ {r}, k \in {1, 2} : Fits(s, k)' = Fits(s, k)
    BY <1>1, <1>4, <1>8 DEF Fits
  <2>2. QED
    BY <1>7, <1>8, <1>9, <2>1 DEF CardsInv
<1>12. RunOrder(r)'
  BY <1>3, <1>4, <1>5, <1>6, <1>7 DEF RunOrder
<1>13. Genuine(c)'
  BY <1>7 DEF Genuine
<1>14. CardsInv'
  BY <1>1, <1>2, <1>4, <1>10, <1>11, <1>12, <1>13, Joins
<1>15. QED
  BY <1>0, <1>1, <1>2, <1>5, <1>6, <1>14 DEF Applying

LEMMA RunRecords ==
    ASSUME CardsInv, NEW r \in Runs, P!Record(r)
    PROVE  /\ CardsInv' /\ UNCHANGED <<call, asked, note, clock, applied>>
           /\ ~ Made(r, 2)
           /\ \A s \in P!Actors \ {r} : ask'[s] = ask[s]
           /\ ~ Applying(r) /\ ~ Applying(r)'
<1>0. PICK c : c = P!CardFor(r, 2, call[r].op, call[r].name)
  OBVIOUS
<1> DEFINE x == [do |-> "add", card |-> c]
<1>1. /\ actor[r] = "stored" /\ call' = call /\ P!Enqueue(r, x, "filed")
      /\ UNCHANGED <<asked, cards, filings, shown, note, clock, applied>>
  BY <1>0 DEF P!Record, P!file, P!notes, P!calls, P!history
<1>2. call[r] # None /\ ~ Made(r, 2) /\ r \in P!Actors /\ r \notin CardRequests
  BY <1>1, TwoSorts DEF CardsInv, RunOrder
<1>3. call[r].op \in P!Operations /\ call[r].name \in Names
  <2>1. Made(r, 1) /\ Its(r, 1) = call[r]
    BY <1>2 DEF Made, Its
  <2>2. QED
    BY <2>1 DEF CardsInv, Fits, P!Card
<1>4. /\ c \in P!Card /\ c # None /\ x # None
      /\ c.run = r /\ c.nth = 2 /\ c.op = call[r].op /\ c.since = clock
      /\ c.base # None => c.base <= clock
  BY <1>0, <1>3, CardForIs
<1>5. ask'[r] = x /\ \A s \in P!Actors \ {r} : ask'[s] = ask[s]
  BY <1>1, <1>2, ChangedAt DEF CardsInv, CardTypes, P!Enqueue
<1>6. actor'[r] = "queued" /\ back'[r] = "filed"
  BY <1>1, <1>2, ChangedAt, ActorMoves DEF CardsInv, CardTypes, P!Enqueue
<1>7. Made(r, 2)' /\ Its(r, 2)' = c
  BY <1>4, <1>5 DEF Made, Its
<1>8. /\ \A s \in Runs \ {r}, k \in {1, 2} : Made(s, k)' = Made(s, k) /\ Its(s, k)' = Its(s, k)
      /\ Made(r, 1)' = Made(r, 1) /\ Its(r, 1)' = Its(r, 1)
  BY <1>1, <1>5, TwoSorts DEF Made, Its
<1>9. Fits(r, 2)'
  BY <1>1, <1>4, <1>7 DEF Fits, CardsInv, NoteTypes
<1>10. \A s \in Runs, k \in {1, 2} : Made(s, k) => Made(s, k)' /\ Its(s, k)' = Its(s, k)
  BY <1>2, <1>8
<1>11. \A s \in Runs, k \in {1, 2} : Made(s, k)' => Fits(s, k)'
  <2>1. /\ \A s \in Runs \ {r}, k \in {1, 2} : Fits(s, k)' = Fits(s, k)
        /\ Fits(r, 1)' = Fits(r, 1)
    BY <1>1, <1>8 DEF Fits
  <2>2. QED
    BY <1>8, <1>9, <2>1 DEF CardsInv
<1>12. RunOrder(r)'
  BY <1>1, <1>2, <1>4, <1>5, <1>6, <1>7 DEF RunOrder
<1>13. Genuine(c)'
  BY <1>7 DEF Genuine
<1>14. call' = [s \in Runs |-> call'[s]]
  BY <1>1 DEF CardsInv, CardTypes
<1>15. CardsInv'
  BY <1>1, <1>2, <1>10, <1>11, <1>12, <1>13, <1>14, Joins
<1>16. QED
  BY <1>1, <1>2, <1>5, <1>6, <1>15 DEF Applying

(* A request joins the line, or is told no before.                         *)
LEMMA RequestsJoin ==
    ASSUME CardsInv, NEW q \in CardRequests,
           P!Get(q) \/ P!Answer(q) \/ P!Regenerate(q) \/ P!DeleteMessage(q)
    PROVE  /\ CardsInv' /\ UNCHANGED <<call, asked, note, clock, applied>>
           /\ \A s \in P!Actors \ {q} : ask'[s] = ask[s]
           /\ ~ Applying(q) /\ ~ Applying(q)'
<1>1. /\ q \in P!Actors /\ q \notin Runs /\ actor[q] = "start" /\ ~ (asked[q].kind = "put")
      /\ UNCHANGED <<call, asked, cards, filings, shown, note, clock, applied>>
  BY TwoSorts DEF P!Get, P!Answer, P!Regenerate, P!DeleteMessage, P!Is, P!file, P!notes, P!calls, P!history
<1>2. CASE P!Go(q, "refused") /\ line' = line /\ UNCHANGED P!change
  <2>1. actor'[q] = "refused" /\ UNCHANGED <<ask, back, seen>>
    BY <1>1, <1>2, ActorMoves DEF CardsInv, P!change
  <2>2. ~ Changing(q)' /\ AtTheHead(q)' /\ RequestOrder(q)'
    BY <1>1, <2>1 DEF Changing, Applying, AtTheHead, CardsInv, RequestOrder, Puts
  <2>3. CardsInv'
    BY <1>1, <1>2, <2>1, <2>2, NotesStay, CardsOnward
  <2>4. QED
    BY <1>1, <2>1, <2>3 DEF Applying
<1>3. ASSUME NEW x, NEW next \in {"done", "launch", "unlink"}, P!Enqueue(q, x, next),
             x.do \in {"add", "take", "resolve"} => Genuine(x.card)
      PROVE  /\ CardsInv'
             /\ \A s \in P!Actors \ {q} : ask'[s] = ask[s]
             /\ ~ Applying(q) /\ ~ Applying(q)'
  <2>1. ask'[q] = x /\ \A s \in P!Actors \ {q} : ask'[s] = ask[s]
    BY <1>1, <1>3, ChangedAt DEF CardsInv, CardTypes, P!Enqueue
  <2>2. \A s \in Runs, k \in {1, 2} : Made(s, k)' = Made(s, k) /\ Its(s, k)' = Its(s, k)
    BY <1>1, <2>1, TwoSorts DEF Made, Its
  <2>3. \A s \in Runs, k \in {1, 2} : Made(s, k)' => Fits(s, k)'
    BY <1>1, <2>2 DEF CardsInv, Fits
  <2>4. \A c : Genuine(c) => Genuine(c)'
    BY <2>2, StillGenuine
  <2>5. call' = [s \in Runs |-> call'[s]]
    BY <1>1 DEF CardsInv, CardTypes
  <2>6. CardsInv'
    BY <1>1, <1>3, <2>2, <2>3, <2>4, <2>5, Joins
  <2>7. actor'[q] = "queued"
    BY <1>1, <1>3, ActorMoves DEF CardsInv, P!Enqueue
  <2>8. QED
    BY <1>1, <2>1, <2>6, <2>7 DEF Applying
<1>4. CASE P!Answer(q)
  <2>1. Genuine(asked[q].card)
    BY <1>1, <1>4 DEF CardsInv, AllGenuine, P!Answer, P!Is
  <2>2. QED
    BY <1>1, <1>3, <1>4, <2>1 DEF P!Answer
<1>5. CASE P!Get(q) \/ P!Regenerate(q) \/ P!DeleteMessage(q)
  <2>1. CASE P!Get(q)
    BY <1>1, <1>3, <2>1 DEF P!Get
  <2>2. CASE P!Regenerate(q)
    BY <1>1, <1>2, <1>3, <2>2 DEF P!Regenerate, P!change
  <2>3. CASE P!DeleteMessage(q)
    BY <1>1, <1>2, <1>3, <2>3 DEF P!DeleteMessage, P!change
  <2>4. QED
    BY <1>5, <2>1, <2>2, <2>3
<1>6. QED
  BY <1>1, <1>4, <1>5
-----------------------------------------------------------------------------
(* Whoever is in the line goes on within it, writes, or leaves.            *)
LEMMA LineMoves ==
    ASSUME CardsInv, NEW a \in P!Actors, actor[a] \in {"queued", "write"}, NEW to, P!Go(a, to),
           UNCHANGED <<call, asked, ask, back>>,
           \/ to = "refused" /\ a \in CardRequests
           \/ to = back[a]
           \/ to = "write" /\ P!Inside(a) /\ line' = line
           \/ to = "apply" /\ P!Inside(a) /\ line' = line /\ ask[a].do = "resolve"
    PROVE  /\ Changing(a)' => Changing(a)
           /\ a \in Runs => RunOrder(a)'
           /\ a \in CardRequests => RequestOrder(a)' /\ actor[a] # "idle"
           /\ AtTheHead(a)'
<1>1. actor'[a] = to /\ Changing(a)
  BY ActorMoves DEF CardsInv, Changing
<1>2. P!Inside(a) /\ line' = line => P!Inside(a)'
  BY DEF P!Inside
<1>3. CASE a \in Runs
  <2>1. /\ a \notin CardRequests /\ ask[a] # None /\ ask[a].do = "add"
        /\ back[a] \in {"called", "filed"}
    BY <1>3, TwoSorts DEF CardsInv, RunOrder
  <2>2. RunOrder(a)'
    BY <1>1, <1>3, <2>1 DEF CardsInv, RunOrder, Made
  <2>3. AtTheHead(a)'
    BY <1>1, <1>2, <2>1 DEF AtTheHead, Applying
  <2>4. QED
    BY <1>1, <2>1, <2>2, <2>3
<1>4. CASE a \in CardRequests
  <2>1. /\ a \notin Runs /\ ~ Puts(a) /\ back[a] \in {"done", "launch", "unlink"}
        /\ asked[a] # None
    BY <1>1, <1>4, TwoSorts DEF CardsInv, RequestOrder
  <2>2. ~ (asked[a].kind = "put")
    BY <1>4, <2>1 DEF Puts
  <2>3. RequestOrder(a)'
    BY <1>1, <1>4, <2>1, <2>2 DEF RequestOrder, Puts
  <2>4. AtTheHead(a)'
    BY <1>1, <1>2, <2>1 DEF AtTheHead, Applying
  <2>5. QED
    BY <1>1, <2>1, <2>3, <2>4
<1>5. QED
  BY <1>3, <1>4, TwoSorts

LEMMA Enters ==
    ASSUME CardsInv, NEW a \in P!Actors, P!Enter(a)
    PROVE  CardsInv' /\ UNCHANGED <<call, asked, ask, note, clock, applied>>
<1>1. /\ actor[a] = "queued" /\ P!Inside(a) /\ seen' = [seen EXCEPT ![a] = cards]
      /\ UNCHANGED <<call, asked, ask, back, note, clock, applied, cards, filings>>
  BY DEF P!Enter, P!file, P!notes, P!calls
<1>2. PICK to :
        /\ P!Go(a, to)
        /\ line' = line \/ P!LeaveLine(a)
        /\ \/ to = "refused" /\ ask[a].do \in {"take", "resolve"}
           \/ to = back[a]
           \/ to = "write" /\ line' = line
           \/ to = "apply" /\ line' = line /\ ask[a].do = "resolve"
        /\ shown' = shown \/ shown' = shown \union P!Contents(cards)
  BY DEF P!Enter, P!Gone, P!Answers, P!Served
<1>3. to = "refused" => a \in CardRequests
  BY <1>1, <1>2, TwoSorts DEF CardsInv, RunOrder
<1>4. /\ Changing(a)' => Changing(a)
      /\ a \in Runs => RunOrder(a)'
      /\ a \in CardRequests => RequestOrder(a)' /\ actor[a] # "idle"
      /\ AtTheHead(a)'
  BY <1>1, <1>2, <1>3, LineMoves
<1>5. /\ seen' = [b \in P!Actors |-> seen'[b]]
      /\ seen'[a] = cards /\ \A b \in P!Actors \ {a} : seen'[b] = seen[b]
  BY <1>1, ChangedAt DEF CardsInv, CardTypes
<1>6. \A c : Genuine(c) => Genuine(c)'
  BY <1>1, SameCards
<1>7. filings' \in Nat /\ filings <= filings'
  BY <1>1 DEF CardsInv, CardTypes
<1>8. \A s : FileOfCards(s) => FileOfCards(s)'
  BY <1>6, <1>7, StillAFile DEF CardsInv, CardTypes
<1>9. FileOfCards(cards)'
  BY <1>1, <1>8 DEF CardsInv, AllGenuine
<1>10. \A b \in P!Actors : FileOfCards(seen[b])'
  BY <1>5, <1>8, <1>9, <1>1 DEF CardsInv, AllGenuine
<1>11. \A c \in shown' : Genuine(c)
  BY <1>2 DEF P!Contents, CardsInv, AllGenuine, FileOfCards
<1>12. CardsInv'
  BY <1>1, <1>2, <1>4, <1>5, <1>7, <1>9, <1>10, <1>11, NotesStay, FileOnward
<1>13. QED
  BY <1>1, <1>12

(* What a change makes of a file of cards.                                 *)
LEMMA Leftovers ==
    ASSUME NEW s, FileOfCards(s), NEW dropped
    PROVE  FileOfCards(P!Without(s, dropped))
           /\ DOMAIN P!Without(s, dropped) \subseteq DOMAIN s
<1> DEFINE t == P!Without(s, dropped)
<1>1. DOMAIN t = {i \in DOMAIN s : s[i] \notin dropped} /\ \A i \in DOMAIN t : t[i] = s[i]
  BY DEF P!Without, P!Restrict
<1>2. QED
  BY <1>1 DEF FileOfCards

LEMMA FiledIs ==
    ASSUME NEW s, FileOfCards(s), NEW c, Genuine(c), filings \in Nat, NEW t, t = P!Filed(s, c)
    PROVE  /\ \A i \in DOMAIN t : i \in Nat /\ (i <= filings \/ i = filings + 1) /\ Genuine(t[i])
           /\ \A i, j \in DOMAIN t : t[i].run = t[j].run => i = j
<1> DEFINE w == P!With(s, c)
<1>1. CASE t = s
  BY <1>1 DEF FileOfCards
<1>2. CASE t # s
  <2>1. \A i \in DOMAIN s : s[i].run # c.run
    BY <1>2 DEF P!Filed, P!Contents
  <2>2. /\ DOMAIN w = DOMAIN s \union {filings + 1}
        /\ \A i \in DOMAIN w : w[i] = IF i = filings + 1 THEN c ELSE s[i]
    BY DEF P!With
  <2>3. filings + 1 \notin DOMAIN s
    BY DEF FileOfCards
  <2>4. t = w \/ t = P!Without(w, P!Oldest(w))
    BY <1>2 DEF P!Filed
  <2>5. DOMAIN t \subseteq DOMAIN w /\ \A i \in DOMAIN t : t[i] = w[i]
    BY <2>4 DEF P!Without, P!Restrict
  <2> HIDE DEF w
  <2>6. \A i \in DOMAIN w : i \in Nat /\ (i <= filings \/ i = filings + 1) /\ Genuine(w[i])
    BY <2>2, <2>3 DEF FileOfCards
  <2>7. \A i, j \in DOMAIN w : w[i].run = w[j].run => i = j
    BY <2>1, <2>2, <2>3 DEF FileOfCards
  <2>8. QED
    BY <2>5, <2>6, <2>7
<1>3. QED
  BY <1>1, <1>2

LEMMA WritesCards ==
    ASSUME CardsInv, NEW a \in P!Actors, P!WriteCards(a)
    PROVE  CardsInv' /\ UNCHANGED <<call, asked, ask, note, clock, applied>>
<1>0. PICK rest : rest = P!Effect(ask[a], seen[a])
  OBVIOUS
<1>1. /\ actor[a] = "write" /\ cards' = rest
      /\ filings' = IF filings + 1 \in DOMAIN rest THEN filings + 1 ELSE filings
      /\ shown' = shown \/ shown' = shown \union P!Contents(rest)
      /\ P!LeaveLine(a) /\ P!Go(a, back[a])
      /\ UNCHANGED <<call, asked, ask, back, seen, note, clock, applied>>
  BY <1>0 DEF P!WriteCards, P!Served, P!notes, P!calls, P!change
<1>2. /\ Changing(a)' => Changing(a)
      /\ a \in Runs => RunOrder(a)'
      /\ a \in CardRequests => RequestOrder(a)' /\ actor[a] # "idle"
      /\ AtTheHead(a)'
  BY <1>1, LineMoves
<1>3. FileOfCards(seen[a]) /\ filings \in Nat
  BY DEF CardsInv, AllGenuine, CardTypes
<1>4. /\ \A i \in DOMAIN rest : i \in Nat /\ (i <= filings \/ i = filings + 1) /\ Genuine(rest[i])
      /\ \A i, j \in DOMAIN rest : rest[i].run = rest[j].run => i = j
  <2>1. CASE ask[a].do = "add"
    <3>1. Genuine(ask[a].card)
      BY <1>1, <2>1 DEF CardsInv, AllGenuine, Changing
    <3>2. rest = P!Filed(seen[a], ask[a].card)
      BY <1>0, <2>1 DEF P!Effect
    <3>3. QED
      BY <1>3, <3>1, <3>2, FiledIs
  <2>2. CASE ask[a].do # "add"
    <3>1. rest = P!Without(seen[a], P!Dropped(ask[a], seen[a]))
      BY <1>0, <2>2 DEF P!Effect
    <3>2. FileOfCards(rest)
      BY <1>3, <3>1, Leftovers
    <3>3. QED
      BY <3>2 DEF FileOfCards
  <2>3. QED
    BY <2>1, <2>2
<1>5. filings' \in Nat /\ filings <= filings' /\ \A i \in DOMAIN rest : i <= filings'
  BY <1>1, <1>3, <1>4
<1>6. \A c : Genuine(c) => Genuine(c)'
  BY <1>1, SameCards
<1>7. FileOfCards(cards)'
  BY <1>1, <1>4, <1>5, <1>6 DEF FileOfCards
<1>8. \A b \in P!Actors : FileOfCards(seen[b])'
  BY <1>1, <1>5, <1>6, StillAFile DEF CardsInv, AllGenuine, CardTypes
<1>9. \A c \in shown' : Genuine(c)
  BY <1>1, <1>4 DEF P!Contents, CardsInv, AllGenuine
<1>10. seen' = [b \in P!Actors |-> seen'[b]]
  BY <1>1 DEF CardsInv, CardTypes
<1>11. CardsInv'
  BY <1>1, <1>2, <1>5, <1>7, <1>8, <1>9, <1>10, NotesStay, FileOnward
<1>12. QED
  BY <1>1, <1>11
-----------------------------------------------------------------------------
(* Steps of several: another run is launched; the process dies.            *)
LEMMA Together ==
    ASSUME CardsInv,
           UNCHANGED <<cards, filings, call, asked, ask, back, seen, shown, note, clock, applied>>,
           line' \in Seq(P!Actors), actor' = [a \in P!Actors |-> actor'[a]],
           \A a \in P!Actors : Changing(a)' => Changing(a),
           \A q \in CardRequests : actor[q] = "idle" <=> actor'[q] = "idle",
           \A r \in Runs : RunOrder(r)', \A q \in CardRequests : RequestOrder(q)',
           \A a \in P!Actors : AtTheHead(a)'
    PROVE  CardsInv'
<1>1. NoteTypes' /\ CardTypes'
  BY DEF CardsInv, NoteTypes, CardTypes
<1>2. /\ \A r \in Runs, k \in {1, 2} : Made(r, k)' = Made(r, k) /\ Its(r, k)' = Its(r, k)
      /\ \A c : Genuine(c) => Genuine(c)'
  BY SameCards
<1>3. \A s : FileOfCards(s) => FileOfCards(s)'
  BY <1>2, StillAFile DEF CardsInv, CardTypes
<1>4. AllGenuine'
  <2>1. /\ FileOfCards(cards)' /\ \A b \in P!Actors : FileOfCards(seen[b])'
        /\ \A c \in shown' : Genuine(c)'
    BY <1>2, <1>3 DEF CardsInv, AllGenuine
  <2>2. \A q \in CardRequests :
            actor'[q] # "idle" /\ asked'[q].kind = "answer" => Genuine(asked[q].card)'
    BY <1>2 DEF CardsInv, AllGenuine
  <2>3. \A b \in P!Actors :
            Changing(b)' /\ ask'[b].do \in {"add", "take", "resolve"} => Genuine(ask[b].card)'
    BY <1>2 DEF CardsInv, AllGenuine
  <2>4. QED
    BY <2>1, <2>2, <2>3 DEF AllGenuine
<1>5. \A r \in Runs, k \in {1, 2} : Made(r, k)' => Fits(r, k)'
  BY <1>2 DEF CardsInv, Fits
<1>6. QED
  BY <1>1, <1>4, <1>5 DEF CardsInv

LEMMA LaunchesAgain ==
    ASSUME CardsInv, NEW q \in CardRequests, P!LaunchAgain(q)
    PROVE  /\ CardsInv' /\ UNCHANGED <<call, asked, ask, note, clock, applied>>
           /\ \A a \in P!Actors : Applying(a)' => Applying(a) /\ actor'[a] = actor[a]
<1>1. /\ actor[q] = "launch"
      /\ UNCHANGED <<line, cards, filings, call, asked, ask, back, seen, shown, note, clock, applied>>
  BY DEF P!LaunchAgain, P!file, P!notes, P!calls, P!change, P!history
<1>2. /\ actor' = [a \in P!Actors |-> actor'[a]]
      /\ actor'[q] = "done"
      /\ \A a \in P!Actors \ {q} :
            actor'[a] = actor[a] \/ (a \in Runs /\ actor[a] = "idle" /\ actor'[a] = "streaming")
  <2> DEFINE idle == {r \in Runs : actor[r] = "idle"}
  <2>1. CASE idle = {}
    BY <2>1, TwoSorts, ActorMoves DEF P!LaunchAgain, CardsInv
  <2>2. CASE idle # {}
    <3>1. PICK r \in idle : actor' = [actor EXCEPT ![q] = "done", ![r] = "streaming"]
      BY <2>2 DEF P!LaunchAgain
    <3>2. QED
      BY <3>1, TwoSorts DEF CardsInv, CardTypes
  <2>3. QED
    BY <2>1, <2>2
<1>3. \A a \in P!Actors : /\ Changing(a)' => Changing(a) /\ actor'[a] = actor[a]
                          /\ Applying(a)' => Applying(a) /\ actor'[a] = actor[a]
  BY <1>1, <1>2, TwoSorts DEF Changing, Applying, Puts
<1>4. \A r \in Runs : RunOrder(r)'
  BY <1>1, <1>2, TwoSorts DEF CardsInv, RunOrder, Made
<1>5. \A p \in CardRequests : RequestOrder(p)' /\ (actor[p] = "idle" <=> actor'[p] = "idle")
  BY <1>1, <1>2, <1>3, TwoSorts DEF CardsInv, RequestOrder, Puts
<1>6. \A a \in P!Actors : AtTheHead(a)'
  BY <1>1, <1>2, <1>3, TwoSorts DEF CardsInv, AtTheHead, P!Inside
<1>7. line' \in Seq(P!Actors)
  BY <1>1 DEF CardsInv, CardTypes
<1>8. CardsInv'
  BY <1>1, <1>2, <1>3, <1>4, <1>5, <1>6, <1>7, Together
<1>9. QED
  BY <1>1, <1>3, <1>8

LEMMA CardsDie ==
    ASSUME CardsInv, P!Crash
    PROVE  /\ CardsInv' /\ UNCHANGED <<call, asked, ask, note, clock, applied>>
           /\ \A a \in P!Actors : ~ Applying(a)'
<1>1. /\ UNCHANGED <<cards, filings, call, asked, ask, back, seen, shown, note, clock, applied>>
      /\ line' = << >>
      /\ actor' = [a \in P!Actors |-> IF actor[a] \in {"idle", "done", "refused"} THEN actor[a] ELSE "lost"]
  BY DEF P!Crash, P!file, P!calls, P!change, P!history
<1>2. /\ actor' = [a \in P!Actors |-> actor'[a]]
      /\ \A a \in P!Actors :
            actor'[a] = IF actor[a] \in {"idle", "done", "refused"} THEN actor[a] ELSE "lost"
  BY <1>1
<1>3. \A a \in P!Actors : ~ Changing(a)' /\ ~ Applying(a)' /\ AtTheHead(a)'
  BY <1>2 DEF Changing, Applying, AtTheHead
<1>4. \A r \in Runs : RunOrder(r)'
  BY <1>1, <1>2, TwoSorts DEF CardsInv, RunOrder, Made
<1>5. \A p \in CardRequests : RequestOrder(p)' /\ (actor[p] = "idle" <=> actor'[p] = "idle")
  BY <1>1, <1>2, <1>3, TwoSorts DEF CardsInv, RequestOrder, Puts
<1>6. CardsInv'
  BY <1>1, <1>2, <1>3, <1>4, <1>5, Together
<1>7. QED
  BY <1>1, <1>3, <1>6

(* The cards of a conversation go with it; a note is removed.              *)
LEMMA Clears ==
    ASSUME CardsInv, NEW q \in CardRequests, P!Clear(q) \/ P!RemoveNote(q)
    PROVE  /\ CardsInv' /\ UNCHANGED <<call, asked, ask, clock, applied>>
           /\ P!Clear(q) => note' = note
           /\ P!RemoveNote(q) => actor[q] = "start" /\ asked[q].kind = "removeNote"
           /\ ~ Applying(q) /\ ~ Applying(q)'
<1>1. /\ UNCHANGED <<line, call, asked, ask, back, seen, shown, filings, clock, applied>>
      /\ P!Clear(q) => note' = note
      /\ P!RemoveNote(q) => actor[q] = "start" /\ asked[q].kind = "removeNote"
      /\ actor[q] \in {"clear", "start"} /\ q \in P!Actors /\ q \notin Runs
  BY TwoSorts DEF P!Clear, P!RemoveNote, P!Is, P!file, P!notes, P!calls, P!change, P!history
<1>2. PICK to \in {"done", "refused"} : P!Go(q, to)
  BY DEF P!Clear, P!RemoveNote
<1>3. actor'[q] = to
  BY <1>1, <1>2, ActorMoves DEF CardsInv
<1>4. ~ Changing(q)' /\ ~ Applying(q) /\ ~ Applying(q)' /\ AtTheHead(q)'
  BY <1>1, <1>3 DEF Changing, Applying, AtTheHead
<1>5. RequestOrder(q)'
  BY <1>1, <1>3, <1>4 DEF CardsInv, RequestOrder, Puts
<1>6. NoteTypes' /\ clock <= clock'
  <2>1. CASE note' = note
    BY <1>1, <2>1, NotesStay
  <2>2. CASE P!RemoveNote(q)
    <3>1. note' = [note EXCEPT ![asked[q].name] = None]
      BY <2>2 DEF P!RemoveNote
    <3>2. /\ note' \in [Names -> Nat \union {None}] /\ clock \in Nat
          /\ \A x \in Names : note'[x] = note[x] \/ note'[x] = None
      BY <3>1 DEF CardsInv, NoteTypes
    <3>3. \A x \in Names : note'[x] # None => note'[x] <= clock'
      BY <1>1, <3>2 DEF CardsInv, NoteTypes
    <3>4. applied' \in [Runs \X {1, 2} -> Nat] /\ clock' = clock
      BY <1>1 DEF CardsInv, NoteTypes
    <3>5. QED
      BY <3>2, <3>3, <3>4 DEF NoteTypes
  <2>3. QED
    BY <1>1, <2>1, <2>2
<1>7. \A c : Genuine(c) => Genuine(c)'
  BY <1>1, SameCards
<1>8. \A s : FileOfCards(s) => FileOfCards(s)'
  BY <1>1, <1>7, StillAFile DEF CardsInv, CardTypes
<1>9. cards' = << >> \/ cards' = cards
  BY DEF P!Clear, P!RemoveNote, P!file
<1>10. FileOfCards(cards)'
  <2>1. CASE cards' = << >>
    BY <2>1 DEF FileOfCards
  <2>2. QED
    BY <1>8, <1>9, <2>1 DEF CardsInv, AllGenuine
<1>11. /\ \A b \in P!Actors : FileOfCards(seen[b])'
       /\ \A c \in shown' : Genuine(c)
       /\ filings' \in Nat /\ filings <= filings' /\ seen' = [b \in P!Actors |-> seen'[b]]
  BY <1>1, <1>8 DEF CardsInv, AllGenuine, CardTypes
<1>12. CardsInv'
  BY <1>1, <1>2, <1>4, <1>5, <1>6, <1>10, <1>11, FileOnward
<1>13. QED
  BY <1>1, <1>4, <1>12

(* A request arrives; a reader answers a card that was served.             *)
LEMMA JobsAre ==
    ASSUME CardsInv, NEW j \in CardJobs
    PROVE  j # None /\ (j.kind = "answer" => j.card \in shown)
<1>1. /\ j \in [kind : {"get", "regenerate", "deleteConversation"}]
              \union [kind : {"deleteMessage"}, of : Runs]
              \union [kind : {"put", "removeNote"}, name : Names]
              \union [kind : {"answer"}, card : shown, accept : BOOLEAN]
  BY DEF CardJobs
<1>2. shown \subseteq P!Card
  BY GenuineCard DEF CardsInv, AllGenuine
<1>3. j \in P!Job
  BY <1>1, <1>2 DEF P!Job
<1>4. j.kind = "answer" => j.card \in shown
  BY <1>1
<1>5. QED
  BY <1>3, <1>4, Assumptions DEF Assumptions, P!NoneAssumption

LEMMA CardsAskedFor ==
    ASSUME CardsInv, NEW q \in CardRequests, NEW j \in CardJobs, P!Arrive(q, j)
    PROVE  /\ CardsInv' /\ UNCHANGED <<call, ask, note, clock, applied>>
           /\ asked[q] = None /\ asked' = [asked EXCEPT ![q] = j]
           /\ ~ Applying(q) /\ ~ Applying(q)'
<1>1. /\ UNCHANGED <<line, cards, filings, call, ask, back, seen, shown, note, clock, applied>>
      /\ actor[q] = "idle" /\ asked' = [asked EXCEPT ![q] = j]
      /\ P!Go(q, IF j.kind = "put" THEN "noteWait" ELSE "start")
      /\ q \in P!Actors /\ q \notin Runs
  BY TwoSorts DEF P!Arrive, P!file, P!notes, P!calls, P!change, P!history
<1>2. /\ actor' = [y \in P!Actors |-> actor'[y]]
      /\ actor'[q] = IF j.kind = "put" THEN "noteWait" ELSE "start"
      /\ \A b \in P!Actors \ {q} : actor'[b] = actor[b]
  BY <1>1, ActorMoves DEF CardsInv
<1>3. /\ asked' = [y \in CardRequests |-> asked'[y]]
      /\ asked'[q] = j /\ \A b \in CardRequests \ {q} : asked'[b] = asked[b]
  BY <1>1, ChangedAt DEF CardsInv, CardTypes
<1>4. asked[q] = None /\ ~ Applying(q) /\ ~ Changing(q)
  BY <1>1 DEF CardsInv, RequestOrder, Applying, Changing
<1>5. ~ Applying(q)' /\ ~ Changing(q)' /\ AtTheHead(q)'
  BY <1>2, <1>3 DEF Applying, Changing, Puts, AtTheHead
<1>6. RequestOrder(q)'
  BY <1>2, <1>3, <1>5, JobsAre DEF RequestOrder
<1>7. \A b \in P!Actors : P!Inside(b) => P!Inside(b)'
  BY <1>1 DEF P!Inside
<1>8. /\ \A r \in Runs : RunOrder(r)'
      /\ \A p \in CardRequests : RequestOrder(p)'
      /\ \A b \in P!Actors : AtTheHead(b)'
      /\ \A b \in P!Actors : Changing(b)' <=> Changing(b)
  BY <1>1, <1>2, <1>3, <1>4, <1>5, <1>6, <1>7, OthersStay
<1>9. NoteTypes' /\ CardTypes'
  BY <1>1, <1>2, <1>3 DEF CardsInv, NoteTypes, CardTypes
<1>10. /\ \A r \in Runs, k \in {1, 2} : Made(r, k)' = Made(r, k) /\ Its(r, k)' = Its(r, k)
       /\ \A c : Genuine(c) => Genuine(c)'
  BY <1>1, SameCards
<1>11. \A s : FileOfCards(s) => FileOfCards(s)'
  BY <1>1, <1>10, StillAFile DEF CardsInv, CardTypes
<1>12. AllGenuine'
  <2>1. /\ FileOfCards(cards)' /\ \A b \in P!Actors : FileOfCards(seen[b])'
        /\ \A c \in shown' : Genuine(c)'
    BY <1>1, <1>10, <1>11 DEF CardsInv, AllGenuine
  <2>2. \A p \in CardRequests :
            actor'[p] # "idle" /\ asked'[p].kind = "answer" => Genuine(asked[p].card)'
    <3>1. j.kind = "answer" => Genuine(j.card)'
      BY <1>10, JobsAre DEF CardsInv, AllGenuine
    <3>2. asked'[q].kind = "answer" => Genuine(asked[q].card)'
      BY <1>3, <3>1
    <3>3. \A p \in CardRequests \ {q} :
              actor'[p] # "idle" /\ asked'[p].kind = "answer" => Genuine(asked[p].card)'
      BY <1>1, <1>2, <1>3, <1>10, TwoSorts DEF CardsInv, AllGenuine
    <3>4. QED
      BY <3>2, <3>3
  <2>3. \A b \in P!Actors :
            Changing(b)' /\ ask'[b].do \in {"add", "take", "resolve"} => Genuine(ask[b].card)'
    BY <1>1, <1>8, <1>10 DEF CardsInv, AllGenuine
  <2>4. QED
    BY <2>1, <2>2, <2>3 DEF AllGenuine
<1>13. \A r \in Runs, k \in {1, 2} : Made(r, k)' => Fits(r, k)'
  BY <1>1, <1>10 DEF CardsInv, Fits
<1>14. CardsInv'
  BY <1>8, <1>9, <1>12, <1>13 DEF CardsInv
<1>15. QED
  BY <1>1, <1>4, <1>5, <1>14
-----------------------------------------------------------------------------
(* Once.  A removal is not forgotten, and without one no card deletes.     *)
LEMMA RemovedStays ==
    ASSUME P!NoteRemoved,
           \A q \in CardRequests : asked[q] # None => asked'[q] = asked[q],
           \A r \in Runs : call[r] # None => call'[r] = call[r]
    PROVE  P!NoteRemoved'
<1>1. CASE \E q \in CardRequests : asked[q] # None /\ asked[q].kind = "removeNote"
  BY <1>1 DEF P!NoteRemoved
<1>2. CASE \E r \in Runs : call[r] # None /\ call[r].op = "delete"
  BY <1>2 DEF P!NoteRemoved
<1>3. QED
  BY <1>1, <1>2 DEF P!NoteRemoved

LEMMA NoDeletion ==
    ASSUME CardsInv, ~ P!NoteRemoved, NEW c, Genuine(c)
    PROVE  c.op \in {"create", "update"}
<1>1. c.run \in Runs /\ c.op = call[c.run].op /\ call[c.run] # None /\ c \in P!Card
  BY GenuineCard
<1>2. c.op # "delete"
  BY <1>1 DEF P!NoteRemoved
<1>3. QED
  BY <1>1, <1>2 DEF P!Card, P!Operations

(* A step that makes no change of a note.                                  *)
LEMMA OnceWithout ==
    ASSUME CardsInv, P!NoteRemoved \/ SpentOnce, NEW a \in P!Actors, NEW to, P!Go(a, to),
           UNCHANGED <<note, clock, applied>>, MadeOnce(a)',
           \A b \in P!Actors \ {a} : ask'[b] = ask[b],
           \A q \in CardRequests \ {a} : asked'[q] = asked[q],
           \A q \in CardRequests : asked[q] # None => asked'[q] = asked[q],
           \A r \in Runs : call[r] # None => call'[r] = call[r],
           \A r \in Runs, k \in {1, 2} : Made(r, k) => Made(r, k)' /\ Its(r, k)' = Its(r, k)
    PROVE  P!NoteRemoved' \/ SpentOnce'
<1>1. CASE P!NoteRemoved
  BY <1>1, RemovedStays
<1>2. CASE SpentOnce
  <2>1. \A b \in P!Actors \ {a} : actor'[b] = actor[b] /\ (Applying(b)' <=> Applying(b))
    BY TwoSorts, ActorMoves DEF CardsInv, Applying, Puts
  <2>2. \A b \in P!Actors \ {a} : MadeOnce(b)'
    BY <1>2, <2>1 DEF SpentOnce, MadeOnce, P!Id
  <2>3. \A r \in Runs, k \in {1, 2} :
            applied'[<<r, k>>] # 0 => applied'[<<r, k>>] = 1 /\ Made(r, k)' /\ Spent(Its(r, k))'
    <3> SUFFICES ASSUME NEW r \in Runs, NEW k \in {1, 2}, applied'[<<r, k>>] # 0
                 PROVE  applied'[<<r, k>>] = 1 /\ Made(r, k)' /\ Spent(Its(r, k))'
      OBVIOUS
    <3>1. applied[<<r, k>>] # 0 /\ applied'[<<r, k>>] = applied[<<r, k>>]
      OBVIOUS
    <3>2. applied[<<r, k>>] = 1 /\ Made(r, k) /\ Spent(Its(r, k))
      BY <1>2, <3>1 DEF SpentOnce
    <3>3. Made(r, k)' /\ Its(r, k)' = Its(r, k)
      BY <3>2
    <3>4. Spent(Its(r, k))'
      BY <3>2, <3>3 DEF Spent
    <3>5. QED
      BY <3>1, <3>2, <3>3, <3>4
  <2>4. QED
    BY <2>2, <2>3 DEF SpentOnce
<1>3. QED
  BY <1>1, <1>2

LEMMA NotApplying ==
    ASSUME NEW a \in P!Actors, ~ Applying(a)' \/ actor'[a] \notin {"noteWait", "noteWrite"}
    PROVE  MadeOnce(a)'
BY DEF MadeOnce

LEMMA OnceMoving ==
    ASSUME CardsInv, P!NoteRemoved \/ SpentOnce, NEW a \in P!Actors, NEW to,
           to \notin {"noteWait", "noteWrite"}, P!Go(a, to),
           UNCHANGED <<call, asked, ask, note, clock, applied>>
    PROVE  P!NoteRemoved' \/ SpentOnce'
<1>1. actor'[a] = to
  BY ActorMoves DEF CardsInv
<1>2. MadeOnce(a)'
  BY <1>1, NotApplying
<1>3. QED
  BY <1>2, SameCards, OnceWithout

(* What a card asks for, once it is done, is refused.                      *)
LEMMA NotTwice ==
    ASSUME CardsInv, ~ P!NoteRemoved, SpentOnce, NEW a \in P!Actors, Applying(a)
    PROVE  LET c == ask[a].card IN
           /\ c.op \in {"create", "update"} /\ c.name \in Names
           /\ P!Id(c) \in Runs \X {1, 2} /\ c.since \in Nat /\ c.since <= clock
           /\ applied[P!Id(c)] # 0 =>
                 /\ applied[P!Id(c)] = 1 /\ note[c.name] # None
                 /\ c.op = "update" => note[c.name] > c.since
<1> DEFINE c == ask[a].card
<1>1. Genuine(c)
  BY ApplyingIs
<1>2. /\ c.op \in {"create", "update"} /\ c.name \in Names
      /\ P!Id(c) = <<c.run, c.nth>> /\ P!Id(c) \in Runs \X {1, 2} /\ c.since \in Nat /\ c.since <= clock
      /\ c = Its(c.run, c.nth) /\ c.run \in Runs /\ c.nth \in {1, 2}
  BY <1>1, NoDeletion, IdIs, GenuineCard
<1>3. ASSUME applied[P!Id(c)] # 0
      PROVE  applied[P!Id(c)] = 1 /\ note[c.name] # None /\ (c.op = "update" => note[c.name] > c.since)
  <2>1. applied[<<c.run, c.nth>>] # 0 /\ applied[P!Id(c)] = applied[<<c.run, c.nth>>]
    BY <1>2, <1>3
  <2>2. applied[<<c.run, c.nth>>] = 1 /\ Spent(Its(c.run, c.nth))
    BY <1>2, <2>1 DEF SpentOnce
  <2>3. Spent(c)
    BY <1>2, <2>2
  <2>4. QED
    BY <2>1, <2>2, <2>3 DEF Spent
<1>4. QED
  BY <1>2, <1>3

LEMMA LooksOnce ==
    ASSUME CardsInv, P!NoteRemoved \/ SpentOnce, NEW a \in P!Actors, P!Look(a)
    PROVE  P!NoteRemoved' \/ SpentOnce'
<1>1. /\ actor[a] = "apply" /\ UNCHANGED <<call, asked, ask, note, clock, applied>>
      /\ P!Go(a, "refused") \/ P!Go(a, "noteWait")
  BY Looks DEF P!Look, P!Refuse
<1>2. CASE P!NoteRemoved
  BY <1>1, <1>2, RemovedStays
<1>3. CASE P!Go(a, "refused")
  BY <1>1, <1>3, OnceMoving
<1>4. CASE P!Go(a, "noteWait") /\ ~ P!NoteRemoved
  <2>1. Applying(a)
    BY <1>1, TwoSorts DEF Applying, CardsInv, RequestOrder, Puts
  <2>2. actor'[a] = "noteWait" /\ actor'[a] # "refused"
    BY <1>4, ActorMoves DEF CardsInv
  <2>3. actor' # [actor EXCEPT ![a] = "refused"]
    BY <2>2 DEF CardsInv, CardTypes
  <2>4. LET c == ask[a].card
        IN  ~ (c.op # "create" /\ c.base = None /\ note[c.name] # None /\ note[c.name] > c.since)
    BY <2>3 DEF P!Look, P!Refuse, P!Go
  <2>5. LET c == ask[a].card
        IN  c.op = "update" /\ c.base = None => applied[P!Id(c)] = 0
    BY <1>4, <2>1, <2>4, NotTwice
  <2>6. MadeOnce(a)'
    BY <1>1, <2>2, <2>5 DEF MadeOnce, P!Id
  <2>7. QED
    BY <1>1, <1>4, <2>6, SameCards, OnceWithout
<1>5. QED
  BY <1>1, <1>2, <1>3, <1>4

LEMMA ChecksOnce ==
    ASSUME CardsInv, P!NoteRemoved \/ SpentOnce, NEW a \in P!Actors, P!CheckNote(a)
    PROVE  P!NoteRemoved' \/ SpentOnce'
<1>1. actor[a] = "noteWait" /\ UNCHANGED <<clock, call, asked, ask>>
  BY CheckNoteIs
<1>2. CASE P!NoteRemoved
  BY <1>1, <1>2, RemovedStays
<1>3. CASE P!Go(a, "refused") /\ UNCHANGED <<note, applied>>
  BY <1>1, <1>3, OnceMoving
<1>4. CASE P!Operation(a) = "delete" /\ Applying(a) /\ ~ P!NoteRemoved
  BY <1>4, NoDeletion, ApplyingIs
<1>5. CASE /\ P!Operation(a) # "delete" /\ ~ P!Conflict(a) /\ ~ P!NoteRemoved
           /\ P!Go(a, "noteWrite") /\ UNCHANGED <<line, note, applied>>
  <2>1. actor'[a] = "noteWrite"
    BY <1>5, ActorMoves DEF CardsInv
  <2>2. CASE ~ Applying(a)
    <3>1. ~ Applying(a)'
      BY <1>1, <2>1, <2>2 DEF Applying, Puts
    <3>2. QED
      BY <1>1, <1>5, <3>1, NotApplying, SameCards, OnceWithout
  <2>3. CASE Applying(a)
    <3>1. P!Target(a) = ask[a].card.name /\ P!Operation(a) = ask[a].card.op /\ P!Base(a) = ask[a].card.base
      BY <2>3, ApplyingIs
    <3>2. Genuine(ask[a].card)
      BY <2>3, ApplyingIs
    <3>3. ask[a].card.base # None => ask[a].card.base \in Nat /\ ask[a].card.base <= ask[a].card.since
      BY <3>2, GenuineCard
    <3>4. applied[P!Id(ask[a].card)] = 0
      <4>1. SpentOnce
        BY <1>5
      <4>2. CASE ask[a].card.op = "create"
        <5>1. note[ask[a].card.name] = None
          BY <1>5, <3>1, <4>2 DEF P!Conflict
        <5>2. QED
          BY <1>5, <2>3, <4>1, <5>1, NotTwice
      <4>3. CASE ask[a].card.op = "update" /\ ask[a].card.base = None
        BY <1>1, <2>3, <4>1, <4>3 DEF SpentOnce, MadeOnce
      <4>4. CASE ask[a].card.op = "update" /\ ask[a].card.base # None
        <5>1. note[ask[a].card.name] = ask[a].card.base
          BY <1>5, <3>1, <4>4 DEF P!Conflict
        <5>2. ~ (note[ask[a].card.name] > ask[a].card.since)
          BY <1>5, <2>3, <3>3, <4>1, <4>4, <5>1, NotTwice
        <5>3. QED
          BY <1>5, <2>3, <4>1, <4>4, <5>2, NotTwice
      <4>5. QED
        BY <1>5, <2>3, <4>1, <4>2, <4>3, <4>4, NotTwice
    <3>5. MadeOnce(a)'
      BY <1>1, <1>5, <2>1, <3>4 DEF MadeOnce, P!Id
    <3>6. QED
      BY <1>1, <1>5, <3>5, SameCards, OnceWithout
  <2>4. QED
    BY <2>2, <2>3
<1>6. QED
  BY <1>2, <1>3, <1>4, <1>5, CheckNoteIs

LEMMA WritesOnce ==
    ASSUME CardsInv, P!NoteRemoved \/ SpentOnce, NEW a \in P!Actors, P!WriteNote(a)
    PROVE  P!NoteRemoved' \/ SpentOnce'
<1>1. /\ actor[a] = "noteWrite" /\ UNCHANGED <<call, asked, ask>>
      /\ clock' = clock + 1 /\ note' = [note EXCEPT ![P!Target(a)] = clock + 1]
      /\ clock \in Nat
  BY WriteNoteIs DEF CardsInv, NoteTypes
<1>2. CASE P!NoteRemoved
  BY <1>1, <1>2, RemovedStays
<1>3. CASE SpentOnce /\ ~ P!NoteRemoved
  <2>1. /\ note \in [Names -> Nat \union {None}]
        /\ \A x \in Names : note'[x] = note[x] \/ note'[x] = clock + 1
    BY <1>1 DEF CardsInv, NoteTypes
  <2>2. clock + 1 # None
    BY <1>1, Assumptions DEF Assumptions, P!NoneAssumption
  <2>3. /\ \A r \in Runs, k \in {1, 2} : Made(r, k)' = Made(r, k) /\ Its(r, k)' = Its(r, k)
    BY <1>1, SameCards
  <2>4. \A r \in Runs, k \in {1, 2} : Made(r, k) /\ Spent(Its(r, k)) => Spent(Its(r, k))'
    <3> SUFFICES ASSUME NEW r \in Runs, NEW k \in {1, 2}, Made(r, k), Spent(Its(r, k))
                 PROVE  Spent(Its(r, k))'
      OBVIOUS
    <3>1. /\ Its(r, k).name \in Names /\ Its(r, k).since \in Nat /\ Its(r, k).since <= clock
          /\ Its(r, k)' = Its(r, k)
      BY <2>3 DEF CardsInv, Fits, P!Card
    <3>2. note'[Its(r, k).name] # None
      BY <2>1, <2>2, <3>1 DEF Spent
    <3>3. Its(r, k).op = "update" => note'[Its(r, k).name] > Its(r, k).since
      BY <1>1, <2>1, <3>1 DEF Spent
    <3>4. QED
      BY <3>1, <3>2, <3>3 DEF Spent
  <2>5. CASE Puts(a) /\ P!Go(a, "done") /\ UNCHANGED applied
    <3>1. actor'[a] = "done" /\ \A b \in P!Actors \ {a} : actor'[b] = actor[b]
      BY <2>5, ActorMoves DEF CardsInv
    <3>2. \A b \in P!Actors \ {a} : MadeOnce(b)'
      BY <1>1, <1>3, <2>5, <3>1, TwoSorts DEF SpentOnce, MadeOnce, Applying, Puts, P!Id
    <3>3. MadeOnce(a)'
      BY <3>1, NotApplying
    <3>4. \A r \in Runs, k \in {1, 2} :
            applied'[<<r, k>>] # 0 => applied'[<<r, k>>] = 1 /\ Made(r, k)' /\ Spent(Its(r, k))'
      BY <1>3, <2>3, <2>4, <2>5 DEF SpentOnce
    <3>5. QED
      BY <3>2, <3>3, <3>4 DEF SpentOnce
  <2>6. CASE /\ Applying(a) /\ P!Go(a, "write")
             /\ applied' = [applied EXCEPT ![P!Id(ask[a].card)] = @ + 1]
    <3>0. PICK c : c = ask[a].card
      OBVIOUS
    <3>1. /\ Genuine(c) /\ P!Inside(a) /\ P!Target(a) = c.name
      BY <2>6, <3>0, ApplyingIs
    <3>2. /\ P!Id(c) = <<c.run, c.nth>> /\ c.run \in Runs /\ c.nth \in {1, 2} /\ Made(c.run, c.nth)
          /\ c = Its(c.run, c.nth) /\ c.name \in Names /\ c.since \in Nat /\ c.since <= clock
      BY <3>1, IdIs, GenuineCard
    <3>3. applied[<<c.run, c.nth>>] = 0
      BY <1>1, <1>3, <2>6, <3>0, <3>2 DEF SpentOnce, MadeOnce
    <3>4. /\ applied'[<<c.run, c.nth>>] = 1
          /\ \A r \in Runs, k \in {1, 2} :
                <<r, k>> # <<c.run, c.nth>> => applied'[<<r, k>>] = applied[<<r, k>>]
      BY <2>6, <3>0, <3>2, <3>3 DEF CardsInv, NoteTypes
    <3>5. note'[c.name] = clock + 1
      BY <1>1, <2>1, <3>1, <3>2
    <3>6. Spent(Its(c.run, c.nth))'
      <4>1. Its(c.run, c.nth)' = c
        BY <2>3, <3>2
      <4>2. QED
        BY <1>1, <2>2, <3>2, <3>5, <4>1 DEF Spent
    <3>7. \A r \in Runs, k \in {1, 2} :
            applied'[<<r, k>>] # 0 => applied'[<<r, k>>] = 1 /\ Made(r, k)' /\ Spent(Its(r, k))'
      <4> SUFFICES ASSUME NEW r \in Runs, NEW k \in {1, 2}, applied'[<<r, k>>] # 0
                   PROVE  applied'[<<r, k>>] = 1 /\ Made(r, k)' /\ Spent(Its(r, k))'
        OBVIOUS
      <4>1. CASE r = c.run /\ k = c.nth
        BY <2>3, <3>2, <3>4, <3>6, <4>1
      <4>2. CASE ~ (r = c.run /\ k = c.nth)
        <5>1. applied'[<<r, k>>] = applied[<<r, k>>]
          BY <3>4, <4>2
        <5>2. QED
          BY <1>3, <2>3, <2>4, <5>1 DEF SpentOnce
      <4>3. QED
        BY <4>1, <4>2
    <3>8. actor'[a] = "write" /\ \A b \in P!Actors \ {a} : actor'[b] = actor[b]
      BY <2>6, ActorMoves DEF CardsInv
    <3>9. \A b \in P!Actors \ {a} : ~ Applying(b)
      BY <3>1 DEF CardsInv, AtTheHead, P!Inside
    <3>10. \A b \in P!Actors : ~ Applying(b)'
      BY <1>1, <3>8, <3>9, TwoSorts DEF Applying, Puts
    <3>11. QED
      BY <3>7, <3>10 DEF SpentOnce, MadeOnce
  <2>7. QED
    BY <2>5, <2>6, WriteNoteIs
<1>4. QED
  BY <1>2, <1>3
-----------------------------------------------------------------------------
CardsOnce == CardsInv /\ (P!NoteRemoved \/ SpentOnce)

LEMMA ChangingKeeps ==
    ASSUME CardsOnce, NEW a \in P!Actors, P!Changing(a) \/ P!Failing(a)
    PROVE  CardsOnce'
<1>1. CASE P!Enter(a)
  <2>1. CardsInv' /\ UNCHANGED <<call, asked, ask, note, clock, applied>>
    BY <1>1, Enters DEF CardsOnce
  <2>2. actor[a] = "queued" /\ \E to : P!Go(a, to)
    BY <1>1 DEF P!Enter
  <2>3. PICK to : P!Go(a, to)
    BY <2>2
  <2>4. to \notin {"noteWait", "noteWrite"}
    <3>1. actor'[a] = to
      BY <2>3, ActorMoves DEF CardsOnce, CardsInv
    <3>2. back[a] \notin {"noteWait", "noteWrite"}
      BY <2>2, TwoSorts DEF CardsOnce, CardsInv, RunOrder, RequestOrder, Changing
    <3>3. actor'[a] \in {"refused", "apply", "write"} \/ actor'[a] = back[a]
      BY <1>1, ActorMoves DEF P!Enter, CardsOnce, CardsInv
    <3>4. QED
      BY <3>1, <3>2, <3>3
  <2>5. QED
    BY <2>1, <2>3, <2>4, OnceMoving DEF CardsOnce
<1>2. CASE P!WriteCards(a)
  <2>1. CardsInv' /\ UNCHANGED <<call, asked, ask, note, clock, applied>>
    BY <1>2, WritesCards DEF CardsOnce
  <2>2. actor[a] = "write" /\ P!Go(a, back[a])
    BY <1>2 DEF P!WriteCards
  <2>3. PICK to : to = back[a]
    OBVIOUS
  <2>4. to \notin {"noteWait", "noteWrite"}
    BY <2>2, <2>3, TwoSorts DEF CardsOnce, CardsInv, RunOrder, RequestOrder, Changing
  <2>5. QED
    BY <2>1, <2>2, <2>3, <2>4, OnceMoving DEF CardsOnce
<1>3. CASE P!Look(a)
  BY <1>3, Looks, LooksOnce DEF CardsOnce
<1>4. CASE P!CheckNote(a)
  BY <1>4, ChecksNote, ChecksOnce DEF CardsOnce
<1>5. CASE P!WriteNote(a)
  BY <1>5, WritesNote, WritesOnce DEF CardsOnce
<1>6. CASE P!WriteCardsFails(a)
  <2>1. CardsInv' /\ UNCHANGED <<call, asked, ask, note, clock, applied>>
    BY <1>6, RestMove DEF CardsOnce
  <2>2. PICK to \in {"refused", "broken", "done"} : P!Go(a, to)
    BY <1>6 DEF P!WriteCardsFails
  <2>3. QED
    BY <2>1, <2>2, OnceMoving DEF CardsOnce
<1>7. CASE P!WriteNoteFails(a)
  <2>1. CardsInv' /\ UNCHANGED <<call, asked, ask, note, clock, applied>>
    BY <1>7, Looks DEF CardsOnce
  <2>2. P!Go(a, "refused")
    BY <1>7 DEF P!WriteNoteFails, P!Refuse
  <2>3. QED
    BY <2>1, <2>2, OnceMoving DEF CardsOnce
<1>8. QED
  BY <1>1, <1>2, <1>3, <1>4, <1>5, <1>6, <1>7 DEF P!Changing, P!Failing

LEMMA RunningKeeps ==
    ASSUME CardsOnce, NEW r \in Runs, P!Send(r) \/ P!Running(r)
    PROVE  CardsOnce'
<1>1. CASE P!Record(r)
  <2>1. /\ CardsInv' /\ UNCHANGED <<call, asked, note, clock, applied>>
        /\ ~ Made(r, 2) /\ \A s \in P!Actors \ {r} : ask'[s] = ask[s]
        /\ ~ Applying(r)'
    BY <1>1, RunRecords DEF CardsOnce
  <2>2. P!Go(r, "queued") /\ r \in P!Actors
    BY <1>1, TwoSorts DEF P!Record, P!Enqueue
  <2>3. MadeOnce(r)'
    BY <2>1, <2>2, NotApplying
  <2>4. \A s \in Runs, k \in {1, 2} : Made(s, k) => Made(s, k)' /\ Its(s, k)' = Its(s, k)
    BY <2>1, TwoSorts DEF Made, Its
  <2>5. QED
    BY <2>1, <2>2, <2>3, <2>4, OnceWithout DEF CardsOnce
<1>2. CASE P!Send(r) \/ P!End(r) \/ P!Persist(r) \/ P!Finish(r) \/ P!Recover(r)
  <2>1. CardsInv' /\ UNCHANGED <<call, asked, ask, note, clock, applied>>
    BY <1>2, RunsMove DEF CardsOnce
  <2>2. PICK to \in {"streaming", "completed", "broken", "stored", "filed", "done"} : P!Go(r, to)
    BY <1>2 DEF P!Send, P!End, P!Persist, P!Finish, P!Recover
  <2>3. QED
    BY <2>1, <2>2, TwoSorts, OnceMoving DEF CardsOnce
<1>3. QED
  BY <1>1, <1>2 DEF P!Running

LEMMA CallingKeeps ==
    ASSUME CardsOnce, NEW r \in Runs, NEW op \in P!Operations, NEW n \in Names, P!Call(r, op, n)
    PROVE  CardsOnce'
<1>1. /\ CardsInv' /\ UNCHANGED <<asked, note, clock, applied>>
      /\ call[r] = None /\ call' = [call EXCEPT ![r] = P!CardFor(r, 1, op, n)]
      /\ ask[r] = None /\ ask' = [ask EXCEPT ![r] = [do |-> "add", card |-> P!CardFor(r, 1, op, n)]]
      /\ ~ Applying(r)'
  BY RunCalls DEF CardsOnce
<1>2. P!Go(r, "queued") /\ r \in P!Actors
  BY TwoSorts DEF P!Call, P!Enqueue
<1>3. MadeOnce(r)'
  BY <1>1, <1>2, NotApplying
<1>4. \A s \in Runs \ {r} : call'[s] = call[s]
  BY <1>1 DEF CardsOnce, CardsInv, CardTypes
<1>5. \A s \in P!Actors \ {r} : ask'[s] = ask[s]
  BY <1>1 DEF CardsOnce, CardsInv, CardTypes
<1>6. \A s \in Runs, k \in {1, 2} : Made(s, k) => Made(s, k)' /\ Its(s, k)' = Its(s, k)
  BY <1>1, <1>4, <1>5, TwoSorts DEF Made, Its
<1>7. QED
  BY <1>1, <1>2, <1>3, <1>4, <1>5, <1>6, OnceWithout DEF CardsOnce

LEMMA RequestingKeeps ==
    ASSUME CardsOnce, NEW q \in CardRequests, P!Requesting(q)
    PROVE  CardsOnce'
<1>1. CASE P!NotFound(q) \/ P!Unlink(q)
  <2>1. CardsInv' /\ UNCHANGED <<call, asked, ask, note, clock, applied>>
    BY <1>1, TwoSorts, RestMove DEF CardsOnce
  <2>2. PICK to \in {"refused", "clear", "done"} : P!Go(q, to)
    BY <1>1 DEF P!NotFound, P!Unlink
  <2>3. QED
    BY <2>1, <2>2, TwoSorts, OnceMoving DEF CardsOnce
<1>2. CASE P!Get(q) \/ P!Answer(q) \/ P!Regenerate(q) \/ P!DeleteMessage(q)
  <2>1. /\ CardsInv' /\ UNCHANGED <<call, asked, note, clock, applied>>
        /\ \A s \in P!Actors \ {q} : ask'[s] = ask[s]
        /\ ~ Applying(q)' /\ q \in P!Actors /\ q \notin Runs
    BY <1>2, TwoSorts, RequestsJoin DEF CardsOnce
  <2>2. PICK to \in {"refused", "queued"} : P!Go(q, to)
    BY <1>2 DEF P!Get, P!Answer, P!Regenerate, P!DeleteMessage, P!Enqueue
  <2>3. MadeOnce(q)'
    BY <2>1, NotApplying
  <2>4. \A s \in Runs, k \in {1, 2} : Made(s, k) => Made(s, k)' /\ Its(s, k)' = Its(s, k)
    BY <2>1, TwoSorts DEF Made, Its
  <2>5. QED
    BY <2>1, <2>2, <2>3, <2>4, OnceWithout DEF CardsOnce
<1>3. CASE P!LaunchAgain(q)
  <2>1. /\ CardsInv' /\ UNCHANGED <<call, asked, ask, note, clock, applied>>
        /\ \A a \in P!Actors : Applying(a)' => Applying(a) /\ actor'[a] = actor[a]
    BY <1>3, LaunchesAgain DEF CardsOnce
  <2>2. QED
    BY <2>1, SameCards DEF CardsOnce, P!NoteRemoved, SpentOnce, MadeOnce, Spent, P!Id
<1>4. CASE P!Clear(q)
  <2>1. CardsInv' /\ UNCHANGED <<call, asked, ask, note, clock, applied>>
    BY <1>4, Clears DEF CardsOnce
  <2>2. P!Go(q, "done")
    BY <1>4 DEF P!Clear
  <2>3. QED
    BY <2>1, <2>2, TwoSorts, OnceMoving DEF CardsOnce
<1>5. CASE P!RemoveNote(q)
  <2>1. CardsInv' /\ asked' = asked /\ actor[q] = "start" /\ asked[q].kind = "removeNote"
    BY <1>5, Clears DEF CardsOnce
  <2>2. asked[q] # None
    BY <2>1 DEF CardsOnce, CardsInv, RequestOrder
  <2>3. QED
    BY <2>1, <2>2 DEF CardsOnce, P!NoteRemoved
<1>6. QED
  BY <1>1, <1>2, <1>3, <1>4, <1>5 DEF P!Requesting

LEMMA ArrivingKeeps ==
    ASSUME CardsOnce, NEW q \in CardRequests, NEW j \in CardJobs, P!Arrive(q, j)
    PROVE  CardsOnce'
<1>1. /\ CardsInv' /\ UNCHANGED <<call, ask, note, clock, applied>>
      /\ asked[q] = None /\ asked' = [asked EXCEPT ![q] = j]
      /\ ~ Applying(q)' /\ q \in P!Actors
  BY TwoSorts, CardsAskedFor DEF CardsOnce
<1>2. PICK to \in {"noteWait", "start"} : P!Go(q, to)
  BY DEF P!Arrive
<1>3. \A p \in CardRequests \ {q} : asked'[p] = asked[p]
  BY <1>1 DEF CardsOnce, CardsInv, CardTypes
<1>4. MadeOnce(q)'
  BY <1>1, NotApplying
<1>5. QED
  BY <1>1, <1>2, <1>3, <1>4, SameCards, OnceWithout DEF CardsOnce

LEMMA DyingKeeps ==
    ASSUME CardsOnce, P!Crash
    PROVE  CardsOnce'
<1>1. /\ CardsInv' /\ UNCHANGED <<call, asked, ask, note, clock, applied>>
      /\ \A a \in P!Actors : ~ Applying(a)'
  BY CardsDie DEF CardsOnce
<1>2. QED
  BY <1>1, SameCards DEF CardsOnce, P!NoteRemoved, SpentOnce, MadeOnce, Spent

LEMMA CardsRest ==
    ASSUME CardsOnce, UNCHANGED cardVars
    PROVE  CardsOnce'
<1>1. UNCHANGED <<cards, filings, note, clock, line, actor, call, asked, ask, back, seen, shown, applied>>
  BY DEF cardVars
<1>2. /\ \A r \in Runs, k \in {1, 2} : Made(r, k)' = Made(r, k) /\ Its(r, k)' = Its(r, k)
      /\ \A a \in P!Actors : Changing(a)' <=> Changing(a)
      /\ \A a \in P!Actors : Applying(a)' <=> Applying(a)
      /\ \A a \in P!Actors : Puts(a)' <=> Puts(a)
  BY <1>1, SameCards DEF Changing, Applying, Puts
<1>3. /\ \A r \in Runs : RunOrder(r)'
      /\ \A q \in CardRequests : RequestOrder(q)'
      /\ \A a \in P!Actors : AtTheHead(a)'
  BY <1>1, <1>2, TwoSorts DEF CardsOnce, CardsInv, RunOrder, RequestOrder, AtTheHead, P!Inside
<1>4. line' \in Seq(P!Actors) /\ actor' = [a \in P!Actors |-> actor'[a]]
  BY <1>1 DEF CardsOnce, CardsInv, CardTypes
<1>5. CardsInv'
  BY <1>1, <1>2, <1>3, <1>4, Together DEF CardsOnce
<1>6. P!NoteRemoved => P!NoteRemoved'
  BY <1>1 DEF P!NoteRemoved
<1>7. SpentOnce => SpentOnce'
  BY <1>1, <1>2 DEF SpentOnce, MadeOnce, Spent, P!Id
<1>8. QED
  BY <1>5, <1>6, <1>7 DEF CardsOnce

LEMMA CardsKept ==
    ASSUME CardsOnce, CardsNext
    PROVE  CardsOnce'
<1>1. CASE \E x \in P!Actors : P!Changing(x) \/ P!Failing(x)
  BY <1>1, ChangingKeeps
<1>2. CASE \E x \in NextOf(Runs, actor) : P!Send(x)
  BY <1>2, RunningKeeps DEF NextOf, AnyOf
<1>3. CASE \E x \in Runs : P!Running(x)
  BY <1>3, RunningKeeps
<1>4. CASE \E x \in Runs, op \in Operations, n \in Names : P!Call(x, op, n)
  BY <1>4, CallingKeeps DEF Operations, P!Operations
<1>5. CASE \E x \in CardRequests : P!Requesting(x)
  BY <1>5, RequestingKeeps
<1>6. CASE \E x \in NextOf(CardRequests, actor), j \in CardJobs : P!Arrive(x, j)
  BY <1>6, ArrivingKeeps DEF NextOf, AnyOf
<1>7. CASE P!Crash
  BY <1>7, DyingKeeps
<1>8. QED
  BY <1>1, <1>2, <1>3, <1>4, <1>5, <1>6, <1>7 DEF CardsNext

LEMMA CardsStart ==
    ASSUME Init
    PROVE  CardsOnce
<1>1. CASE P!Init
  <2>1. /\ \A r \in Runs, k \in {1, 2} : ~ Made(r, k)
        /\ \A a \in P!Actors : actor[a] = "idle" /\ ~ Applying(a) /\ ~ Changing(a)
    BY <1>1, TwoSorts DEF P!Init, Made, Applying, Changing
  <2>2. NoteTypes /\ CardTypes
    BY <1>1, Assumptions DEF P!Init, NoteTypes, CardTypes, Assumptions, P!NoneAssumption
  <2>3. AllGenuine
    BY <1>1, <2>1, TwoSorts DEF P!Init, AllGenuine, FileOfCards
  <2>4. (\A r \in Runs : RunOrder(r)) /\ (\A q \in CardRequests : RequestOrder(q))
        /\ \A a \in P!Actors : AtTheHead(a)
    BY <1>1, <2>1, TwoSorts DEF P!Init, RunOrder, RequestOrder, AtTheHead, Puts
  <2>5. SpentOnce
    BY <1>1, <2>1 DEF P!Init, SpentOnce, MadeOnce
  <2>6. QED
    BY <2>1, <2>2, <2>3, <2>4, <2>5 DEF CardsOnce, CardsInv
<1>2. CASE Served
  <2>0. PICK r \in Runs, op \in P!Operations, n \in Names :
            /\ cards = <<Card(r, op, n)>> /\ filings = 1 /\ shown = {Card(r, op, n)}
            /\ note \in [Names -> {0, None}] /\ clock = 0 /\ line = << >>
            /\ actor = [x \in P!Actors |-> IF x = r THEN "done" ELSE "idle"]
            /\ call = [x \in Runs |-> IF x = r THEN Card(r, op, n) ELSE None]
            /\ asked = [x \in CardRequests |-> None]
            /\ ask = [x \in P!Actors |-> None]
            /\ back = [x \in P!Actors |-> "done"]
            /\ seen = [x \in P!Actors |-> << >>]
            /\ applied = [i \in Runs \X {1, 2} |-> 0]
    BY <1>2 DEF Served, AnyOf
  <2>1. PICK c :
            /\ c = Card(r, op, n)
            /\ cards = <<c>> /\ filings = 1 /\ shown = {c}
            /\ note \in [Names -> {0, None}] /\ clock = 0 /\ line = << >>
            /\ actor = [x \in P!Actors |-> IF x = r THEN "done" ELSE "idle"]
            /\ call = [x \in Runs |-> IF x = r THEN c ELSE None]
            /\ asked = [x \in CardRequests |-> None]
            /\ ask = [x \in P!Actors |-> None]
            /\ back = [x \in P!Actors |-> "done"]
            /\ seen = [x \in P!Actors |-> << >>]
            /\ applied = [i \in Runs \X {1, 2} |-> 0]
    BY <2>0
  <2>2. /\ c \in P!Card /\ c.run = r /\ c.nth = 1 /\ c.op = op /\ c.since = 0
        /\ c.base = IF op = "create" THEN None ELSE 0
    BY <2>1 DEF Card, P!Card
  <2>3. c # None
    BY <2>2, Assumptions DEF Assumptions, P!NoneAssumption
  <2>4. /\ \A s \in Runs, k \in {1, 2} : Made(s, k) <=> s = r /\ k = 1
        /\ Its(r, 1) = c
        /\ \A a \in P!Actors : ~ Applying(a) /\ ~ Changing(a) /\ actor[a] \in {"idle", "done"}
    BY <2>1, <2>3, TwoSorts DEF Made, Its, Applying, Changing
  <2>5. NoteTypes /\ CardTypes
    BY <2>1, Assumptions DEF NoteTypes, CardTypes, Assumptions, P!NoneAssumption
  <2>6. Genuine(c)
    BY <2>4 DEF Genuine
  <2>7. FileOfCards(cards) /\ \A a \in P!Actors : FileOfCards(seen[a])
    BY <2>1, <2>6 DEF FileOfCards
  <2>8. AllGenuine
    BY <2>1, <2>4, <2>6, <2>7, TwoSorts DEF AllGenuine
  <2>9. Fits(r, 1)
    BY <2>1, <2>2, <2>4 DEF Fits
  <2>10. (\A s \in Runs : RunOrder(s)) /\ (\A q \in CardRequests : RequestOrder(q))
         /\ \A a \in P!Actors : AtTheHead(a)
    BY <2>1, <2>4, TwoSorts DEF RunOrder, RequestOrder, AtTheHead, Puts
  <2>11. SpentOnce
    BY <2>1, <2>4 DEF SpentOnce, MadeOnce
  <2>12. QED
    BY <2>4, <2>5, <2>8, <2>9, <2>10, <2>11 DEF CardsOnce, CardsInv
<1>3. QED
  BY <1>1, <1>2 DEF Init

(* For any runs, requests, notes, cap and deaths: a call has one card, and *)
(* what a card asks for is done once, however often it is answered and     *)
(* whatever fails between the note and the card, unless a note was removed *)
(* meanwhile (proposals.ts, add(), resolve()).                             *)
THEOREM AnsweredOnceOnly == Spec => []CardsActOnce
<1>1. Init => CardsOnce
  BY CardsStart
<1>2. CardsOnce /\ [Next]_<<part, down, cardVars, attachmentVars, prefVars, fileVars>> => CardsOnce'
  <2> SUFFICES ASSUME CardsOnce,
                      [Next]_<<part, down, cardVars, attachmentVars, prefVars, fileVars>>
               PROVE  CardsOnce'
    OBVIOUS
  <2>1. CASE UNCHANGED cardVars
    BY <2>1, CardsRest
  <2>2. QED
    BY <2>1, CardsKept DEF Next
<1>3. CardsOnce => CardsActOnce
  <2> SUFFICES ASSUME CardsOnce PROVE CardsActOnce
    OBVIOUS
  <2>1. P!OneCardEach
    BY DEF CardsOnce, CardsInv, AllGenuine, FileOfCards, P!OneCardEach
  <2>2. P!DoneOnce
    <3> SUFFICES ASSUME NEW i \in Runs \X {1, 2} PROVE applied[i] <= 1 \/ P!NoteRemoved
      BY DEF P!DoneOnce
    <3>1. PICK r \in Runs, k \in {1, 2} : i = <<r, k>>
      OBVIOUS
    <3>2. applied[i] \in Nat
      BY DEF CardsOnce, CardsInv, NoteTypes
    <3>3. SpentOnce => applied[i] = 0 \/ applied[i] = 1
      BY <3>1 DEF SpentOnce
    <3>4. QED
      BY <3>2, <3>3 DEF CardsOnce
  <2>3. QED
    BY <2>1, <2>2 DEF CardsActOnce
<1>4. QED
  BY <1>1, <1>2, <1>3, PTL DEF Spec

=============================================================================
