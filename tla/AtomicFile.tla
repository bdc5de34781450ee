----------------------------- MODULE AtomicFile -----------------------------
(***************************************************************************)
(* Replacing a file (server/storage/atomic.ts): several writers of one     *)
(* file, the death of the process, the loss of power, and a script that    *)
(* removes what a crash left (storage/conversations.ts, init();            *)
(* scripts/rebuildIndex.ts), which is a process of its own.                *)
(*                                                                         *)
(* A version is the writer that wrote it.  What the disk holds after a     *)
(* loss of power is the last version made durable or any later one.        *)
(***************************************************************************)
EXTENDS Integers, SequencesExt

CONSTANTS Writers,  \* calls of atomicWriteFile()
          First,    \* the version that is there at first
          Torn, None

ASSUME WritersAssumption ==
    First \notin Writers /\ Torn \notin Writers \union {First} /\ None \notin Writers

VARIABLES file,    \* what a reader sees
          maybe,   \* what it may be after a loss of power
          temp,    \* the temp file of each writer: None, "partial" or "whole"
          synced,  \* the writers whose data is durable
          pc,
          script,  \* a script that sweeps: "idle", "sweeping" or "over"
          stale,   \* the temp files older than its start
          renamed  \* history: the versions in the order they got the name

fileVars == <<file, maybe, temp, synced, pc, script, stale, renamed>>
sweeper == <<script, stale>>
FileInit ==
    /\ file = First
    /\ maybe = {First}
    /\ temp = [w \in Writers |-> None]
    /\ synced = {}
    /\ pc = [w \in Writers |-> "idle"]
    /\ script = "idle"
    /\ stale = {}
    /\ renamed = << >>

Go(w, phase) == pc' = [pc EXCEPT ![w] = phase]

-----------------------------------------------------------------------------
(* atomicWriteFile().                                                      *)
Open(w) ==
    /\ pc[w] = "idle"
    /\ temp' = [temp EXCEPT ![w] = "partial"]
    /\ Go(w, "write")
    /\ UNCHANGED <<file, maybe, synced, sweeper, renamed>>

(* Writing makes the temp file new again.                                  *)
WriteData(w) ==
    /\ pc[w] = "write"
    /\ temp' = [temp EXCEPT ![w] = IF @ = None THEN None ELSE "whole"]
    /\ stale' = stale \ {w}
    /\ Go(w, "sync")
    /\ UNCHANGED <<file, maybe, synced, script, renamed>>

Sync(w) ==
    /\ pc[w] = "sync"
    /\ synced' = synced \union {w}
    /\ Go(w, "rename")
    /\ UNCHANGED <<file, maybe, temp, sweeper, renamed>>

(* A write or a sync that fails is told to the caller, and its temp file   *)
(* stays.                                                                  *)
WriteFails(w) ==
    /\ pc[w] \in {"write", "sync"}
    /\ Go(w, "failed")
    /\ UNCHANGED <<file, maybe, temp, synced, sweeper, renamed>>

(* After a loss of power a version whose data was not durable is torn.     *)
Durable(w) == IF w \in synced THEN w ELSE Torn

Rename(w) ==
    /\ pc[w] = "rename"
    /\ IF temp[w] # None
       THEN /\ file' = w
            /\ maybe' = maybe \union {Durable(w)}
            /\ renamed' = Append(renamed, w)
            /\ temp' = [temp EXCEPT ![w] = None]
            /\ stale' = stale \ {w}
            /\ Go(w, "barrier")
       ELSE Go(w, "failed") /\ UNCHANGED <<file, maybe, temp, stale, renamed>>
    /\ UNCHANGED <<synced, script>>

(* A rename that fails for another reason: the temp file is removed.       *)
RenameFails(w) ==
    /\ pc[w] = "rename"
    /\ temp' = [temp EXCEPT ![w] = None]
    /\ stale' = stale \ {w}
    /\ Go(w, "failed")
    /\ UNCHANGED <<file, maybe, synced, script, renamed>>

(* A slip: the entry of the directory is not waited for.                   *)
BarrierSkipped(w) ==
    /\ pc[w] = "barrier"
    /\ Go(w, "done")
    /\ UNCHANGED <<file, maybe, temp, synced, sweeper, renamed>>

Barrier(w) ==
    /\ pc[w] = "barrier"
    /\ maybe' = {IF file \in Writers THEN Durable(file) ELSE file}
    /\ Go(w, "done")
    /\ UNCHANGED <<file, temp, synced, sweeper, renamed>>

-----------------------------------------------------------------------------
Ended == {"idle", "done", "failed", "lost"}

(* The server dies.  It starts again, and looks for no temp file.          *)
Crash ==
    /\ \E w \in Writers : pc[w] \notin Ended
    /\ pc' = [w \in Writers |-> IF pc[w] \in Ended THEN pc[w] ELSE "lost"]
    /\ UNCHANGED <<file, maybe, temp, synced, sweeper, renamed>>

PowerLoss ==
    /\ file' \in maybe /\ maybe' = {file'}
    /\ pc' = [w \in Writers |-> IF pc[w] \in Ended THEN pc[w] ELSE "lost"]
    /\ script' = IF script = "sweeping" THEN "over" ELSE script
    /\ UNCHANGED <<temp, synced, stale, renamed>>

(* cleanupTempFiles(): what was last written before the script began.      *)
StartScript ==
    /\ script = "idle" /\ script' = "sweeping"
    /\ stale' = {w \in Writers : temp[w] # None}
    /\ UNCHANGED <<file, maybe, temp, synced, pc, renamed>>

SweepTemp(w) ==
    /\ script = "sweeping" /\ w \in stale
    /\ temp' = [temp EXCEPT ![w] = None]
    /\ stale' = stale \ {w}
    /\ UNCHANGED <<file, maybe, synced, pc, script, renamed>>

EndScript ==
    /\ script = "sweeping" /\ stale = {}
    /\ script' = "over"
    /\ UNCHANGED <<file, maybe, temp, synced, pc, stale, renamed>>

Writing(w) == Open(w) \/ WriteData(w) \/ Sync(w) \/ Rename(w) \/ Barrier(w)
Failing(w) == WriteFails(w) \/ RenameFails(w)
Sweeping == StartScript \/ EndScript \/ \E w \in Writers : SweepTemp(w)

FileNext ==
    \/ \E w \in Writers : Writing(w) \/ Failing(w)
    \/ Sweeping
    \/ Crash
    \/ PowerLoss

FileSpec == FileInit /\ [][FileNext]_fileVars

-----------------------------------------------------------------------------
(* A reader sees a whole version, old or new, also after a loss of power.  *)
(* (atomic.ts: "it sees either the old bytes or the new ones".)            *)
NeverTorn == file # Torn

(* What a caller was told is written stays written: the file is that       *)
(* version, or one that got the name after it.                             *)
AcknowledgedStays ==
    \A i \in DOMAIN renamed :
        pc[renamed[i]] = "done" => \E j \in i .. Len(renamed) : file = renamed[j]

(* A write whose caller was told of a failure has not changed the file.    *)
FailedChangesNothing == \A w \in Writers : pc[w] = "failed" => file # w

WritesAreWholeAndLast == NeverTorn /\ AcknowledgedStays /\ FailedChangesNothing
=============================================================================
