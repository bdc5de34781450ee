------------------------------ MODULE Recovery ------------------------------
(***************************************************************************)
(* The conversation of ConversationService in a process that is killed and *)
(* started again, with the restart policy of server/generation/recovery.ts *)
(* in between: before the listener opens, every checkpoint left on disk is *)
(* worked off, and the process may be killed during that too.              *)
(*                                                                         *)
(* A kill leaves the Markdown, the index and the checkpoints, each of them *)
(* whole, since they are replaced by renaming; everything else is gone.    *)
(* Checkpoint content is not modelled: "live" stands for a partial reply.  *)
(***************************************************************************)
EXTENDS ConversationService

CONSTANT MaxKills

ASSUME MaxKillsAssumption == MaxKills \in Nat
ASSUME RequestsAssumption == IsFiniteSet(Requests)

VARIABLES stage,      \* "serving", "down", or where the recovery loop is
          todo,       \* checkpoints.list(): the runs and states it has yet to look at
          kills,      \* how often the process has been killed
          promised,   \* history: runs found unfinished by a recovery
          failed      \* history: runs that a recovery could not write back

recoveryVars == <<stage, todo, kills, promised, failed>>
vars == <<serviceVars, recoveryVars>>
Recovering == {"next", "indexing", "marked", "clearing"}

RecoveryInit ==
    /\ Init
    /\ stage = "serving"
    /\ todo = << >>
    /\ kills = 0
    /\ promised = {}
    /\ failed = {}

Serve == stage = "serving" /\ ServiceNext /\ UNCHANGED recoveryVars

-----------------------------------------------------------------------------
(* A file was written whose index update had not begun.                    *)
Unmarked(c) ==
    \/ pc[c] = "indexing"
    \/ Asks(c, {"deleteMessage"}) /\ pc[c] \in {"tidying", "requeued", "unlinking"}

(* The process dies between any two file operations.  A SIGTERM comes to   *)
(* the same after manager.shutdown() has ended every run: the exit does    *)
(* not wait for the persisters.                                            *)
Kill ==
    /\ stage # "down"
    /\ kills < MaxKills
    /\ kills' = kills + 1
    /\ stage' = "down"
    /\ todo' = << >>
    /\ line' = << >>
    /\ inside' = {}
    /\ indexLine' = << >>
    /\ active' = None
    /\ run' = [r \in Requests |-> IF run[r] = "running" THEN "killed" ELSE run[r]]
    /\ chain' = [r \in Requests |-> << >>]
    /\ hadDefault' = {}
    /\ pc' = [c \in Callers |-> IF pc[c] \in {"idle"} \union Over THEN pc[c] ELSE "lost"]
    /\ copy' = [c \in Callers |-> None]
    /\ skewed' = (skewed \/ stage = "indexing" \/ \E c \in Callers : Unmarked(c))
    /\ UNCHANGED <<disk, kind, removed, swept, promised, failed>>

(* The next start reads the directory, in whatever order it is listed.     *)
Left == {r \in Requests : checkpoint[r] # None}
Restart ==
    /\ stage = "down"
    /\ stage' = "next"
    /\ \E order \in [1..Cardinality(Left) -> Left] :
           /\ Range(order) = Left
           /\ todo' = [i \in DOMAIN order |-> <<order[i], checkpoint[order[i]]>>]
    /\ promised' = promised \union {r \in Left : checkpoint[r] = "live"}
    /\ UNCHANGED <<serviceVars, kills, failed>>

-----------------------------------------------------------------------------
(* recoverGenerations(): one checkpoint after the other, nobody else about *)
(* yet.  Each action ends with a write to disk, a place to be killed at.   *)

Now == Head(todo)[1]
At(where) == stage = where /\ (where = "next" => todo # << >>)

Clear(r) == checkpoint' = [checkpoint EXCEPT ![r] = None]
Written(r) == Answer(r) \in MessagesIn(file)
NeedsNothing(r) == file = None \/ Written(r)

(* A slip: a live checkpoint is dropped as well.                           *)
DropWhateverTheState ==
    /\ At("next")
    /\ Clear(Now)
    /\ todo' = Tail(todo)
    /\ UNCHANGED <<file, index, lines, runs, kind, pc, copy, history,
                   stage, kills, promised, failed>>

DropTerminal ==
    /\ At("next")
    /\ Head(todo)[2] = "terminal"
    /\ Clear(Now)
    /\ todo' = Tail(todo)
    /\ UNCHANGED <<file, index, lines, runs, kind, pc, copy, history,
                   stage, kills, promised, failed>>

(* Another: a checkpoint that is skipped stays.                            *)
SkipWithoutClearing ==
    /\ At("next")
    /\ Head(todo)[2] = "live"
    /\ NeedsNothing(Now)
    /\ todo' = Tail(todo)
    /\ UNCHANGED <<serviceVars, stage, kills, promised, failed>>

(* Its conversation is gone, or already has the reply.                     *)
Skip ==
    /\ At("next")
    /\ Head(todo)[2] = "live"
    /\ NeedsNothing(Now)
    /\ stage' = "clearing"
    /\ UNCHANGED <<serviceVars, todo, kills, promised, failed>>

AppendInterrupted ==
    /\ At("next")
    /\ Head(todo)[2] = "live"
    /\ ~NeedsNothing(Now)
    /\ file' = Append1(file, Answer(Now))
    /\ stage' = "indexing"
    /\ UNCHANGED <<index, checkpoint, lines, runs, kind, pc, copy, history,
                   todo, kills, promised, failed>>

MarkIndex ==
    /\ At("indexing")
    /\ index' = [dirty |-> TRUE, entry |-> index.entry]
    /\ stage' = "marked"
    /\ UNCHANGED <<file, checkpoint, lines, runs, kind, pc, copy, history,
                   todo, kills, promised, failed>>

UpdateIndex ==
    /\ At("marked")
    /\ index' = [dirty |-> FALSE, entry |-> Summary(file)]
    /\ stage' = "clearing"
    /\ UNCHANGED <<file, checkpoint, lines, runs, kind, pc, copy, history,
                   todo, kills, promised, failed>>

ClearCheckpoint ==
    /\ At("clearing")
    /\ Clear(Now)
    /\ todo' = Tail(todo)
    /\ stage' = "next"
    /\ UNCHANGED <<file, index, lines, runs, kind, pc, copy, history,
                   kills, promised, failed>>

(* The conversation cannot be read or written, or its index entry cannot:  *)
(* logged, and the checkpoint is left for a human to look at.              *)
LeaveBehind ==
    /\ \/ At("next") /\ Head(todo)[2] = "live" /\ file # None
       \/ At("indexing")
       \/ At("marked")
    /\ failed' = failed \union {Now}
    /\ skewed' = (skewed \/ stage = "indexing")
    /\ todo' = Tail(todo)
    /\ stage' = "next"
    /\ UNCHANGED <<disk, lines, runs, kind, pc, copy, removed, swept, kills, promised>>

ListenOnlyWhenClean ==
    /\ stage = "next"
    /\ todo = << >>
    /\ Left = {}
    /\ index' = IF index.dirty THEN [dirty |-> FALSE, entry |-> Summary(file)] ELSE index
    /\ stage' = "serving"
    /\ UNCHANGED <<file, checkpoint, lines, runs, kind, pc, copy, history,
                   todo, kills, promised, failed>>

(* All done.  The attachment housekeeping lists the index, which rebuilds  *)
(* it if it was left dirty; then the listener opens.                       *)
Listen ==
    /\ stage = "next"
    /\ todo = << >>
    /\ index' = IF index.dirty THEN [dirty |-> FALSE, entry |-> Summary(file)] ELSE index
    /\ stage' = "serving"
    /\ UNCHANGED <<file, checkpoint, lines, runs, kind, pc, copy, history,
                   todo, kills, promised, failed>>

Recover ==
    \/ DropTerminal
    \/ Skip
    \/ AppendInterrupted
    \/ MarkIndex
    \/ UpdateIndex
    \/ ClearCheckpoint
    \/ LeaveBehind
    \/ Listen

RecoveryNext == Serve \/ Kill \/ Restart \/ Recover

(* A recovery that has begun goes on; nobody has to start the process.     *)
RecoverySpec == RecoveryInit /\ [][RecoveryNext]_vars /\ WF_vars(Recover)

-----------------------------------------------------------------------------
(* Once the listener is open, the partial reply that a recovery found is   *)
(* in the conversation, unless a reader got rid of it, or the write failed *)
(* (INV-21); and no recovery, however often it is itself cut off, puts a   *)
(* reply there twice (INV-07).                                             *)
PartialReplyKept ==
    /\ AnswersOnce
    /\ stage = "serving" =>
           \A r \in promised \ failed :
               file = None \/ Answer(r) \in MessagesIn(file) \union removed

(* After a restart no run is left unfinished, on disk either, except where *)
(* recovery says that it could not write (INV-21); and the listener opens  *)
(* on an index that can be trusted, unless the kill came between a write   *)
(* and the marking of the index.                                           *)
NothingLeftUnfinished ==
    stage = "serving" =>
        /\ \A r \in Requests : run[r] = "killed" /\ checkpoint[r] = "live" => r \in failed
        /\ IndexFollowsTheFile

(* One checkpoint that cannot be dealt with does not keep the server from  *)
(* starting (recovery.ts:119).                                             *)
BootEnds == stage \in Recovering ~> stage \in {"serving", "down"}

(* A checkpoint in a terminal state means that the reply was written by    *)
(* the normal path (recovery.ts:55-56).                                    *)
TerminalMeansWritten ==
    [][DropTerminal => NeedsNothing(Now) \/ Answer(Now) \in removed]_vars

=============================================================================
