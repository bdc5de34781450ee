------------------------- MODULE GenerationManager -------------------------
(***************************************************************************)
(* One generation as GenerationManager (server/generation/manager.ts) runs *)
(* it: the provider stream folded into the record, the single continuation *)
(* turn a tool call may earn, the terminal transition that everything goes *)
(* through, `done` held back until the reply is stored, the bounded replay *)
(* window, and catchUp().                                                  *)
(*                                                                         *)
(* The code between two awaits is one action.  Records of different        *)
(* generations share nothing but the eviction of old ones, so one record   *)
(* stands for all.  A delta is the serial number of the chunk it came in;  *)
(* a content delta is text the reader can see (a chunk of white space,     *)
(* which content.trim() ignores, is not modelled).  Error codes are left   *)
(* out.  Every run is launched with awaitsPersistence (service.ts:831).    *)
(* The persister is ConversationService's; here it is the environment.     *)
(***************************************************************************)
EXTENDS Naturals, Sequences, FiniteSets

CONSTANTS ReplayEvents,   \* #replayEvents: the size of the replay window
          MaxChunks,      \* bound: chunks the provider sends in one run
          None            \* no Last-Event-ID

ASSUME ReplayAssumption == ReplayEvents \in Nat \ {0}
ASSUME ChunksAssumption == MaxChunks \in Nat
ASSUME NoneAssumption == None \notin Nat

Parts == {"content", "reasoning"}
ChunkTypes == Parts \union {"tool_call"}
TerminalStates == {"completed", "cancelled", "failed", "timed_out"}
States == {"pending", "streaming"} \union TerminalStates
IsTerminal(s) == s \in TerminalStates

Text == [Parts -> Seq(Nat)]
NoText == [p \in Parts |-> << >>]

DeltaEvent == [type : Parts, delta : Nat]
StateEvent == [type : {"state"}, state : States]
DoneEvent == [type : {"done"}, state : TerminalStates]
Event == DeltaEvent \union StateEvent \union DoneEvent
Envelope == [id : Nat, event : Event]

VARIABLES state,        \* record.state
          text,         \* record.content and record.reasoning
          toolCalls,    \* how many calls record.toolCalls holds
          continuable,  \* record.continuation was given
          continued,
          run,          \* where #run() is
          lastEventId,
          replay,       \* the retained envelopes
          timerArmed,   \* record.persistTimer is set
          doneEmitted,
          registry,     \* whether #generations still holds the record
          persistence,  \* external: how storing the output has gone
          reported,     \* external: markPersisted() has been called
          chunks,       \* chunks received, to number them and to bound the run
          log,          \* history: every event emitted
          graceExpired  \* history: the grace timer fired

record == <<state, text, toolCalls, continuable, continued, run>>
events == <<lastEventId, replay, log>>
ending == <<timerArmed, doneEmitted, graceExpired>>
storing == <<persistence, reported>>
managerVars == <<record, events, ending, storing, registry, chunks>>

TypeOK ==
    /\ state \in States
    /\ text \in Text
    /\ toolCalls \in Nat
    /\ continuable \in BOOLEAN
    /\ continued \in BOOLEAN
    /\ run \in {"first", "answering", "second", "ended"}
    /\ lastEventId \in Nat
    /\ replay \in Seq(Envelope)
    /\ timerArmed \in BOOLEAN
    /\ doneEmitted \in BOOLEAN
    /\ registry \in {"held", "evicted", "closed"}
    /\ persistence \in {"pending", "stored", "failed"}
    /\ reported \in BOOLEAN
    /\ chunks \in 0..MaxChunks
    /\ log \in Seq(Event)
    /\ graceExpired \in BOOLEAN

(* start(): the record as it is registered.                                *)
ManagerInit ==
    /\ state = "pending"
    /\ text = NoText
    /\ toolCalls = 0
    /\ continuable \in BOOLEAN
    /\ continued = FALSE
    /\ run = "first"
    /\ lastEventId = 0
    /\ replay = << >>
    /\ timerArmed = FALSE
    /\ doneEmitted = FALSE
    /\ registry = "held"
    /\ persistence = "pending"
    /\ reported = FALSE
    /\ chunks = 0
    /\ log = << >>
    /\ graceExpired = FALSE

-----------------------------------------------------------------------------
(* #emit()                                                                 *)

LastOf(s, n) == SubSeq(s, IF Len(s) > n THEN Len(s) - n + 1 ELSE 1, Len(s))

(* A slip: shifting before pushing.                                        *)
RetainBeforePush(window, envelopes) == LastOf(window, ReplayEvents) \o envelopes

(* Pushing, and shifting when the window overflows, keeps the last ones.   *)
Retain(window, envelopes) == LastOf(window \o envelopes, ReplayEvents)

Emit(es) ==
    /\ log' = log \o es
    /\ lastEventId' = lastEventId + Len(es)
    /\ replay' = Retain(replay, [i \in 1..Len(es) |->
                                    [id |-> lastEventId + i, event |-> es[i]]])

StateChange(s) == [type |-> "state", state |-> s]
Delta(part, n) == [type |-> part, delta |-> n]
Done(s) == [type |-> "done", state |-> s]

(* #emitDone(): once, whatever brought it about.                           *)
EmitDone ==
    IF doneEmitted
    THEN UNCHANGED <<events, timerArmed, doneEmitted>>
    ELSE /\ Emit(<<Done(state)>>)
         /\ doneEmitted' = TRUE
         /\ timerArmed' = FALSE

-----------------------------------------------------------------------------
(* Slips of the kind this code invites, used to show that the properties   *)
(* can fail.                                                               *)

FinishTellingAtOnce(outcome) ==
    /\ state' = outcome
    /\ Emit(<<StateChange(outcome), Done(outcome)>>)
    /\ doneEmitted' = TRUE
    /\ UNCHANGED <<timerArmed, graceExpired>>

ChunkAfterTheEnd(type) ==
    /\ run \in {"first", "second"}
    /\ chunks < MaxChunks
    /\ chunks' = chunks + 1
    /\ state' = IF state = "pending" THEN "streaming" ELSE state
    /\ text' = [p \in Parts |-> IF p = type THEN Append(text[p], chunks + 1) ELSE text[p]]
    /\ toolCalls' = IF type = "tool_call" THEN toolCalls + 1 ELSE toolCalls
    /\ Emit((IF state = "pending" THEN <<StateChange("streaming")>> ELSE << >>)
            \o (IF type \in Parts THEN <<Delta(type, chunks + 1)>> ELSE << >>))
    /\ UNCHANGED <<continuable, continued, run, ending, storing, registry>>

-----------------------------------------------------------------------------
(* #finish(): the one transition into a terminal state.  The outcome is    *)
(* told at once; `done` waits for the storage of a completed reply, for no *)
(* longer than the grace timer.                                            *)
Finish(outcome) ==
    /\ state' = outcome
    /\ IF outcome = "completed"
       THEN Emit(<<StateChange(outcome)>>) /\ timerArmed' = TRUE /\ UNCHANGED doneEmitted
       ELSE /\ Emit(<<StateChange(outcome), Done(outcome)>>)
            /\ doneEmitted' = TRUE
            /\ UNCHANGED timerArmed
    /\ UNCHANGED graceExpired

(* One turn of the loop of #stream(); the first one opens the reply.  Tool *)
(* calls are kept and never emitted.                                       *)
Chunk(type) ==
    /\ run \in {"first", "second"}
    /\ ~IsTerminal(state)
    /\ chunks < MaxChunks
    /\ chunks' = chunks + 1
    /\ state' = "streaming"
    /\ text' = [p \in Parts |-> IF p = type THEN Append(text[p], chunks + 1) ELSE text[p]]
    /\ toolCalls' = IF type = "tool_call" THEN toolCalls + 1 ELSE toolCalls
    /\ Emit((IF state = "pending" THEN <<StateChange("streaming")>> ELSE << >>)
            \o (IF type \in Parts THEN <<Delta(type, chunks + 1)>> ELSE << >>))
    /\ UNCHANGED <<continuable, continued, run, ending, storing, registry>>

(* The model asked for something and said nothing to the reader.           *)
AsksToContinue ==
    /\ run = "first"
    /\ toolCalls > 0
    /\ text["content"] = << >>
    /\ continuable
    /\ ~continued

AwaitContinuation ==
    /\ ~IsTerminal(state)
    /\ AsksToContinue
    /\ continued' = TRUE
    /\ run' = "answering"
    /\ UNCHANGED <<state, text, toolCalls, continuable, events, ending, storing,
                   registry, chunks>>

(* The calls were answered: one more turn, offered no tools.               *)
TakeSecondTurn ==
    /\ run = "answering"
    /\ ~IsTerminal(state)
    /\ run' = "second"
    /\ UNCHANGED <<state, text, toolCalls, continuable, continued, events, ending,
                   storing, registry, chunks>>

(* The stream is over, or the continuation gave nothing or threw.          *)
Complete ==
    /\ run # "ended"
    /\ ~IsTerminal(state)
    /\ ~AsksToContinue
    /\ run' = "ended"
    /\ Finish("completed")
    /\ UNCHANGED <<text, toolCalls, continuable, continued, storing, registry, chunks>>

(* The stream threw: a provider error or its timeout.                      *)
Fail(outcome) ==
    /\ run \in {"first", "second"}
    /\ ~IsTerminal(state)
    /\ run' = "ended"
    /\ Finish(outcome)
    /\ UNCHANGED <<text, toolCalls, continuable, continued, storing, registry, chunks>>

(* #run() comes back from an await and finds the record already terminal:  *)
(* a late chunk is dropped, a late error or answer changes nothing.        *)
Unwind ==
    /\ run # "ended"
    /\ IsTerminal(state)
    /\ run' = "ended"
    /\ UNCHANGED <<state, text, toolCalls, continuable, continued, events, ending,
                   storing, registry, chunks>>

(* cancel() and cancelAllForOwner(): #run() notices when it next wakes up. *)
Cancel ==
    /\ registry = "held"
    /\ ~IsTerminal(state)
    /\ Finish("cancelled")
    /\ UNCHANGED <<text, toolCalls, continuable, continued, run, storing, registry, chunks>>

(* shutdown(): cancel what runs, forget everything.                        *)
Shutdown ==
    /\ registry # "closed"
    /\ registry' = "closed"
    /\ IF registry = "evicted" \/ IsTerminal(state)
       THEN UNCHANGED <<state, events, ending>>
       ELSE Finish("cancelled")
    /\ UNCHANGED <<text, toolCalls, continuable, continued, run, storing, chunks>>

(* #evict(): only ever a terminal record, by age or over the cap.  Which   *)
(* of them goes first is left open.                                        *)
Evict ==
    /\ registry = "held"
    /\ IsTerminal(state)
    /\ registry' = "evicted"
    /\ UNCHANGED <<record, events, ending, storing, chunks>>

(* The timer armed by #finish() fires.                                     *)
GraceExpires ==
    /\ timerArmed
    /\ graceExpired' = TRUE
    /\ EmitDone
    /\ UNCHANGED <<record, storing, registry, chunks>>

(* External: #persistOnTerminal() of the service ends its write, one way   *)
(* or the other ...                                                        *)
Persist(result) ==
    /\ IsTerminal(state)
    /\ persistence = "pending"
    /\ persistence' = result
    /\ UNCHANGED <<record, events, ending, reported, registry, chunks>>

(* ... and calls markPersisted() in its finally block: a no-op when the    *)
(* record is gone or `done` is out.                                        *)
MarkPersisted ==
    /\ persistence # "pending"
    /\ ~reported
    /\ reported' = TRUE
    /\ IF registry = "held" /\ IsTerminal(state)
       THEN EmitDone
       ELSE UNCHANGED <<events, timerArmed, doneEmitted>>
    /\ UNCHANGED <<record, graceExpired, persistence, registry, chunks>>

ManagerNext ==
    \/ \E type \in ChunkTypes : Chunk(type)
    \/ AwaitContinuation
    \/ TakeSecondTurn
    \/ Complete
    \/ \E outcome \in {"failed", "timed_out"} : Fail(outcome)
    \/ Unwind
    \/ Cancel
    \/ Shutdown
    \/ Evict
    \/ GraceExpires
    \/ \E result \in {"stored", "failed"} : Persist(result)
    \/ MarkPersisted

ManagerSpec == ManagerInit /\ [][ManagerNext]_managerVars

-----------------------------------------------------------------------------
(* catchUp(): what an observer that reports `lastId` is sent before live   *)
(* delivery begins.                                                        *)

Snapshot(type) == [type |-> type, text |-> text, state |-> state]
Picture(type) == <<[id |-> lastEventId, event |-> Snapshot(type)]>>

(* The oldest retained event is no later than the first one missed.        *)
CanReplay(lastId) == replay # << >> /\ lastId + 1 >= replay[1].id

(* The retained envelopes past lastId: ids grow along the window, so they  *)
(* are its last ones.                                                      *)
Missed(lastId) ==
    LastOf(replay, Cardinality({i \in DOMAIN replay : replay[i].id > lastId}))

CatchUp(lastId) ==
    IF lastId = None THEN Picture("snapshot")
    ELSE IF lastId = lastEventId THEN << >>
    ELSE IF lastId > lastEventId THEN Picture("resync")
    ELSE IF ~CanReplay(lastId) THEN Picture("resync")
    ELSE Missed(lastId)

-----------------------------------------------------------------------------
(* The window is the tail of what was emitted, numbered without a hole:    *)
(* neither shifting events off the front nor emitting two of them in one   *)
(* step may lose one or renumber one.                                      *)
ReplayWindow ==
    /\ lastEventId = Len(log)
    /\ Len(replay) = IF Len(log) < ReplayEvents THEN Len(log) ELSE ReplayEvents
    /\ \A i \in 1..Len(replay) :
           LET id == Len(log) - Len(replay) + i
           IN replay[i] = [id |-> id, event |-> log[id]]

(* The reader of a completed reply hears `done` only when the write has    *)
(* been tried, or after the grace period (service.ts:770-779): the refetch *)
(* that `done` triggers must not race the write.                           *)
DoneMeansStored ==
    doneEmitted /\ state = "completed" => persistence # "pending" \/ graceExpired

(* The end is in the stream of events once: at most one terminal state     *)
(* event, at most one `done`, which comes last and names the same outcome, *)
(* although completion, cancel, shutdown, the timer and the persister      *)
(* all race for it (INV-05).                                               *)
EndsOnce ==
    LET Ends == {i \in 1..Len(log) : log[i].type = "state" /\ IsTerminal(log[i].state)}
        Dones == {i \in 1..Len(log) : log[i].type = "done"}
    IN /\ \A i, j \in Ends : i = j
       /\ \A i \in Ends : log[i].state = state
       /\ \A i \in Dones : i = Len(log) /\ log[i].state = state /\ Ends # {}
       /\ (Ends # {}) <=> IsTerminal(state)
       /\ (Dones # {}) <=> doneEmitted

ReplySpec == INSTANCE Reply WITH
                Deltas <- 1..MaxChunks,
                Outcomes <- TerminalStates,
                NoOutcome <- "open",
                outcome <- IF IsTerminal(state) THEN state ELSE "open",
                announced <- doneEmitted

(* Through cancellations, late chunks, the second turn, shutdown, the      *)
(* grace timer and the persister, the generation keeps the promise of      *)
(* Reply (INV-05).                                                         *)
ImplementsReply == ReplySpec!Spec

=============================================================================
