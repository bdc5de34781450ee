-------------------------- MODULE GenerationStream --------------------------
(***************************************************************************)
(* The observers of a generation: the SSE route                            *)
(* (server/routes/generations.ts), the EventSource and useGeneration() in  *)
(* each reader's browser (client/useGeneration.ts), and the effect of      *)
(* client/App.tsx that settles a finished generation and refetches the     *)
(* conversation.                                                           *)
(*                                                                         *)
(* A response is the sequence of envelopes written and not yet received.   *)
(* A connection may drop at any point and lose all of it; EventSource      *)
(* reconnects by itself with the last id it saw.  A browser that gets 404  *)
(* gives up.                                                               *)
(***************************************************************************)
EXTENDS GenerationManager

CONSTANTS Observers,  \* the tabs that may watch
          MaxDrops    \* bound: how often each connection is lost or left

VARIABLES phase,      \* where each observer's EventSource is
          wire,       \* what its response holds, still unread
          open,       \* the server has not ended the response
          lastId,     \* the last event id the browser saw
          shown,      \* live.state in useGeneration
          applied,    \* live.content and live.reasoning
          unflushed,  \* pending.current: deltas waiting for a frame
          drops,      \* bound: connections lost so far
          guessed     \* history: the outcome shown was concluded from a 404

connection == <<phase, wire, open, lastId, drops>>
view == <<shown, applied, unflushed, guessed>>
vars == <<managerVars, connection, view>>
Idle == "idle"
Attached(o) == phase[o] \in {"live", "retrying"}

Init ==
    /\ ManagerInit
    /\ phase = [o \in Observers |-> "away"]
    /\ wire = [o \in Observers |-> << >>]
    /\ open = [o \in Observers |-> FALSE]
    /\ lastId = [o \in Observers |-> None]
    /\ shown = [o \in Observers |-> Idle]
    /\ applied = [o \in Observers |-> NoText]
    /\ unflushed = [o \in Observers |-> NoText]
    /\ drops = [o \in Observers |-> 0]
    /\ guessed = [o \in Observers |-> FALSE]

Joined(a, b) == [p \in Parts |-> a[p] \o b[p]]

-----------------------------------------------------------------------------
(* Slips of the kind this code invites.                                    *)

OfferSubscribingOnly(o) ==
    /\ wire' = [wire EXCEPT ![o] = << >>]
    /\ open' = [open EXCEPT ![o] = ~IsTerminal(state)]
    /\ lastId' = lastId

GiveUpSilently(o) ==
    /\ phase' = [phase EXCEPT ![o] = "closed"]
    /\ UNCHANGED <<wire, open, lastId, shown, guessed>>

-----------------------------------------------------------------------------
(* The envelopes of the events that this step of the manager emits.        *)
News == [i \in 1..(lastEventId' - lastEventId) |->
            [id |-> lastEventId + i, event |-> log'[lastEventId + i]]]

(* Every event the manager emits is written to each response that is still *)
(* open, in the same step; `done` ends the response.                       *)
Broadcast ==
    LET over == \E i \in DOMAIN News : News[i].event.type = "done"
    IN /\ wire' = [o \in Observers |-> IF open[o] THEN wire[o] \o News ELSE wire[o]]
       /\ open' = [o \in Observers |-> open[o] /\ ~over]

ManagerStep ==
    /\ ManagerNext
    /\ Broadcast
    /\ UNCHANGED <<phase, lastId, drops, view>>

(* The process ends after shutdown(), and every response with it.          *)
Exit ==
    /\ registry = "closed"
    /\ \E o \in Observers : open[o]
    /\ open' = [o \in Observers |-> FALSE]
    /\ UNCHANGED <<managerVars, phase, wire, lastId, drops, view>>

-----------------------------------------------------------------------------
(* GET /generations/:id/stream: catch up, then subscribe unless it is over *)
(* already.                                                                *)
Offer(o) ==
    /\ wire' = [wire EXCEPT ![o] = CatchUp(lastId[o])]
    /\ open' = [open EXCEPT ![o] = ~IsTerminal(state)]
    /\ lastId' = lastId

(* 404: EventSource goes to CLOSED and onerror() reports a failed run.     *)
GiveUp(o) ==
    /\ phase' = [phase EXCEPT ![o] = "closed"]
    /\ shown' = [shown EXCEPT ![o] = IF IsTerminal(@) THEN @ ELSE "failed"]
    /\ guessed' = [guessed EXCEPT ![o] = guessed[o] \/ ~IsTerminal(shown[o])]
    /\ UNCHANGED <<wire, open, lastId>>

(* A tab turns to the generation: a new EventSource over a blank view.     *)
Watch(o) ==
    /\ phase[o] = "away"
    /\ shown[o] = Idle
    /\ shown' = [shown EXCEPT ![o] = "pending"]
    /\ phase' = [phase EXCEPT ![o] = "retrying"]
    /\ UNCHANGED <<managerVars, wire, open, lastId, drops, applied, unflushed, guessed>>

Connect(o) ==
    /\ phase[o] = "retrying"
    /\ IF registry = "held"
       THEN /\ Offer(o)
            /\ phase' = [phase EXCEPT ![o] = "live"]
            /\ UNCHANGED <<shown, guessed>>
       ELSE GiveUp(o)
    /\ UNCHANGED <<managerVars, drops, applied, unflushed>>

(* useGeneration's handler: deltas wait for the frame, pictures replace,   *)
(* `done` flushes.                                                         *)
Receive(o, event) ==
    /\ shown' = [shown EXCEPT ![o] = IF event.type \in Parts THEN @ ELSE event.state]
    /\ applied' = [applied EXCEPT ![o] =
           IF event.type \in {"snapshot", "resync"} THEN event.text
           ELSE IF event.type = "done" THEN Joined(@, unflushed[o]) ELSE @]
    /\ unflushed' = [unflushed EXCEPT ![o] =
           IF event.type \in Parts THEN [unflushed[o] EXCEPT ![event.type] = Append(@, event.delta)]
           ELSE IF event.type \in {"resync", "done"} THEN NoText ELSE @]

Deliver(o) ==
    /\ phase[o] = "live"
    /\ wire[o] # << >>
    /\ LET envelope == Head(wire[o])
       IN /\ Receive(o, envelope.event)
          /\ lastId' = [lastId EXCEPT ![o] = envelope.id]
          /\ phase' = [phase EXCEPT ![o] = IF envelope.event.type = "done" THEN "closed" ELSE @]
    /\ wire' = [wire EXCEPT ![o] = Tail(@)]
    /\ UNCHANGED <<managerVars, open, drops, guessed>>

(* The animation frame folds the waiting deltas into the view.             *)
Frame(o) ==
    /\ phase[o] \in {"live", "retrying", "closed"}
    /\ unflushed[o] # NoText
    /\ applied' = [applied EXCEPT ![o] = Joined(@, unflushed[o])]
    /\ unflushed' = [unflushed EXCEPT ![o] = NoText]
    /\ UNCHANGED <<managerVars, connection, shown, guessed>>

(* The server has ended the response and all of it was read: the browser   *)
(* takes it for a lost connection, unless `done` closed it before.         *)
HangUp(o) ==
    /\ phase[o] = "live"
    /\ wire[o] = << >>
    /\ ~open[o]
    /\ phase' = [phase EXCEPT ![o] = "retrying"]
    /\ UNCHANGED <<managerVars, wire, open, lastId, drops, view>>

(* The network loses the connection, with whatever was under way on it.    *)
Drop(o) ==
    /\ phase[o] = "live"
    /\ drops[o] < MaxDrops
    /\ drops' = [drops EXCEPT ![o] = @ + 1]
    /\ phase' = [phase EXCEPT ![o] = "retrying"]
    /\ wire' = [wire EXCEPT ![o] = << >>]
    /\ open' = [open EXCEPT ![o] = FALSE]
    /\ UNCHANGED <<managerVars, lastId, view>>

(* The reader opens another conversation or reloads: the effect's cleanup. *)
(* The next visit starts from nothing.                                     *)
Leave(o) ==
    /\ Attached(o)
    /\ drops[o] < MaxDrops
    /\ drops' = [drops EXCEPT ![o] = @ + 1]
    /\ phase' = [phase EXCEPT ![o] = "away"]
    /\ wire' = [wire EXCEPT ![o] = << >>]
    /\ open' = [open EXCEPT ![o] = FALSE]
    /\ lastId' = [lastId EXCEPT ![o] = None]
    /\ shown' = [shown EXCEPT ![o] = Idle]
    /\ applied' = [applied EXCEPT ![o] = NoText]
    /\ unflushed' = [unflushed EXCEPT ![o] = NoText]
    /\ UNCHANGED <<managerVars, guessed>>

(* The effect of App.tsx: as soon as the state shown is terminal the tab   *)
(* lets go of the generation and refetches the conversation.               *)
Settle(o) ==
    /\ phase[o] \notin {"away", "settled"}
    /\ IsTerminal(shown[o])
    /\ phase' = [phase EXCEPT ![o] = "settled"]
    /\ wire' = [wire EXCEPT ![o] = << >>]
    /\ open' = [open EXCEPT ![o] = FALSE]
    /\ UNCHANGED <<managerVars, lastId, drops, shown, applied, unflushed, guessed>>

ObserverNext(o) ==
    \/ Watch(o)
    \/ Connect(o)
    \/ Deliver(o)
    \/ Frame(o)
    \/ HangUp(o)
    \/ Drop(o)
    \/ Leave(o)
    \/ Settle(o)

Next == ManagerStep \/ Exit \/ \E o \in Observers : ObserverNext(o)

-----------------------------------------------------------------------------
(* A provider request ends, by its own timeout if need be                  *)
(* (llamacpp.ts:152), and so does the preparation of a continuation;       *)
(* timers fire while the process lives; the persister's file operations    *)
(* end; an EventSource reconnects, reads and renders.  Chunks, cancels,    *)
(* evictions, shutdowns, drops and visits owe nothing to anybody.          *)
RunMovesOn ==
    /\ \/ AwaitContinuation
       \/ TakeSecondTurn
       \/ Complete
       \/ \E outcome \in {"failed", "timed_out"} : Fail(outcome)
       \/ Unwind
    /\ Broadcast
    /\ UNCHANGED <<phase, lastId, drops, view>>

TimerFires ==
    /\ registry # "closed"
    /\ GraceExpires
    /\ Broadcast
    /\ UNCHANGED <<phase, lastId, drops, view>>

Fairness ==
    /\ WF_vars(RunMovesOn)
    /\ WF_vars(TimerFires)
    /\ WF_vars(Exit)
    /\ \A o \in Observers :
           /\ WF_vars(Connect(o))
           /\ WF_vars(Deliver(o))
           /\ WF_vars(HangUp(o))
           /\ WF_vars(Settle(o))

Spec == Init /\ [][Next]_vars /\ Fairness

-----------------------------------------------------------------------------
(* How many of the first n events of a log carry a piece of the part p.    *)
Pieces(es, p, n) == Cardinality({i \in 1..n : es[i].type = p})

(* t is what the first n events carry: as many pieces of each part as they *)
(* hold, the k-th piece in the k-th place.                                 *)
Carries(t, n) ==
    \A p \in Parts :
        /\ Len(t[p]) = Pieces(log, p, n)
        /\ \A i \in 1..n : log[i].type = p => t[p][Pieces(log, p, i)] = log[i].delta

(* What a tab has taken in is exactly what was emitted up to the id it     *)
(* will report when it reconnects: nothing missing, nothing twice, across  *)
(* drops, replays and resyncs and with deltas still waiting for a frame    *)
(* (INV-20; the client does not deduplicate, useGeneration.ts:37-40).  And *)
(* a tab that settles on an outcome it was told, rather than concluded     *)
(* from a 404, has the outcome of the run and the whole of its text.       *)
NoSilentGap ==
    \A o \in Observers :
        /\ Attached(o) /\ lastId[o] # None
               => Carries(Joined(applied[o], unflushed[o]), lastId[o])
        /\ phase[o] = "settled" /\ ~guessed[o]
               => /\ shown[o] = state
                  /\ Joined(applied[o], unflushed[o]) = text

(* Nobody watches for ever: whoever is attached settles, or goes away,     *)
(* although the record may be evicted, the process stop, and storing the   *)
(* reply never finish.                                                     *)
EveryObserverSettles ==
    \A o \in Observers : Attached(o) ~> phase[o] \in {"settled", "away"}

=============================================================================
