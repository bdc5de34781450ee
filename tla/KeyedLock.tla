------------------------------ MODULE KeyedLock ------------------------------
(***************************************************************************)
(* KeyedLock of server/storage/locks.ts.                                   *)
(*                                                                         *)
(* There is no queue in the code.  Each call to run() chains its function  *)
(* behind the promise stored for the key, stores its own promise in its    *)
(* place, and removes the map entry at the end if it is still its own.     *)
(* Mutual exclusion and arrival order are consequences of that chain, and  *)
(* are what every read-modify-write of the canonical files rests on.       *)
(*                                                                         *)
(* A call is one invocation of run(): it happens once.                     *)
(***************************************************************************)
EXTENDS Naturals, FiniteSets

CONSTANTS Calls,      \* the invocations of run()
          Keys,       \* the resources being locked
          KeyOf,      \* the key each call asks for
          NoCall      \* the absent map entry: the key is free

ASSUME KeyOfAssumption == KeyOf \in [Calls -> Keys]
ASSUME NoCallAssumption == NoCall \notin Calls

VARIABLES chains,     \* #chains: the call whose promise is stored, by key
          previous,   \* the promise each call chained itself behind
          phase,      \* where each call is
          outcome,    \* how its function ended
          ticket,     \* history: the order in which the calls arrived
          clock       \* history: the next ticket

vars == <<chains, previous, phase, outcome, ticket, clock>>

Phases == {"idle", "waiting", "running", "settled", "returned"}
Outcomes == {"none", "fulfilled", "rejected"}

TypeOK ==
    /\ chains \in [Keys -> Calls \union {NoCall}]
    /\ previous \in [Calls -> Calls \union {NoCall}]
    /\ phase \in [Calls -> Phases]
    /\ outcome \in [Calls -> Outcomes]
    /\ ticket \in [Calls -> Nat]
    /\ clock \in Nat

(* The chain promise of a call resolves when its function has ended,       *)
(* whichever way it ended.                                                 *)
Finished(c) == phase[c] \in {"settled", "returned"}
Live(c) == phase[c] \in {"waiting", "running"}
SameKey(c, d) == KeyOf[c] = KeyOf[d]

Init ==
    /\ chains = [k \in Keys |-> NoCall]
    /\ previous = [c \in Calls |-> NoCall]
    /\ phase = [c \in Calls |-> "idle"]
    /\ outcome = [c \in Calls |-> "none"]
    /\ ticket = [c \in Calls |-> 0]
    /\ clock = 1

-----------------------------------------------------------------------------
(* Slips of the kind this code invites, used to show that the properties   *)
(* can fail.                                                               *)

RunWithoutStoring(c) ==
    /\ phase[c] = "idle"
    /\ previous' = [previous EXCEPT ![c] = chains[KeyOf[c]]]
    /\ chains' = IF chains[KeyOf[c]] = NoCall
                 THEN [chains EXCEPT ![KeyOf[c]] = c] ELSE chains
    /\ phase' = [phase EXCEPT ![c] = "waiting"]
    /\ ticket' = [ticket EXCEPT ![c] = clock]
    /\ clock' = clock + 1
    /\ UNCHANGED outcome

ReleasedOnlyByFulfilment(c) ==
    previous[c] # NoCall => /\ Finished(previous[c])
                            /\ outcome[previous[c]] = "fulfilled"

ReleasedAlways(c) == TRUE

ReturnDeletingAlways(c) ==
    /\ phase[c] = "settled"
    /\ phase' = [phase EXCEPT ![c] = "returned"]
    /\ chains' = [chains EXCEPT ![KeyOf[c]] = NoCall]
    /\ UNCHANGED <<previous, outcome, ticket, clock>>

ReturnNeverDeleting(c) ==
    /\ phase[c] = "settled"
    /\ phase' = [phase EXCEPT ![c] = "returned"]
    /\ UNCHANGED <<chains, previous, outcome, ticket, clock>>

-----------------------------------------------------------------------------
(* run(): chain behind what is stored, and store the own chain, in one     *)
(* synchronous stretch.                                                    *)
Run(c) ==
    /\ phase[c] = "idle"
    /\ previous' = [previous EXCEPT ![c] = chains[KeyOf[c]]]
    /\ chains' = [chains EXCEPT ![KeyOf[c]] = c]
    /\ phase' = [phase EXCEPT ![c] = "waiting"]
    /\ ticket' = [ticket EXCEPT ![c] = clock]
    /\ clock' = clock + 1
    /\ UNCHANGED outcome

(* previous.then(fn, fn): a rejection releases the next call just the same. *)
Released(c) == previous[c] # NoCall => Finished(previous[c])

Enter(c) ==
    /\ phase[c] = "waiting"
    /\ Released(c)
    /\ phase' = [phase EXCEPT ![c] = "running"]
    /\ UNCHANGED <<chains, previous, outcome, ticket, clock>>

(* The function's promise settles, and with it the chain built on it.      *)
Settle(c) ==
    /\ phase[c] = "running"
    /\ phase' = [phase EXCEPT ![c] = "settled"]
    /\ \E o \in {"fulfilled", "rejected"} : outcome' = [outcome EXCEPT ![c] = o]
    /\ UNCHANGED <<chains, previous, ticket, clock>>

(* The finally block: clear the entry unless somebody queued behind.       *)
Return(c) ==
    /\ phase[c] = "settled"
    /\ phase' = [phase EXCEPT ![c] = "returned"]
    /\ chains' = IF chains[KeyOf[c]] = c
                 THEN [chains EXCEPT ![KeyOf[c]] = NoCall] ELSE chains
    /\ UNCHANGED <<previous, outcome, ticket, clock>>

Next == \E c \in Calls : Run(c) \/ Enter(c) \/ Settle(c) \/ Return(c)

(* Promise reactions are never dropped, so Enter and Return are fair; the  *)
(* locked functions await only file operations, which end, so Settle is    *)
(* too.  Nothing obliges anybody to call run().                            *)
Fairness == \A c \in Calls : WF_vars(Enter(c)) /\ WF_vars(Settle(c)) /\ WF_vars(Return(c))

Spec == Init /\ [][Next]_vars /\ Fairness

-----------------------------------------------------------------------------
(* Two functions never run at once under one key: the file that one of     *)
(* them has read cannot change before it writes it back.                   *)
MutualExclusion ==
    \A c, d \in Calls :
        /\ SameKey(c, d)
        /\ phase[c] = "running"
        /\ phase[d] = "running"
        => c = d

(* Waiters are served in the order they arrived: once a call has entered,  *)
(* every call of its key that arrived before it has ended.                 *)
ServedInOrder ==
    \A c, d \in Calls :
        /\ SameKey(c, d)
        /\ phase[c] # "idle"
        /\ ticket[c] < ticket[d]
        /\ phase[d] \in {"running", "settled", "returned"}
        => Finished(c)

(* The map does not grow for ever: a key that nobody is using has no       *)
(* entry, whatever the order in which its calls came and went.             *)
MapDrains ==
    \A k \in Keys :
        (\A c \in Calls : KeyOf[c] = k => phase[c] \in {"idle", "returned"})
            => chains[k] = NoCall

(* Nobody waits for ever behind a call that ended, whichever way it ended. *)
EveryCallReturns ==
    \A c \in Calls : phase[c] = "waiting" ~> phase[c] = "returned"

-----------------------------------------------------------------------------
(* The line the promise chain stands for: the calls that have not ended,   *)
(* each behind those of its key that arrived before it.                    *)
InLine == {c \in Calls : Live(c)}
AheadOf(c) == {d \in Calls : /\ SameKey(c, d)
                             /\ Live(c)
                             /\ Live(d)
                             /\ ticket[d] < ticket[c]}
Inside == {c \in Calls : phase[c] = "running"}

Fifo == INSTANCE FifoLock WITH
            line <- InLine,
            ahead <- [c \in Calls |-> AheadOf(c)],
            inside <- Inside

(* The chain of promises is a first-come, first-served line per key, which *)
(* is what every user of locks.run() assumes of it (locks.ts:18-39).       *)
ImplementsFifoLock == Fifo!Spec

=============================================================================
