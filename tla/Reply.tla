------------------------------- MODULE Reply -------------------------------
(***************************************************************************)
(* What a generation promises to whoever reads it, and nothing about       *)
(* providers, continuations, replay or timers (INV-05): the reply only     *)
(* grows, it reaches one outcome, from then on not a word of it changes,   *)
(* and its end is announced once, after the outcome.                       *)
(***************************************************************************)
EXTENDS Sequences

CONSTANTS Parts,      \* the parts of a reply: its content and its reasoning
          Deltas,     \* the pieces a provider may send
          Outcomes,   \* the terminal states
          NoOutcome   \* the reply is still open

VARIABLES text,       \* the deltas of each part so far
          outcome,
          announced   \* "done" has been said

Init ==
    /\ text = [p \in Parts |-> << >>]
    /\ outcome = NoOutcome
    /\ announced = FALSE

Speak(p, delta) ==
    /\ outcome = NoOutcome
    /\ text' = [text EXCEPT ![p] = Append(@, delta)]
    /\ UNCHANGED <<outcome, announced>>

(* The end may be announced with the outcome, or later, once the reply has *)
(* been stored.                                                            *)
Conclude(o) ==
    /\ outcome = NoOutcome
    /\ outcome' = o
    /\ announced' \in BOOLEAN
    /\ UNCHANGED text

Announce ==
    /\ outcome # NoOutcome
    /\ ~announced
    /\ announced' = TRUE
    /\ UNCHANGED <<text, outcome>>

Next ==
    \/ \E p \in Parts, delta \in Deltas : Speak(p, delta)
    \/ \E o \in Outcomes : Conclude(o)
    \/ Announce

Spec == Init /\ [][Next]_<<text, outcome, announced>>

=============================================================================
