------------------------------ MODULE FifoLock ------------------------------
(***************************************************************************)
(* What a keyed lock promises, and nothing about how: a caller joins the   *)
(* line of its key behind everybody who is in it, enters when all of those *)
(* have left, and holds the key until it leaves in its turn.               *)
(*                                                                         *)
(* The line is the set of those in it, and each remembers who stands ahead *)
(* of it: two callers of one key are never both without somebody ahead.    *)
(*                                                                         *)
(* KeyedLock (the promise chains of server/storage/locks.ts) is shown to   *)
(* implement it; ConversationService uses lines of this kind for the       *)
(* conversation lock and for the index queue.                              *)
(***************************************************************************)
CONSTANTS Calls,      \* the invocations of run()
          KeyOf       \* the key each call asks for

VARIABLES line,       \* the calls in line, those inside included
          ahead,      \* the calls of its key still ahead of each
          inside      \* the calls whose function is executing

Init ==
    /\ line = {}
    /\ ahead = [c \in Calls |-> {}]
    /\ inside = {}

(* A call joins behind everybody of its key: nobody is ever passed over.   *)
Arrive(c) ==
    /\ c \notin line
    /\ line' = line \union {c}
    /\ ahead' = [ahead EXCEPT ![c] = {d \in line : KeyOf[d] = KeyOf[c]}]
    /\ UNCHANGED inside

(* Only a call with nobody ahead of it may enter.                          *)
Enter(c) ==
    /\ c \in line \ inside
    /\ ahead[c] = {}
    /\ inside' = inside \union {c}
    /\ UNCHANGED <<line, ahead>>

Leave(c) ==
    /\ c \in inside
    /\ line' = line \ {c}
    /\ ahead' = [d \in Calls |-> ahead[d] \ {c}]
    /\ inside' = inside \ {c}

Next == \E c \in Calls : Arrive(c) \/ Enter(c) \/ Leave(c)

Spec == Init /\ [][Next]_<<line, ahead, inside>>

=============================================================================
