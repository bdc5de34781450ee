--------------------------- MODULE KeyedLock_proofs ---------------------------
(***************************************************************************)
(* The keyed lock excludes and serves in order for every set of calls and  *)
(* keys.  Neither fact is inductive: both follow from what the chain of    *)
(* promises says about arrival, which is the invariant IInv below.         *)
(***************************************************************************)
EXTENDS KeyedLock, TLAPS

Arrived(c) == phase[c] # "idle"

(* Tickets are handed out once: two calls that have arrived are comparable. *)
TicketsDistinct ==
    /\ \A c \in Calls : Arrived(c) => ticket[c] < clock
    /\ \A c, d \in Calls :
          Arrived(c) /\ Arrived(d) /\ ticket[c] = ticket[d] => c = d

(* The stored promise belongs to the latest call that has not ended.       *)
TailIsLatest ==
    /\ \A k \in Keys :
          chains[k] # NoCall => /\ phase[chains[k]] \notin {"idle", "returned"}
                                /\ KeyOf[chains[k]] = k
    /\ \A c \in Calls : Live(c) =>
          /\ chains[KeyOf[c]] # NoCall
          /\ ticket[c] <= ticket[chains[KeyOf[c]]]

(* A waiting call is chained behind the last of those that arrived before  *)
(* it and have not ended.                                                  *)
ChainedBehindAll ==
    \A c \in Calls : phase[c] = "waiting" =>
        /\ previous[c] # NoCall =>
              /\ Arrived(previous[c])
              /\ SameKey(previous[c], c)
              /\ ticket[previous[c]] < ticket[c]
        /\ \A d \in Calls :
              SameKey(c, d) /\ Live(d) /\ ticket[d] < ticket[c]
                => previous[c] # NoCall /\ ticket[d] <= ticket[previous[c]]

IInv ==
    /\ TypeOK
    /\ TicketsDistinct
    /\ TailIsLatest
    /\ ChainedBehindAll
    /\ ServedInOrder

LEMMA TypePreserved == TypeOK /\ [Next]_vars => TypeOK'
<1> SUFFICES ASSUME TypeOK, [Next]_vars PROVE TypeOK'
  OBVIOUS
<1> USE KeyOfAssumption, NoCallAssumption DEF TypeOK, Phases, Outcomes
<1>1. ASSUME NEW c \in Calls, Run(c) PROVE TypeOK'
  BY <1>1 DEF Run
<1>2. ASSUME NEW c \in Calls, Enter(c) PROVE TypeOK'
  BY <1>2 DEF Enter
<1>3. ASSUME NEW c \in Calls, Settle(c) PROVE TypeOK'
  BY <1>3 DEF Settle
<1>4. ASSUME NEW c \in Calls, Return(c) PROVE TypeOK'
  BY <1>4 DEF Return
<1>5. CASE UNCHANGED vars
  BY <1>5 DEF vars
<1>6. QED
  BY <1>1, <1>2, <1>3, <1>4, <1>5 DEF Next

(* Every step keeps the state in the types of the declaration.             *)
THEOREM TypeCorrect == Spec => []TypeOK
<1>1. Init => TypeOK
  BY KeyOfAssumption, NoCallAssumption DEF Init, TypeOK, Phases, Outcomes
<1>2. QED
  BY <1>1, TypePreserved, PTL DEF Spec

LEMMA InitIInv == Init => IInv
BY KeyOfAssumption, NoCallAssumption
   DEF Init, IInv, TypeOK, Phases, Outcomes, TicketsDistinct, TailIsLatest,
       ChainedBehindAll, ServedInOrder, Arrived, Live, SameKey, Finished

(* A new call takes the largest ticket and chains behind the stored one,   *)
(* which is the latest live call.                                          *)
LEMMA RunKeepsIInv ==
    ASSUME IInv, TypeOK', NEW c \in Calls, Run(c) PROVE IInv'
<1> USE KeyOfAssumption, NoCallAssumption DEF TypeOK, Arrived, SameKey, Live, Finished
<1>1. TicketsDistinct'
  BY DEF IInv, TicketsDistinct, Run
<1>2. TailIsLatest'
  BY DEF IInv, TailIsLatest, TicketsDistinct, Run
<1>3. ChainedBehindAll'
  BY DEF IInv, ChainedBehindAll, TailIsLatest, TicketsDistinct, Run
<1>4. ServedInOrder'
  BY DEF IInv, ServedInOrder, TicketsDistinct, Run
<1>5. QED
  BY <1>1, <1>2, <1>3, <1>4 DEF IInv

(* Entering needs the predecessor ended, hence all that came before it.    *)
LEMMA EnterKeepsIInv ==
    ASSUME IInv, TypeOK', NEW c \in Calls, Enter(c) PROVE IInv'
<1> USE KeyOfAssumption, NoCallAssumption DEF TypeOK, Arrived, SameKey, Live, Finished, Phases
<1>1. TicketsDistinct'
  BY DEF IInv, TicketsDistinct, Enter
<1>2. TailIsLatest'
  BY DEF IInv, TailIsLatest, Enter
<1>3. ChainedBehindAll'
  BY DEF IInv, ChainedBehindAll, Enter
<1>4. \A d \in Calls :
         SameKey(c, d) /\ Arrived(d) /\ ticket[d] < ticket[c] => ~ Live(d)
  <2> SUFFICES ASSUME NEW d \in Calls, SameKey(c, d), Live(d), ticket[d] < ticket[c]
               PROVE FALSE
    OBVIOUS
  <2>1. /\ previous[c] \in Calls
        /\ Finished(previous[c])
        /\ SameKey(previous[c], c)
        /\ ticket[d] <= ticket[previous[c]]
    BY DEF IInv, Enter, Released, ChainedBehindAll
  <2>2. CASE ticket[d] = ticket[previous[c]]
    BY <2>1, <2>2 DEF IInv, TicketsDistinct
  <2>3. CASE ticket[d] < ticket[previous[c]]
    BY <2>1, <2>3 DEF IInv, ServedInOrder
  <2>4. QED
    BY <2>1, <2>2, <2>3 DEF IInv
<1>5. ServedInOrder'
  BY <1>4 DEF IInv, ServedInOrder, Enter
<1>6. QED
  BY <1>1, <1>2, <1>3, <1>5 DEF IInv

LEMMA SettleKeepsIInv ==
    ASSUME IInv, TypeOK', NEW c \in Calls, Settle(c) PROVE IInv'
<1> USE KeyOfAssumption, NoCallAssumption DEF TypeOK, Arrived, SameKey, Live, Finished, Phases
<1>1. TicketsDistinct'
  BY DEF IInv, TicketsDistinct, Settle
<1>2. TailIsLatest'
  BY DEF IInv, TailIsLatest, Settle
<1>3. ChainedBehindAll'
  BY DEF IInv, ChainedBehindAll, Settle
<1>4. ServedInOrder'
  BY DEF IInv, ServedInOrder, Settle
<1>5. QED
  BY <1>1, <1>2, <1>3, <1>4 DEF IInv

(* The entry is removed only by the latest call of the key, and when that  *)
(* one has ended every other has.                                          *)
LEMMA ReturnKeepsIInv ==
    ASSUME IInv, TypeOK', NEW c \in Calls, Return(c) PROVE IInv'
<1> USE KeyOfAssumption, NoCallAssumption DEF TypeOK, Arrived, SameKey, Live, Finished, Phases
<1>1. TicketsDistinct'
  BY DEF IInv, TicketsDistinct, Return
<1>2. ASSUME chains[KeyOf[c]] = c, NEW d \in Calls, KeyOf[d] = KeyOf[c]
      PROVE ~ Live(d)
  <2> SUFFICES ASSUME Live(d) PROVE FALSE
    OBVIOUS
  <2>1. ticket[d] <= ticket[c] /\ d # c
    BY <1>2 DEF IInv, TailIsLatest, Return
  <2>2. ticket[d] < ticket[c]
    BY <2>1 DEF IInv, TicketsDistinct, Return
  <2>3. QED
    BY <1>2, <2>2 DEF IInv, ServedInOrder, Return
<1>3. TailIsLatest'
  BY <1>2 DEF IInv, TailIsLatest, Return
<1>4. ChainedBehindAll'
  BY DEF IInv, ChainedBehindAll, Return
<1>5. ServedInOrder'
  BY DEF IInv, ServedInOrder, Return
<1>6. QED
  BY <1>1, <1>3, <1>4, <1>5 DEF IInv

(* The chain of promises always ends in the latest call that has not ended. *)
THEOREM Chained == Spec => []IInv
<1>1. IInv /\ [Next]_vars => IInv'
  <2> SUFFICES ASSUME IInv, [Next]_vars PROVE IInv'
    OBVIOUS
  <2>0. TypeOK'
    BY TypePreserved DEF IInv
  <2>1. CASE UNCHANGED vars
    BY <2>1 DEF vars, IInv, TypeOK, TicketsDistinct, TailIsLatest, ChainedBehindAll,
                ServedInOrder, Arrived, Live, SameKey, Finished
  <2>2. QED
    BY <2>0, <2>1, RunKeepsIInv, EnterKeepsIInv, SettleKeepsIInv, ReturnKeepsIInv DEF Next
<1>2. QED
  BY InitIInv, <1>1, PTL DEF Spec

(* Waiters are served in the order they arrived (locks.ts:18).             *)
THEOREM ServesInOrder == Spec => []ServedInOrder
<1>1. IInv => ServedInOrder
  BY DEF IInv
<1>2. QED
  BY Chained, <1>1, PTL

(* Two functions never run at once under one key (locks.ts:4-7).           *)
THEOREM Excludes == Spec => []MutualExclusion
<1>1. IInv => MutualExclusion
  BY DEF IInv, TypeOK, TicketsDistinct, ServedInOrder, MutualExclusion,
         Arrived, SameKey, Finished
<1>2. QED
  BY Chained, <1>1, PTL

(* A key nobody uses has no entry, so the map cannot grow for ever         *)
(* (locks.ts:38).                                                          *)
THEOREM Drains == Spec => []MapDrains
<1>1. IInv => MapDrains
  BY DEF IInv, TypeOK, TailIsLatest, MapDrains
<1>2. QED
  BY Chained, <1>1, PTL

-----------------------------------------------------------------------------
(* A caller arrives behind everybody of its key who has not ended.         *)
LEMMA RunArrives ==
    ASSUME IInv, NEW c \in Calls, Run(c) PROVE Fifo!Arrive(c)
<1>1. c \notin InLine /\ InLine' = InLine \union {c} /\ UNCHANGED Inside
  BY DEF IInv, TypeOK, Phases, Live, InLine, Inside, Run
<1>2. \A d \in Calls \ {c} : AheadOf(d)' = AheadOf(d)
  BY DEF IInv, TypeOK, TicketsDistinct, Arrived, Live, SameKey, AheadOf, Run
<1>3. AheadOf(c)' = {d \in InLine : KeyOf[d] = KeyOf[c]}
  BY DEF IInv, TypeOK, TicketsDistinct, Arrived, Live, SameKey, InLine, AheadOf, Run
<1>4. [d \in Calls |-> AheadOf(d)]'
        = [[d \in Calls |-> AheadOf(d)] EXCEPT ![c] = {d \in InLine : KeyOf[d] = KeyOf[c]}]
  BY <1>2, <1>3
<1>5. QED
  BY <1>1, <1>4 DEF Fifo!Arrive

(* Whoever enters has nobody of its key ahead of it: the call it is        *)
(* chained behind has ended, and with it all that came before.             *)
LEMMA EnterEnters ==
    ASSUME IInv, IInv', NEW c \in Calls, Enter(c) PROVE Fifo!Enter(c)
<1> USE KeyOfAssumption DEF IInv, TypeOK, Phases, Live, SameKey, InLine, AheadOf, Inside
<1>1. c \in InLine \ Inside /\ Inside' = Inside \union {c} /\ UNCHANGED InLine
  BY DEF Enter
<1>2. \A d \in Calls : AheadOf(d)' = AheadOf(d)
  BY DEF Enter
<1>3. AheadOf(c)' = {}
  BY DEF Enter, ServedInOrder, Finished
<1>4. QED
  BY <1>1, <1>2, <1>3 DEF Fifo!Enter

LEMMA SettleLeaves ==
    ASSUME IInv, NEW c \in Calls, Settle(c) PROVE Fifo!Leave(c)
<1> USE KeyOfAssumption DEF IInv, TypeOK, Phases, Live, SameKey, InLine, AheadOf, Inside
<1>1. c \in Inside /\ InLine' = InLine \ {c} /\ Inside' = Inside \ {c}
  BY DEF Settle
<1>2. AheadOf(c) = {}
  BY DEF Settle, ServedInOrder, Finished
<1>3. \A d \in Calls : AheadOf(d)' = AheadOf(d) \ {c}
  BY <1>2 DEF Settle
<1>4. QED
  BY <1>1, <1>3 DEF Fifo!Leave

(* Clearing the map entry is no step of the line.                          *)
LEMMA ReturnStutters ==
    ASSUME IInv, NEW c \in Calls, Return(c)
    PROVE  UNCHANGED <<InLine, [d \in Calls |-> AheadOf(d)], Inside>>
<1> USE DEF IInv, TypeOK, Phases, Live, SameKey, InLine, AheadOf, Inside
<1>1. UNCHANGED <<InLine, Inside>>
  BY DEF Return
<1>2. \A d \in Calls : AheadOf(d)' = AheadOf(d)
  BY DEF Return
<1>3. QED
  BY <1>1, <1>2

(* The chain of promises is a first-come, first-served line per key        *)
(* (locks.ts:18-39), for any number of calls and keys.                     *)
THEOREM RefinesFifoLock == Spec => ImplementsFifoLock
<1>1. Init => Fifo!Init
  BY DEF Init, Fifo!Init, InLine, AheadOf, Inside, Live
<1>2. IInv /\ IInv' /\ [Next]_vars
        => [Fifo!Next]_<<InLine, [c \in Calls |-> AheadOf(c)], Inside>>
  <2> SUFFICES ASSUME IInv, IInv', [Next]_vars
               PROVE  [Fifo!Next]_<<InLine, [c \in Calls |-> AheadOf(c)], Inside>>
    OBVIOUS
  <2>1. CASE UNCHANGED vars
    BY <2>1 DEF vars, InLine, AheadOf, Inside, Live, SameKey
  <2>2. ASSUME NEW c \in Calls, Run(c) \/ Enter(c) \/ Settle(c)
        PROVE  Fifo!Next
    BY <2>2, RunArrives, EnterEnters, SettleLeaves DEF Fifo!Next
  <2>3. QED
    BY <2>1, <2>2, ReturnStutters DEF Next
<1>3. QED
  BY <1>1, <1>2, Chained, PTL DEF Spec, ImplementsFifoLock, Fifo!Spec

=============================================================================
