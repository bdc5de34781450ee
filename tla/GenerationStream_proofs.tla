----------------------- MODULE GenerationStream_proofs -----------------------
(***************************************************************************)
(* First the generation by itself, for every size of the replay window and *)
(* every length of the run: the window is the tail of what was emitted,    *)
(* the end of the generation is told once and last, and a completed reply  *)
(* is not called done before its storage was tried or the grace period ran *)
(* out.  Then the tabs that watch it, for every number of them: none       *)
(* misses a piece of the reply or takes one in twice, whenever its         *)
(* connection is lost and wherever it resumes.                             *)
(***************************************************************************)
EXTENDS GenerationStream, SequenceTheorems, FiniteSetTheorems, TLAPS

(* The events that tell the end.                                           *)
Ending(event) ==
    \/ event.type = "done"
    \/ event.type = "state" /\ IsTerminal(event.state)

(* How many events precede the end, if it has been told.                   *)
Spoken ==
    IF IsTerminal(state) THEN (IF doneEmitted THEN Len(log) - 2 ELSE Len(log) - 1)
    ELSE Len(log)

(* EndsOnce says where an ending event may not be.  To be carried from a   *)
(* step to the next it has to say where they are: the terminal state right *)
(* after the last word, `done` right after the terminal state.             *)
LogShape ==
    /\ Spoken \in 0..Len(log)
    /\ \A i \in 1..Spoken : ~Ending(log[i])
    /\ IsTerminal(state) => log[Spoken + 1] = StateChange(state)
    /\ doneEmitted => IsTerminal(state) /\ log[Spoken + 2] = Done(state)

(* Only a terminal state arms the timer, so what it emits has an outcome.  *)
TimerAfterTheEnd == timerArmed => IsTerminal(state)

IInv ==
    /\ TypeOK
    /\ ReplayWindow
    /\ LogShape
    /\ TimerAfterTheEnd
    /\ DoneMeansStored

-----------------------------------------------------------------------------
LEMMA LastOfTail ==
  ASSUME NEW S, NEW s \in Seq(S), NEW n \in Nat \ {0}
  PROVE  /\ LastOf(s, n) \in Seq(S)
         /\ Len(LastOf(s, n)) = IF Len(s) > n THEN n ELSE Len(s)
         /\ \A i \in 1..Len(LastOf(s, n)) :
                LastOf(s, n)[i] = s[Len(s) - Len(LastOf(s, n)) + i]
<1> DEFINE m == IF Len(s) > n THEN Len(s) - n + 1 ELSE 1
           t == SubSeq(s, m, Len(s))
<1>1. Len(s) \in Nat /\ n \in Nat \ {0} /\ \A i \in 1..Len(s) : s[i] \in S
  OBVIOUS
<1>2. m = IF Len(s) > n THEN Len(s) - n + 1 ELSE 1
  OBVIOUS
<1>3. LastOf(s, n) = t
  BY DEF LastOf
<1> HIDE DEF m
<1>4. m \in Nat \ {0}
  BY <1>1, <1>2
<1>5. /\ t \in Seq(S)
      /\ Len(t) = IF m <= Len(s) THEN Len(s) - m + 1 ELSE 0
      /\ \A i \in 1..(Len(s) - m + 1) : t[i] = s[m + i - 1]
  <2>1. m \in Int /\ Len(s) \in Int /\ \A i \in m..Len(s) : s[i] \in S
    BY <1>1, <1>4
  <2>2. QED
    BY <2>1, SubSeqProperties
<1> HIDE DEF t
<1>6. Len(t) = IF Len(s) > n THEN n ELSE Len(s)
  <2>1. Len(t) = IF m <= Len(s) THEN Len(s) - m + 1 ELSE 0
    BY <1>5
  <2>2. Len(s) \in Nat /\ n \in Nat /\ n > 0 /\ m \in Nat
    BY <1>1, <1>4
  <2>3. CASE Len(s) > n
    BY <1>2, <2>1, <2>2, <2>3
  <2>4. CASE ~(Len(s) > n)
    BY <1>2, <2>1, <2>2, <2>4
  <2>5. QED
    BY <2>3, <2>4
<1>7. Len(t) \in Nat /\ Len(t) = Len(s) - m + 1
  BY <1>1, <1>2, <1>4, <1>6
<1>8. ASSUME NEW i \in 1..Len(t)
      PROVE  t[i] = s[Len(s) - Len(t) + i]
  <2>1. i \in 1..(Len(s) - m + 1) /\ m + i - 1 = Len(s) - Len(t) + i
    BY <1>1, <1>4, <1>7
  <2>2. QED
    BY <1>5, <2>1
<1>9. QED
  BY <1>3, <1>5, <1>6, <1>8

(* What one emission does, whatever it emits.                              *)
LEMMA Emitting ==
  ASSUME TypeOK, ReplayWindow, NEW es \in Seq(Event), Emit(es)
  PROVE  /\ log' \in Seq(Event)
         /\ lastEventId' \in Nat
         /\ replay' \in Seq(Envelope)
         /\ Len(log') = Len(log) + Len(es)
         /\ \A i \in 1..Len(log) : log'[i] = log[i]
         /\ \A i \in 1..Len(es) : log'[Len(log) + i] = es[i]
         /\ ReplayWindow'
<1> DEFINE new == [i \in 1..Len(es) |-> [id |-> lastEventId + i, event |-> es[i]]]
           wide == replay \o new
<1>1. /\ log \in Seq(Event)
      /\ replay \in Seq(Envelope)
      /\ lastEventId \in Nat
      /\ lastEventId = Len(log)
      /\ ReplayEvents \in Nat \ {0}
  BY ReplayAssumption DEF TypeOK, ReplayWindow
<1>2. /\ log' \in Seq(Event)
      /\ Len(log') = Len(log) + Len(es)
      /\ \A i \in 1..Len(log) : log'[i] = log[i]
      /\ \A i \in 1..Len(es) : log'[Len(log) + i] = es[i]
  <2>1. log' = log \o es
    BY DEF Emit
  <2>2. QED
    BY <1>1, <2>1, ConcatProperties
<1>3. new \in Seq(Envelope) /\ Len(new) = Len(es)
  <2>1. ASSUME NEW i \in 1..Len(es) PROVE new[i] \in Envelope
    BY <1>1 DEF Envelope
  <2>2. QED
    BY <2>1
<1>4. /\ wide \in Seq(Envelope)
      /\ Len(wide) = Len(replay) + Len(es)
      /\ \A i \in 1..Len(wide) : wide[i] = IF i <= Len(replay) THEN replay[i]
                                           ELSE new[i - Len(replay)]
  <2> HIDE DEF new
  <2> QED  BY <1>1, <1>3, ConcatProperties
<1>5. ASSUME NEW i \in 1..Len(wide)
      PROVE  LET id == Len(log') - Len(wide) + i
             IN wide[i] = [id |-> id, event |-> log'[id]]
  <2> HIDE DEF wide
  <2>1. CASE i <= Len(replay)
    <3>1. i \in 1..Len(replay) /\ Len(replay) \in 0..Len(log)
      <4>1. Len(replay) = IF Len(log) < ReplayEvents THEN Len(log) ELSE ReplayEvents
        BY DEF ReplayWindow
      <4>2. Len(log) \in Nat /\ Len(replay) \in Nat /\ Len(wide) \in Nat
        BY <1>1, <1>4
      <4>3. QED
        BY <1>1, <2>1, <4>1, <4>2
    <3>2. Len(log) - Len(replay) + i \in 1..Len(log)
      BY <1>1, <3>1
    <3>3. replay[i] = [id |-> Len(log) - Len(replay) + i,
                       event |-> log[Len(log) - Len(replay) + i]]
      BY <3>1 DEF ReplayWindow
    <3>4. wide[i] = replay[i]
      BY <1>4, <2>1
    <3>5. Len(log') - Len(wide) + i = Len(log) - Len(replay) + i
      BY <1>1, <1>2, <1>4
    <3>6. QED
      BY <1>2, <3>2, <3>3, <3>4, <3>5
  <2>2. CASE i > Len(replay)
    <3>1. i - Len(replay) \in 1..Len(es)
      BY <1>1, <1>4, <2>2
    <3>2. wide[i] = [id |-> Len(log) + (i - Len(replay)), event |-> es[i - Len(replay)]]
      <4>1. wide[i] = new[i - Len(replay)]
        BY <1>1, <1>4, <2>2
      <4>2. QED
        BY <1>1, <3>1, <4>1
    <3>3. log'[Len(log) + (i - Len(replay))] = es[i - Len(replay)]
      BY <1>2, <3>1
    <3>4. Len(log') - Len(wide) + i = Len(log) + (i - Len(replay))
      BY <1>1, <1>2, <1>4
    <3>5. QED
      BY <3>2, <3>3, <3>4
  <2>3. QED
    BY <1>1, <1>4, <2>1, <2>2
<1>6. replay' = LastOf(wide, ReplayEvents) /\ lastEventId' = lastEventId + Len(es)
  BY DEF Emit, Retain
<1>7. /\ replay' \in Seq(Envelope)
      /\ Len(replay') = IF Len(wide) > ReplayEvents THEN ReplayEvents ELSE Len(wide)
      /\ \A i \in 1..Len(replay') : replay'[i] = wide[Len(wide) - Len(replay') + i]
  <2> HIDE DEF wide
  <2> QED  BY <1>1, <1>4, <1>6, LastOfTail
<1>8. lastEventId' \in Nat /\ lastEventId' = Len(log')
  BY <1>1, <1>2, <1>6
<1>9. ReplayWindow'
  <2>1. Len(replay') = IF Len(log') < ReplayEvents THEN Len(log') ELSE ReplayEvents
    BY <1>1, <1>2, <1>4, <1>7 DEF ReplayWindow
  <2>2. ASSUME NEW i \in 1..Len(replay')
        PROVE  LET id == Len(log') - Len(replay') + i
               IN replay'[i] = [id |-> id, event |-> log'[id]]
    <3> HIDE DEF wide
    <3>1. Len(wide) - Len(replay') + i \in 1..Len(wide)
      BY <1>1, <1>4, <1>7
    <3>2. Len(log') - Len(wide) + (Len(wide) - Len(replay') + i) = Len(log') - Len(replay') + i
      BY <1>1, <1>2, <1>4, <1>7
    <3>3. QED
      BY <1>5, <1>7, <3>1, <3>2
  <2>3. QED
    BY <1>8, <2>1, <2>2 DEF ReplayWindow
<1>10. QED
  BY <1>2, <1>7, <1>8, <1>9

(* The same for the one or two events that a step emits.                   *)
LEMMA EmittingOne ==
  ASSUME TypeOK, ReplayWindow, NEW e \in Event, Emit(<<e>>)
  PROVE  /\ log' \in Seq(Event)
         /\ lastEventId' \in Nat
         /\ replay' \in Seq(Envelope)
         /\ Len(log') = Len(log) + 1
         /\ \A i \in 1..Len(log) : log'[i] = log[i]
         /\ log'[Len(log) + 1] = e
         /\ ReplayWindow'
<1> DEFINE es == <<e>>
<1>1. es \in Seq(Event) /\ Len(es) = 1 /\ es[1] = e
  OBVIOUS
<1> HIDE DEF es
<1>2. Emit(es)
  BY DEF es
<1>3. \A i \in 1..Len(es) : log'[Len(log) + i] = es[i]
  BY <1>1, <1>2, Emitting
<1>4. log'[Len(log) + 1] = e
  BY <1>1, <1>3
<1>5. QED
  BY <1>1, <1>2, <1>4, Emitting

LEMMA EmittingTwo ==
  ASSUME TypeOK, ReplayWindow, NEW e \in Event, NEW f \in Event, Emit(<<e, f>>)
  PROVE  /\ log' \in Seq(Event)
         /\ lastEventId' \in Nat
         /\ replay' \in Seq(Envelope)
         /\ Len(log') = Len(log) + 2
         /\ \A i \in 1..Len(log) : log'[i] = log[i]
         /\ log'[Len(log) + 1] = e
         /\ log'[Len(log) + 2] = f
         /\ ReplayWindow'
<1> DEFINE es == <<e, f>>
<1>1. es \in Seq(Event) /\ Len(es) = 2 /\ es[1] = e /\ es[2] = f
  OBVIOUS
<1> HIDE DEF es
<1>2. Emit(es)
  BY DEF es
<1>3. \A i \in 1..Len(es) : log'[Len(log) + i] = es[i]
  BY <1>1, <1>2, Emitting
<1>4. log'[Len(log) + 1] = e /\ log'[Len(log) + 2] = f
  BY <1>1, <1>3
<1>5. QED
  BY <1>1, <1>2, <1>4, Emitting

(* The events the actions emit are events.                                 *)
LEMMA EventTypes ==
  /\ \A o \in States : StateChange(o) \in Event
  /\ \A o \in TerminalStates : Done(o) \in Event
  /\ \A p \in Parts, n \in Nat : Delta(p, n) \in Event
BY DEF Event, StateEvent, DoneEvent, DeltaEvent, StateChange, Done, Delta

(* A step that emits nothing and leaves the ending alone keeps the shape.  *)
LEMMA QuietStep ==
  ASSUME IInv, UNCHANGED <<state, lastEventId, replay, log, timerArmed, doneEmitted>>,
         persistence' = persistence \/ persistence' # "pending",
         graceExpired' = graceExpired
  PROVE  /\ ReplayWindow'
         /\ LogShape'
         /\ TimerAfterTheEnd'
         /\ DoneMeansStored'
<1>1. ReplayWindow'
  BY DEF IInv, ReplayWindow
<1>2. LogShape'
  BY DEF IInv, LogShape, Spoken
<1>3. TimerAfterTheEnd'
  BY DEF IInv, TimerAfterTheEnd
<1>4. DoneMeansStored'
  BY DEF IInv, DoneMeansStored
<1>5. QED
  BY <1>1, <1>2, <1>3, <1>4

(* The terminal transition, from any state that is not terminal.           *)
LEMMA FinishStep ==
  ASSUME IInv, ~IsTerminal(state), NEW o \in TerminalStates, Finish(o)
  PROVE  /\ state' \in States /\ lastEventId' \in Nat /\ replay' \in Seq(Envelope)
         /\ log' \in Seq(Event) /\ timerArmed' \in BOOLEAN /\ doneEmitted' \in BOOLEAN
         /\ graceExpired' \in BOOLEAN
         /\ ReplayWindow'
         /\ LogShape'
         /\ TimerAfterTheEnd'
         /\ DoneMeansStored'
<1>1. /\ TypeOK /\ ReplayWindow
      /\ log \in Seq(Event) /\ Len(log) \in Nat
      /\ timerArmed \in BOOLEAN /\ graceExpired \in BOOLEAN
  BY DEF IInv, TypeOK
<1>2. doneEmitted = FALSE /\ \A i \in 1..Len(log) : ~Ending(log[i])
  BY DEF IInv, TypeOK, LogShape, Spoken
<1>3. state' = o /\ IsTerminal(state') /\ state' \in States /\ graceExpired' = graceExpired
  BY DEF Finish, IsTerminal, States
<1>4. TimerAfterTheEnd'
  BY <1>3 DEF TimerAfterTheEnd
<1>5. CASE o = "completed"
  <2>1. Emit(<<StateChange(o)>>) /\ timerArmed' = TRUE /\ doneEmitted' = FALSE
    BY <1>2, <1>5 DEF Finish
  <2>2. StateChange(o) \in Event
    BY EventTypes DEF States
  <2>3. /\ log' \in Seq(Event) /\ lastEventId' \in Nat /\ replay' \in Seq(Envelope)
        /\ Len(log') = Len(log) + 1
        /\ \A i \in 1..Len(log) : log'[i] = log[i]
        /\ log'[Len(log) + 1] = StateChange(o)
        /\ ReplayWindow'
    BY <1>1, <2>1, <2>2, EmittingOne
  <2>4. Spoken' = Len(log)
    BY <1>1, <1>3, <2>1, <2>3 DEF Spoken
  <2>5. LogShape'
    BY <1>1, <1>2, <1>3, <2>1, <2>3, <2>4 DEF LogShape, Ending
  <2>6. DoneMeansStored'
    BY <2>1 DEF DoneMeansStored
  <2>7. QED
    BY <1>1, <1>3, <1>4, <2>1, <2>3, <2>5, <2>6
<1>6. CASE o # "completed"
  <2>1. Emit(<<StateChange(o), Done(o)>>) /\ timerArmed' = timerArmed /\ doneEmitted' = TRUE
    BY <1>6 DEF Finish
  <2>2. StateChange(o) \in Event /\ Done(o) \in Event
    BY EventTypes DEF States
  <2>3. /\ log' \in Seq(Event) /\ lastEventId' \in Nat /\ replay' \in Seq(Envelope)
        /\ Len(log') = Len(log) + 2
        /\ \A i \in 1..Len(log) : log'[i] = log[i]
        /\ log'[Len(log) + 1] = StateChange(o)
        /\ log'[Len(log) + 2] = Done(o)
        /\ ReplayWindow'
    BY <1>1, <2>1, <2>2, EmittingTwo
  <2>4. Spoken' = Len(log)
    BY <1>1, <1>3, <2>1, <2>3 DEF Spoken
  <2>5. LogShape'
    BY <1>1, <1>2, <1>3, <2>1, <2>3, <2>4 DEF LogShape, Ending
  <2>6. DoneMeansStored'
    BY <1>3, <1>6 DEF DoneMeansStored
  <2>7. QED
    BY <1>1, <1>3, <1>4, <2>1, <2>3, <2>5, <2>6
<1>7. QED
  BY <1>5, <1>6

(* `done`, by whichever of the persister and the timer comes first.        *)
LEMMA DoneStep ==
  ASSUME IInv, IsTerminal(state), state' = state, EmitDone,
         persistence' # "pending" \/ graceExpired'
  PROVE  /\ lastEventId' \in Nat /\ replay' \in Seq(Envelope)
         /\ log' \in Seq(Event) /\ timerArmed' \in BOOLEAN /\ doneEmitted' \in BOOLEAN
         /\ ReplayWindow'
         /\ LogShape'
         /\ TimerAfterTheEnd'
         /\ DoneMeansStored'
<1>1. /\ TypeOK /\ ReplayWindow /\ LogShape
      /\ log \in Seq(Event) /\ Len(log) \in Nat
      /\ lastEventId \in Nat /\ replay \in Seq(Envelope)
      /\ timerArmed \in BOOLEAN /\ doneEmitted \in BOOLEAN
  BY DEF IInv, TypeOK
<1>2. TimerAfterTheEnd' /\ DoneMeansStored'
  BY DEF TimerAfterTheEnd, DoneMeansStored
<1>3. CASE doneEmitted
  <2>1. UNCHANGED <<lastEventId, replay, log, timerArmed, doneEmitted>>
    BY <1>3 DEF EmitDone, events
  <2>2. ReplayWindow' /\ LogShape'
    BY <1>1, <2>1 DEF ReplayWindow, LogShape, Spoken
  <2>3. QED
    BY <1>1, <1>2, <2>1, <2>2
<1>4. CASE ~doneEmitted
  <2>1. Emit(<<Done(state)>>) /\ doneEmitted' = TRUE /\ timerArmed' = FALSE
    BY <1>4 DEF EmitDone
  <2>2. Done(state) \in Event
    BY EventTypes DEF IsTerminal
  <2>3. /\ log' \in Seq(Event) /\ lastEventId' \in Nat /\ replay' \in Seq(Envelope)
        /\ Len(log') = Len(log) + 1
        /\ \A i \in 1..Len(log) : log'[i] = log[i]
        /\ log'[Len(log) + 1] = Done(state)
        /\ ReplayWindow'
    BY <1>1, <2>1, <2>2, EmittingOne
  <2>4. Spoken = Len(log) - 1 /\ Spoken' = Len(log) - 1
    BY <1>1, <1>4, <2>1, <2>3 DEF Spoken
  <2>5. LogShape'
    <3>1. /\ Len(log) - 1 \in 0..Len(log)
          /\ \A i \in 1..(Len(log) - 1) : ~Ending(log[i])
          /\ log[Len(log)] = StateChange(state)
      BY <1>1, <2>4 DEF LogShape
    <3>2. /\ Len(log) - 1 \in 0..Len(log')
          /\ \A i \in 1..(Len(log) - 1) : log'[i] = log[i]
          /\ log'[Len(log)] = log[Len(log)]
      <4>1. Len(log) \in Nat /\ Len(log) >= 1 /\ Len(log') = Len(log) + 1
        BY <1>1, <2>3, <3>1
      <4>2. Len(log) - 1 \in 0..Len(log') /\ Len(log) \in 1..Len(log)
        BY <4>1
      <4>3. \A i \in 1..(Len(log) - 1) : i \in 1..Len(log)
        BY <4>1
      <4>4. \A i \in 1..Len(log) : log'[i] = log[i]
        BY <2>3
      <4>5. QED
        BY <4>2, <4>3, <4>4
    <3>3. \A i \in 1..(Len(log) - 1) : ~Ending(log'[i])
      BY <3>1, <3>2 DEF Ending
    <3>4. log'[(Len(log) - 1) + 1] = StateChange(state)
      BY <1>1, <3>1, <3>2
    <3>5. log'[(Len(log) - 1) + 2] = Done(state)
      BY <1>1, <2>3
    <3>6. QED
      BY <2>1, <2>4, <3>2, <3>3, <3>4, <3>5 DEF LogShape, Ending
  <2>6. QED
    BY <1>2, <2>1, <2>3, <2>5
<1>5. QED
  BY <1>1, <1>3, <1>4

(* A chunk adds words, and words only, to a reply that is still open.      *)
LEMMA ChunkStep ==
  ASSUME IInv, NEW type \in ChunkTypes, Chunk(type)
  PROVE  IInv'
<1>1. /\ TypeOK /\ ReplayWindow
      /\ log \in Seq(Event) /\ Len(log) \in Nat
      /\ chunks \in 0..MaxChunks /\ chunks + 1 \in 1..MaxChunks
      /\ text \in Text /\ toolCalls \in Nat
      /\ ~IsTerminal(state) /\ state' = "streaming" /\ ~IsTerminal(state')
      /\ timerArmed' = timerArmed /\ doneEmitted' = doneEmitted
  BY ChunksAssumption DEF IInv, TypeOK, Chunk, ending, IsTerminal, TerminalStates
<1>2. doneEmitted = FALSE /\ timerArmed = FALSE /\ \A i \in 1..Len(log) : ~Ending(log[i])
  BY <1>1 DEF IInv, TypeOK, LogShape, Spoken, TimerAfterTheEnd
<1> DEFINE opening == IF state = "pending" THEN <<StateChange("streaming")>> ELSE << >>
           words == IF type \in Parts THEN <<Delta(type, chunks + 1)>> ELSE << >>
           es == opening \o words
<1>3. opening \in Seq(Event) /\ \A i \in 1..Len(opening) : ~Ending(opening[i])
  <2>1. StateChange("streaming") \in Event
    BY EventTypes DEF States
  <2>2. ~Ending(StateChange("streaming"))
    BY DEF Ending, StateChange, IsTerminal, TerminalStates
  <2>3. QED
    BY <2>1, <2>2
<1>4. words \in Seq(Event) /\ \A i \in 1..Len(words) : ~Ending(words[i])
  <2>1. CASE type \in Parts
    <3>1. Delta(type, chunks + 1) \in Event
      BY <1>1, <2>1, EventTypes
    <3>2. ~Ending(Delta(type, chunks + 1))
      BY <2>1 DEF Ending, Delta, Parts
    <3>3. QED
      BY <2>1, <3>1, <3>2
  <2>2. CASE type \notin Parts
    BY <2>2
  <2>3. QED
    BY <2>1, <2>2
<1> HIDE DEF opening, words
<1>5. es \in Seq(Event) /\ \A i \in 1..Len(es) : ~Ending(es[i])
  <2>1. /\ es \in Seq(Event)
        /\ Len(es) = Len(opening) + Len(words)
        /\ \A i \in 1..Len(es) : es[i] = IF i <= Len(opening) THEN opening[i]
                                         ELSE words[i - Len(opening)]
    BY <1>3, <1>4, ConcatProperties
  <2>2. Len(opening) \in Nat /\ Len(words) \in Nat
    BY <1>3, <1>4
  <2> HIDE DEF es
  <2>3. ASSUME NEW i \in 1..Len(es) PROVE ~Ending(es[i])
    <3>1. CASE i <= Len(opening)
      BY <1>3, <2>1, <2>2, <3>1
    <3>2. CASE i > Len(opening)
      <4>1. i - Len(opening) \in 1..Len(words) /\ es[i] = words[i - Len(opening)]
        BY <2>1, <2>2, <3>2
      <4>2. QED
        BY <1>4, <4>1
    <3>3. QED
      BY <2>2, <3>1, <3>2
  <2>4. QED
    BY <2>1, <2>3
<1>6. Emit(es)
  BY DEF Chunk, opening, words
<1> HIDE DEF es
<1>7. /\ log' \in Seq(Event) /\ lastEventId' \in Nat /\ replay' \in Seq(Envelope)
      /\ Len(log') = Len(log) + Len(es)
      /\ \A i \in 1..Len(log) : log'[i] = log[i]
      /\ \A i \in 1..Len(es) : log'[Len(log) + i] = es[i]
      /\ ReplayWindow'
  BY <1>1, <1>5, <1>6, Emitting
<1>8. LogShape'
  <2>1. Len(es) \in Nat /\ Len(log') \in Nat /\ Spoken' = Len(log')
    BY <1>1, <1>5, <1>7 DEF Spoken
  <2>2. ASSUME NEW i \in 1..Len(log') PROVE ~Ending(log'[i])
    <3>1. CASE i <= Len(log)
      BY <1>1, <1>2, <1>7, <2>1, <3>1 DEF Ending
    <3>2. CASE i > Len(log)
      <4>1. i - Len(log) \in 1..Len(es) /\ Len(log) + (i - Len(log)) = i
        BY <1>1, <1>7, <2>1, <3>2
      <4>2. log'[i] = es[i - Len(log)]
        BY <1>7, <4>1
      <4>3. QED
        BY <1>5, <4>1, <4>2
    <3>3. QED
      BY <1>1, <2>1, <3>1, <3>2
  <2>3. QED
    BY <1>1, <1>2, <2>1, <2>2 DEF LogShape, Ending
<1>9. text' \in Text /\ toolCalls' \in Nat /\ chunks' \in 0..MaxChunks
  <2>1. ASSUME NEW p \in Parts PROVE text'[p] \in Seq(Nat)
    BY <1>1, ChunksAssumption DEF Chunk, Text
  <2>2. text' = [p \in Parts |-> text'[p]]
    BY DEF Chunk
  <2>3. text' \in Text
    BY <2>1, <2>2 DEF Text
  <2>4. QED
    BY <1>1, <2>3, ChunksAssumption DEF Chunk
<1>10. TypeOK'
  BY <1>1, <1>2, <1>7, <1>9 DEF IInv, TypeOK, Chunk, States, ending, storing
<1>11. TimerAfterTheEnd' /\ DoneMeansStored'
  BY <1>1, <1>2 DEF TimerAfterTheEnd, DoneMeansStored
<1>12. QED
  BY <1>7, <1>8, <1>10, <1>11 DEF IInv

LEMMA InitEstablishes == ManagerInit => IInv
<1> SUFFICES ASSUME ManagerInit PROVE IInv
  OBVIOUS
<1>1. Len(log) = 0 /\ Len(replay) = 0 /\ state = "pending" /\ ~IsTerminal(state)
  BY DEF ManagerInit, IsTerminal, TerminalStates
<1>2. TypeOK
  <2>1. NoText \in Text
    BY DEF NoText, Text
  <2>2. log \in Seq(Event) /\ replay \in Seq(Envelope) /\ chunks \in 0..MaxChunks
    BY ChunksAssumption DEF ManagerInit
  <2>3. QED
    BY <2>1, <2>2 DEF ManagerInit, TypeOK, States
<1>3. ReplayWindow
  BY <1>1, ReplayAssumption DEF ManagerInit, ReplayWindow
<1>4. LogShape
  BY <1>1 DEF ManagerInit, LogShape, Spoken
<1>5. TimerAfterTheEnd /\ DoneMeansStored
  BY DEF ManagerInit, TimerAfterTheEnd, DoneMeansStored
<1>6. QED
  BY <1>2, <1>3, <1>4, <1>5 DEF IInv

LEMMA StepPreserves == IInv /\ [ManagerNext]_managerVars => IInv'
<1> SUFFICES ASSUME IInv, [ManagerNext]_managerVars PROVE IInv'
  OBVIOUS
<1> USE DEF record, events, ending, storing
<1>1. TypeOK
  BY DEF IInv
<1>2. ASSUME NEW type \in ChunkTypes, Chunk(type) PROVE IInv'
  BY <1>2, ChunkStep
<1>3. CASE AwaitContinuation
  BY <1>1, <1>3, QuietStep DEF AwaitContinuation, TypeOK, IInv
<1>4. CASE TakeSecondTurn
  BY <1>1, <1>4, QuietStep DEF TakeSecondTurn, TypeOK, IInv
<1>5. CASE Complete
  <2>1. ~IsTerminal(state) /\ Finish("completed") /\ "completed" \in TerminalStates
    BY <1>5 DEF Complete, TerminalStates
  <2>2. QED
    BY <1>1, <1>5, <2>1, FinishStep DEF Complete, TypeOK, IInv
<1>6. ASSUME NEW outcome \in {"failed", "timed_out"}, Fail(outcome) PROVE IInv'
  <2>1. ~IsTerminal(state) /\ Finish(outcome) /\ outcome \in TerminalStates
    BY <1>6 DEF Fail, TerminalStates
  <2>2. QED
    BY <1>1, <1>6, <2>1, FinishStep DEF Fail, TypeOK, IInv
<1>7. CASE Unwind
  BY <1>1, <1>7, QuietStep DEF Unwind, TypeOK, IInv
<1>8. CASE Cancel
  <2>1. ~IsTerminal(state) /\ Finish("cancelled") /\ "cancelled" \in TerminalStates
    BY <1>8 DEF Cancel, TerminalStates
  <2>2. QED
    BY <1>1, <1>8, <2>1, FinishStep DEF Cancel, TypeOK, IInv
<1>9. CASE Shutdown
  <2>1. CASE registry = "evicted" \/ IsTerminal(state)
    BY <1>1, <1>9, <2>1, QuietStep DEF Shutdown, TypeOK, IInv
  <2>2. CASE ~(registry = "evicted" \/ IsTerminal(state))
    <3>1. ~IsTerminal(state) /\ Finish("cancelled") /\ "cancelled" \in TerminalStates
      BY <1>9, <2>2 DEF Shutdown, TerminalStates
    <3>2. QED
      BY <1>1, <1>9, <3>1, FinishStep DEF Shutdown, TypeOK, IInv
  <2>3. QED
    BY <2>1, <2>2
<1>10. CASE Evict
  BY <1>1, <1>10, QuietStep DEF Evict, TypeOK, IInv
<1>11. CASE GraceExpires
  <2>1. /\ IsTerminal(state) /\ state' = state /\ EmitDone
        /\ persistence' # "pending" \/ graceExpired'
    BY <1>11 DEF GraceExpires, IInv, TimerAfterTheEnd
  <2>2. QED
    BY <1>1, <1>11, <2>1, DoneStep DEF GraceExpires, TypeOK, IInv
<1>12. ASSUME NEW result \in {"stored", "failed"}, Persist(result) PROVE IInv'
  BY <1>1, <1>12, QuietStep DEF Persist, TypeOK, IInv
<1>13. CASE MarkPersisted
  <2>1. CASE registry = "held" /\ IsTerminal(state)
    <3>1. /\ IsTerminal(state) /\ state' = state /\ EmitDone
          /\ persistence' # "pending" \/ graceExpired'
      BY <1>13, <2>1 DEF MarkPersisted
    <3>2. QED
      BY <1>1, <1>13, <3>1, DoneStep DEF MarkPersisted, TypeOK, IInv
  <2>2. CASE ~(registry = "held" /\ IsTerminal(state))
    BY <1>1, <1>13, <2>2, QuietStep DEF MarkPersisted, TypeOK, IInv
  <2>3. QED
    BY <2>1, <2>2
<1>14. CASE UNCHANGED managerVars
  BY <1>1, <1>14, QuietStep DEF managerVars, TypeOK, IInv
<1>15. QED
  BY <1>2, <1>3, <1>4, <1>5, <1>6, <1>7, <1>8, <1>9, <1>10, <1>11, <1>12, <1>13, <1>14
     DEF ManagerNext

(* The shape of the log says all that EndsOnce asks.                       *)
LEMMA ShapeMeansOnce == IInv => EndsOnce
<1> SUFFICES ASSUME IInv PROVE EndsOnce
  OBVIOUS
<1> DEFINE Ends == {i \in 1..Len(log) : log[i].type = "state" /\ IsTerminal(log[i].state)}
           Dones == {i \in 1..Len(log) : log[i].type = "done"}
<1>1. /\ Len(log) \in Nat /\ Spoken \in 0..Len(log)
      /\ \A i \in 1..Spoken : i \notin Ends /\ i \notin Dones
      /\ doneEmitted \in BOOLEAN
  BY DEF IInv, TypeOK, LogShape, Ending
<1>2. CASE ~IsTerminal(state)
  <2>1. Spoken = Len(log) /\ ~doneEmitted
    BY <1>2 DEF IInv, LogShape, Spoken
  <2>2. Ends = {} /\ Dones = {}
    BY <1>1, <2>1
  <2>3. QED
    BY <1>2, <2>1, <2>2 DEF EndsOnce
<1>3. CASE IsTerminal(state) /\ ~doneEmitted
  <2>1. Len(log) = Spoken + 1 /\ log[Len(log)] = StateChange(state)
    BY <1>1, <1>3 DEF IInv, LogShape, Spoken
  <2>2. Ends = {Len(log)} /\ Dones = {}
    <3>1. \A i \in 1..Len(log) : i \in 1..Spoken \/ i = Len(log)
      BY <1>1, <2>1
    <3>2. Len(log) \in 1..Len(log)
      BY <1>1, <2>1
    <3>3. QED
      BY <1>1, <1>3, <2>1, <3>1, <3>2 DEF StateChange
  <2>3. QED
    BY <1>3, <2>1, <2>2 DEF EndsOnce, StateChange
<1>4. CASE IsTerminal(state) /\ doneEmitted
  <2>1. /\ Len(log) = Spoken + 2
        /\ log[Spoken + 1] = StateChange(state)
        /\ log[Spoken + 2] = Done(state)
    BY <1>1, <1>4 DEF IInv, LogShape, Spoken
  <2>2. Ends = {Spoken + 1} /\ Dones = {Spoken + 2}
    <3>1. \A i \in 1..Len(log) : i \in 1..Spoken \/ i = Spoken + 1 \/ i = Spoken + 2
      BY <1>1, <2>1
    <3>2. Spoken + 1 \in 1..Len(log) /\ Spoken + 2 \in 1..Len(log)
      BY <1>1, <2>1
    <3>3. QED
      BY <1>1, <1>4, <2>1, <3>1, <3>2 DEF StateChange, Done
  <2>3. QED
    BY <1>4, <2>1, <2>2 DEF EndsOnce, StateChange, Done
<1>5. QED
  BY <1>1, <1>2, <1>3, <1>4

-----------------------------------------------------------------------------
(* The inductive invariant of the generation record.                       *)
THEOREM Recorded == ManagerSpec => []IInv
<1>1. ManagerInit => IInv
  BY InitEstablishes
<1>2. IInv /\ [ManagerNext]_managerVars => IInv'
  BY StepPreserves
<1>3. QED
  BY <1>1, <1>2, PTL DEF ManagerSpec

(* Every variable of the record keeps its type, in particular no event     *)
(* ever carries an outcome that is not one.                                *)
THEOREM TypeCorrect == ManagerSpec => []TypeOK
<1>1. IInv => TypeOK
  BY DEF IInv
<1>2. QED
  BY <1>1, Recorded, PTL

(* #emit(): the replay window is always the numbered tail of the events    *)
(* emitted, for every window size.                                         *)
THEOREM WindowIsTheTail == ManagerSpec => []ReplayWindow
<1>1. IInv => ReplayWindow
  BY DEF IInv
<1>2. QED
  BY <1>1, Recorded, PTL

(* #finish() and #emitDone(): one outcome, told once and last (INV-05).    *)
THEOREM OneEnd == ManagerSpec => []EndsOnce
<1>1. IInv => EndsOnce
  BY ShapeMeansOnce
<1>2. QED
  BY <1>1, Recorded, PTL

(* #finish() and markPersisted(): `done` waits for the storage of a        *)
(* completed reply.                                                        *)
THEOREM DoneWaits == ManagerSpec => []DoneMeansStored
<1>1. IInv => DoneMeansStored
  BY DEF IInv
<1>2. QED
  BY <1>1, Recorded, PTL

-----------------------------------------------------------------------------
(* What of the generation its reader sees, and one step of it.             *)
Shown == IF IsTerminal(state) THEN state ELSE "open"
ReaderSteps == [ReplySpec!Next]_<<text, Shown, doneEmitted>>

LEMMA InitRefines == ManagerInit => ReplySpec!Init
BY DEF ManagerInit, NoText, IsTerminal, TerminalStates, ReplySpec!Init

(* No outcome is mistaken for an open reply.                               *)
LEMMA ShownIsTerminal ==
  ASSUME TypeOK
  PROVE  (Shown = "open") <=> ~IsTerminal(state)
BY DEF TypeOK, Shown, IsTerminal, States, TerminalStates

(* A word goes to the part it was sent for; a tool call is not shown.      *)
LEMMA ChunkSpeaks ==
  ASSUME IInv, NEW type \in ChunkTypes, Chunk(type)
  PROVE  ReaderSteps
<1>1. /\ TypeOK /\ text \in Text /\ ~IsTerminal(state) /\ ~IsTerminal(state')
      /\ doneEmitted' = doneEmitted
      /\ text' = [p \in Parts |-> IF p = type THEN Append(text[p], chunks + 1) ELSE text[p]]
  BY DEF IInv, TypeOK, Chunk, ending, IsTerminal, TerminalStates
<1>2. Shown = "open" /\ Shown' = "open"
  BY <1>1 DEF Shown
<1>3. CASE type \in Parts
  <2>1. chunks + 1 \in 1..MaxChunks
    BY ChunksAssumption DEF IInv, TypeOK, Chunk
  <2>2. text' = [text EXCEPT ![type] = Append(@, chunks + 1)]
    BY <1>1 DEF Text
  <2>3. ReplySpec!Speak(type, chunks + 1)
    BY <1>1, <1>2, <2>2 DEF ReplySpec!Speak, Shown
  <2>4. ReplySpec!Next
    BY <1>3, <2>1, <2>3 DEF ReplySpec!Next
  <2>5. QED
    BY <2>4 DEF ReaderSteps
<1>4. CASE type \notin Parts
  <2>1. text' = text
    BY <1>1, <1>4 DEF Text
  <2>2. QED
    BY <1>1, <1>2, <2>1 DEF ReaderSteps
<1>5. QED
  BY <1>3, <1>4

(* The terminal transition concludes the reply, with `done` or before it.  *)
LEMMA FinishConcludes ==
  ASSUME IInv, ~IsTerminal(state), NEW o \in TerminalStates, Finish(o), text' = text
  PROVE  ReaderSteps
<1>1. Shown = "open" /\ Shown' = o
  BY DEF Shown, Finish, IsTerminal
<1>2. doneEmitted' \in BOOLEAN
  BY FinishStep
<1>3. ReplySpec!Conclude(o)
  BY <1>1, <1>2 DEF ReplySpec!Conclude, Shown
<1>4. ReplySpec!Next
  BY <1>3 DEF ReplySpec!Next
<1>5. QED
  BY <1>4 DEF ReaderSteps

(* Whoever says `done` says it once, after the outcome.                    *)
LEMMA DoneAnnounces ==
  ASSUME IInv, IsTerminal(state), state' = state, text' = text, EmitDone
  PROVE  ReaderSteps
<1>1. TypeOK /\ doneEmitted \in BOOLEAN /\ Shown # "open" /\ Shown' = Shown
  BY ShownIsTerminal DEF IInv, TypeOK, Shown
<1>2. CASE doneEmitted
  BY <1>1, <1>2 DEF EmitDone, ReaderSteps
<1>3. CASE ~doneEmitted
  <2>1. ReplySpec!Announce
    BY <1>1, <1>3 DEF ReplySpec!Announce, EmitDone, Shown
  <2>2. ReplySpec!Next
    BY <2>1 DEF ReplySpec!Next
  <2>3. QED
    BY <2>2 DEF ReaderSteps
<1>4. QED
  BY <1>2, <1>3

(* Everything else is unseen.                                              *)
LEMMA UnseenStep ==
  ASSUME UNCHANGED <<text, state, doneEmitted>>
  PROVE  ReaderSteps
BY DEF ReaderSteps, Shown

LEMMA StepRefines == IInv /\ [ManagerNext]_managerVars => ReaderSteps
<1> SUFFICES ASSUME IInv, [ManagerNext]_managerVars PROVE ReaderSteps
  OBVIOUS
<1> USE DEF record, events, ending, storing
<1>1. ASSUME NEW type \in ChunkTypes, Chunk(type) PROVE ReaderSteps
  BY <1>1, ChunkSpeaks
<1>2. CASE AwaitContinuation
  BY <1>2, UnseenStep DEF AwaitContinuation
<1>3. CASE TakeSecondTurn
  BY <1>3, UnseenStep DEF TakeSecondTurn
<1>4. CASE Complete
  BY <1>4, FinishConcludes DEF Complete, TerminalStates
<1>5. ASSUME NEW outcome \in {"failed", "timed_out"}, Fail(outcome) PROVE ReaderSteps
  BY <1>5, FinishConcludes DEF Fail, TerminalStates
<1>6. CASE Unwind
  BY <1>6, UnseenStep DEF Unwind
<1>7. CASE Cancel
  BY <1>7, FinishConcludes DEF Cancel, TerminalStates
<1>8. CASE Shutdown
  <2>1. CASE registry = "evicted" \/ IsTerminal(state)
    BY <1>8, <2>1, UnseenStep DEF Shutdown
  <2>2. CASE ~(registry = "evicted" \/ IsTerminal(state))
    BY <1>8, <2>2, FinishConcludes DEF Shutdown, TerminalStates
  <2>3. QED
    BY <2>1, <2>2
<1>9. CASE Evict
  BY <1>9, UnseenStep DEF Evict
<1>10. CASE GraceExpires
  <2>1. IsTerminal(state) /\ state' = state /\ text' = text /\ EmitDone
    BY <1>10 DEF GraceExpires, IInv, TimerAfterTheEnd
  <2>2. QED
    BY <2>1, DoneAnnounces
<1>11. ASSUME NEW result \in {"stored", "failed"}, Persist(result) PROVE ReaderSteps
  BY <1>11, UnseenStep DEF Persist
<1>12. CASE MarkPersisted
  <2>1. CASE registry = "held" /\ IsTerminal(state)
    BY <1>12, <2>1, DoneAnnounces DEF MarkPersisted
  <2>2. CASE ~(registry = "held" /\ IsTerminal(state))
    BY <1>12, <2>2, UnseenStep DEF MarkPersisted
  <2>3. QED
    BY <2>1, <2>2
<1>13. CASE UNCHANGED managerVars
  BY <1>13, UnseenStep DEF managerVars
<1>14. QED
  BY <1>1, <1>2, <1>3, <1>4, <1>5, <1>6, <1>7, <1>8, <1>9, <1>10, <1>11, <1>12, <1>13
     DEF ManagerNext

(* The manager implements Reply: the reply grows, reaches one outcome,     *)
(* after which not a word changes, and its end is announced once (INV-05). *)
THEOREM Refinement == ManagerSpec => ImplementsReply
<1>1. ManagerInit => ReplySpec!Init
  BY InitRefines
<1>2. IInv /\ [ManagerNext]_managerVars
      => [ReplySpec!Next]_<<text, IF IsTerminal(state) THEN state ELSE "open", doneEmitted>>
  BY StepRefines DEF ReaderSteps, Shown
<1>3. QED
  BY <1>1, <1>2, Recorded, PTL DEF ManagerSpec, ImplementsReply, ReplySpec!Spec

-----------------------------------------------------------------------------

(* The tabs that watch the generation.                                     *)

Pictures == {"snapshot", "resync"}
Picturing == [id : Nat, event : [type : Pictures, text : Text, state : States]]

StreamTypeOK ==
    /\ phase \in [Observers -> {"away", "retrying", "live", "closed", "settled"}]
    /\ wire \in [Observers -> Seq(Envelope \union Picturing)]
    /\ open \in [Observers -> BOOLEAN]
    /\ lastId \in [Observers -> Nat \union {None}]
    /\ shown \in [Observers -> States \union {Idle}]
    /\ applied \in [Observers -> Text]
    /\ unflushed \in [Observers -> Text]
    /\ guessed \in [Observers -> BOOLEAN]

(* What the record says of itself: it holds as many pieces of a part as it *)
(* told, and the piece an event carries is where its turn puts it.         *)
RecordIsTold ==
    /\ \A p \in Parts : Len(text[p]) = Pieces(log, p, Len(log))
    /\ \A i \in 1..Len(log), p \in Parts :
           log[i].type = p => text[p][Pieces(log, p, i)] = log[i].delta

(* The text told by the first n events, as the record holds it.            *)
Told(t, es, n) == [p \in Parts |-> SubSeq(t[p], 1, Pieces(es, p, n))]

(* The run has its outcome, and not a word was told after the n-th event.  *)
NoWordAfter(n) ==
    /\ IsTerminal(state)
    /\ \A i \in 1..Len(log) : log[i].type \in Parts => i <= n

(* A piece of a response: an event under its own id, or a picture of the   *)
(* record as it was when the events reached that id.                       *)
IsEvent(envelope) ==
    /\ envelope.id \in 1..Len(log)
    /\ envelope.event = log[envelope.id]

IsPicture(envelope) ==
    /\ envelope.id \in 0..Len(log)
    /\ envelope.event.type \in Pictures
    /\ envelope.event.text = Told(text, log, envelope.id)
    /\ IsTerminal(envelope.event.state)
           => envelope.event.state = state /\ NoWordAfter(envelope.id)

(* A response begins right after what the tab has, or with a picture, and  *)
(* goes on without a hole; while it is open it ends with the last event.   *)
Flows(o) ==
    /\ \A i \in 1..Len(wire[o]) :
           \/ IsEvent(wire[o][i])
           \/ i = 1 /\ IsPicture(wire[o][i])
    /\ \A i \in 1..Len(wire[o]) - 1 : wire[o][i + 1].id = wire[o][i].id + 1
    /\ wire[o] # << >> /\ wire[o][1].event.type \notin Pictures
           => lastId[o] # None /\ wire[o][1].id = lastId[o] + 1
    /\ wire[o] # << >> /\ lastId[o] # None => wire[o][1].event.type # "snapshot"
    /\ open[o] => IF wire[o] = << >> THEN lastId[o] = Len(log)
                  ELSE wire[o][Len(wire[o])].id = Len(log)

(* What the tab has is what was told up to the id it will report.          *)
Heard(o) ==
    /\ lastId[o] # None => /\ lastId[o] \in 0..Len(log)
                           /\ Joined(applied[o], unflushed[o]) = Told(text, log, lastId[o])
    /\ lastId[o] = None => unflushed[o] = NoText

(* Only a tab that shows an outcome has settled.                           *)
Settled(o) == phase[o] = "settled" => IsTerminal(shown[o])

(* A tab that was told an outcome has heard the last word before it.       *)
Concluded(o) ==
    IsTerminal(shown[o]) /\ ~guessed[o] /\ phase[o] # "away"
        => shown[o] = state /\ lastId[o] # None /\ NoWordAfter(lastId[o])

Sound(o) == Flows(o) /\ Heard(o) /\ Settled(o) /\ Concluded(o)

SInv ==
    /\ IInv
    /\ RecordIsTold
    /\ StreamTypeOK
    /\ \A o \in Observers : Sound(o)

-----------------------------------------------------------------------------
(* Counting the pieces of a part.                                          *)

LEMMA PiecesCount ==
  ASSUME NEW es, NEW p, NEW n \in Nat
  PROVE  /\ Pieces(es, p, n) \in Nat
         /\ Pieces(es, p, 0) = 0
         /\ Pieces(es, p, n + 1)
              = IF es[n + 1].type = p THEN Pieces(es, p, n) + 1 ELSE Pieces(es, p, n)
<1> DEFINE Of(k) == {i \in 1..k : es[i].type = p}
<1>1. IsFiniteSet(Of(n)) /\ Pieces(es, p, n) \in Nat
  <2>1. IsFiniteSet(1..n)
    BY FS_Interval
  <2>2. Of(n) \in SUBSET (1..n)
    OBVIOUS
  <2>3. IsFiniteSet(Of(n))
    BY <2>1, <2>2, FS_Subset
  <2>4. QED
    BY <2>3, FS_CardinalityType DEF Pieces
<1>2. Pieces(es, p, 0) = 0
  <2>1. Of(0) = {}
    OBVIOUS
  <2>2. QED
    BY <2>1, FS_EmptySet DEF Pieces
<1>3. CASE es[n + 1].type = p
  <2>1. Of(n + 1) = Of(n) \union {n + 1} /\ n + 1 \notin Of(n)
    BY <1>3
  <2>2. QED
    BY <1>1, <1>2, <1>3, <2>1, FS_AddElement DEF Pieces
<1>4. CASE es[n + 1].type # p
  <2>1. Of(n + 1) = Of(n)
    BY <1>4
  <2>2. QED
    BY <1>1, <1>2, <1>4, <2>1 DEF Pieces
<1>5. QED
  BY <1>3, <1>4

LEMMA PiecesGrow ==
  ASSUME NEW es, NEW p, NEW n \in Nat, NEW m \in 0..n
  PROVE  /\ Pieces(es, p, m) <= Pieces(es, p, n)
         /\ (\A i \in m + 1..n : es[i].type # p) => Pieces(es, p, m) = Pieces(es, p, n)
<1> DEFINE Of(k) == {i \in 1..k : es[i].type = p}
<1>1. IsFiniteSet(Of(n))
  <2>1. IsFiniteSet(1..n) /\ Of(n) \in SUBSET (1..n)
    BY FS_Interval
  <2>2. QED
    BY <2>1, FS_Subset
<1>2. Of(m) \in SUBSET Of(n)
  OBVIOUS
<1>3. Cardinality(Of(m)) <= Cardinality(Of(n))
  BY <1>1, <1>2, FS_Subset
<1>4. ASSUME \A i \in m + 1..n : es[i].type # p PROVE Of(m) = Of(n)
  BY <1>4
<1>5. QED
  BY <1>3, <1>4 DEF Pieces

LEMMA PiecesSame ==
  ASSUME NEW es, NEW fs, NEW p, NEW n \in Nat, \A i \in 1..n : es[i] = fs[i]
  PROVE  Pieces(es, p, n) = Pieces(fs, p, n)
<1>1. {i \in 1..n : es[i].type = p} = {i \in 1..n : fs[i].type = p}
  OBVIOUS
<1>2. QED
  BY <1>1 DEF Pieces

-----------------------------------------------------------------------------
(* What a step of the manager does to the text and to the events.          *)

Extends ==
    /\ Len(log) <= Len(log')
    /\ \A i \in 1..Len(log) : log'[i] = log[i]

Wordless ==
    /\ text' = text
    /\ \A i \in Len(log) + 1..Len(log') : log'[i].type \notin Parts

Says(p, d) ==
    /\ ~IsTerminal(state)
    /\ Len(log) < Len(log')
    /\ log'[Len(log')] = Delta(p, d)
    /\ text' = [text EXCEPT ![p] = Append(@, d)]
    /\ \A i \in Len(log) + 1..Len(log') - 1 : log'[i].type \notin Parts

Tells ==
    /\ Extends
    /\ IsTerminal(state) => state' = state
    /\ Wordless \/ \E p \in Parts, d \in Nat : Says(p, d)

LEMMA EventKinds ==
  ASSUME NEW e \in Event
  PROVE  /\ e.type \in Parts \union {"state", "done"}
         /\ e.type \in Parts => e.delta \in Nat
         /\ e.type \notin Parts => e.state \in States
BY DEF Event, DeltaEvent, StateEvent, DoneEvent, Parts, States

LEMMA QuietTells ==
  ASSUME IInv, UNCHANGED <<state, text, log>>
  PROVE  Tells
<1>1. Len(log) \in Nat
  BY DEF IInv, TypeOK
<1>2. QED
  BY <1>1 DEF Tells, Extends, Wordless

LEMMA FinishTells ==
  ASSUME IInv, ~IsTerminal(state), NEW o \in TerminalStates, Finish(o), text' = text
  PROVE  Tells
<1>1. TypeOK /\ ReplayWindow /\ Len(log) \in Nat
  BY DEF IInv, TypeOK
<1>2. StateChange(o) \in Event /\ Done(o) \in Event
  BY EventTypes DEF States
<1>3. StateChange(o).type \notin Parts /\ Done(o).type \notin Parts
  BY DEF StateChange, Done, Parts
<1>4. CASE o = "completed"
  <2>1. Emit(<<StateChange(o)>>)
    BY <1>4 DEF Finish
  <2>2. /\ Len(log') = Len(log) + 1
        /\ \A i \in 1..Len(log) : log'[i] = log[i]
        /\ log'[Len(log) + 1] = StateChange(o)
    BY <1>1, <1>2, <2>1, EmittingOne
  <2>3. \A i \in Len(log) + 1..Len(log') : i = Len(log) + 1
    BY <1>1, <2>2
  <2>4. QED
    BY <1>1, <1>3, <2>2, <2>3 DEF Tells, Extends, Wordless
<1>5. CASE o # "completed"
  <2>1. Emit(<<StateChange(o), Done(o)>>)
    BY <1>5 DEF Finish
  <2>2. /\ Len(log') = Len(log) + 2
        /\ \A i \in 1..Len(log) : log'[i] = log[i]
        /\ log'[Len(log) + 1] = StateChange(o)
        /\ log'[Len(log) + 2] = Done(o)
    BY <1>1, <1>2, <2>1, EmittingTwo
  <2>3. \A i \in Len(log) + 1..Len(log') : i = Len(log) + 1 \/ i = Len(log) + 2
    BY <1>1, <2>2
  <2>4. QED
    BY <1>1, <1>3, <2>2, <2>3 DEF Tells, Extends, Wordless
<1>6. QED
  BY <1>4, <1>5

LEMMA DoneTells ==
  ASSUME IInv, IsTerminal(state), state' = state, text' = text, EmitDone
  PROVE  Tells
<1>1. TypeOK /\ ReplayWindow /\ Len(log) \in Nat
  BY DEF IInv, TypeOK
<1>2. CASE doneEmitted
  BY <1>2, QuietTells DEF EmitDone, events
<1>3. CASE ~doneEmitted
  <2>1. Emit(<<Done(state)>>) /\ Done(state) \in Event /\ Done(state).type \notin Parts
    BY <1>3, EventTypes DEF EmitDone, IsTerminal, Done, Parts
  <2>2. /\ Len(log') = Len(log) + 1
        /\ \A i \in 1..Len(log) : log'[i] = log[i]
        /\ log'[Len(log) + 1] = Done(state)
    BY <1>1, <2>1, EmittingOne
  <2>3. \A i \in Len(log) + 1..Len(log') : i = Len(log) + 1
    BY <1>1, <2>2
  <2>4. QED
    BY <1>1, <2>1, <2>2, <2>3 DEF Tells, Extends, Wordless
<1>4. QED
  BY <1>2, <1>3

LEMMA ChunkTells ==
  ASSUME IInv, NEW type \in ChunkTypes, Chunk(type)
  PROVE  Tells
<1> DEFINE opening == IF state = "pending" THEN <<StateChange("streaming")>> ELSE << >>
           d == chunks + 1
<1>1. /\ TypeOK /\ ReplayWindow /\ Len(log) \in Nat /\ text \in Text
      /\ ~IsTerminal(state) /\ d \in Nat
      /\ text' = [p \in Parts |-> IF p = type THEN Append(text[p], d) ELSE text[p]]
  BY ChunksAssumption DEF IInv, TypeOK, Chunk
<1>2. StateChange("streaming") \in Event /\ StateChange("streaming").type \notin Parts
  BY EventTypes DEF States, StateChange, Parts
<1>3. CASE type \in Parts
  <2>1. Delta(type, d) \in Event /\ Emit(opening \o <<Delta(type, d)>>)
    BY <1>1, <1>3, EventTypes DEF Chunk
  <2>2. text' = [text EXCEPT ![type] = Append(@, d)]
    BY <1>1, <1>3 DEF Text
  <2> HIDE DEF d
  <2>3. CASE state = "pending"
    <3> DEFINE first == <<StateChange("streaming")>>
               word == <<Delta(type, d)>>
               es == first \o word
    <3>1. /\ first \in Seq(Event) /\ Len(first) = 1 /\ first[1] = StateChange("streaming")
          /\ word \in Seq(Event) /\ Len(word) = 1 /\ word[1] = Delta(type, d)
      BY <1>2, <2>1
    <3>2. /\ Len(log') = Len(log) + 2
          /\ \A i \in 1..Len(log) : log'[i] = log[i]
          /\ log'[Len(log) + 1] = StateChange("streaming")
          /\ log'[Len(log) + 2] = Delta(type, d)
      <4>1. Emit(es)
        BY <2>1, <2>3
      <4> HIDE DEF first, word
      <4>2. es \in Seq(Event) /\ Len(es) = 2 /\ es[1] = first[1] /\ es[2] = word[1]
        BY <3>1, ConcatProperties
      <4> HIDE DEF es
      <4>3. /\ Len(log') = Len(log) + Len(es)
            /\ \A i \in 1..Len(log) : log'[i] = log[i]
            /\ \A i \in 1..Len(es) : log'[Len(log) + i] = es[i]
        BY <1>1, <4>1, <4>2, Emitting
      <4>4. QED
        BY <3>1, <4>2, <4>3
    <3>3. \A i \in Len(log) + 1..Len(log') - 1 : i = Len(log) + 1
      BY <1>1, <3>2
    <3>4. Says(type, d)
      <4>1. Len(log) < Len(log') /\ log'[Len(log')] = Delta(type, d)
        BY <1>1, <3>2
      <4>2. \A i \in Len(log) + 1..Len(log') - 1 : log'[i].type \notin Parts
        BY <1>2, <3>2, <3>3
      <4>3. QED
        BY <1>1, <2>2, <4>1, <4>2 DEF Says
    <3>5. QED
      BY <1>1, <1>3, <3>2, <3>4 DEF Tells, Extends
  <2>4. CASE state # "pending"
    <3>1. Emit(<<Delta(type, d)>>)
      BY <2>1, <2>4
    <3>2. /\ Len(log') = Len(log) + 1
          /\ \A i \in 1..Len(log) : log'[i] = log[i]
          /\ log'[Len(log) + 1] = Delta(type, d)
      BY <1>1, <2>1, <3>1, EmittingOne
    <3>3. \A i \in Len(log) + 1..Len(log') - 1 : FALSE
      BY <1>1, <3>2
    <3>4. Says(type, d)
      <4>1. Len(log) < Len(log') /\ log'[Len(log')] = Delta(type, d)
        BY <1>1, <3>2
      <4>2. \A i \in Len(log) + 1..Len(log') - 1 : log'[i].type \notin Parts
        BY <3>3
      <4>3. QED
        BY <1>1, <2>2, <4>1, <4>2 DEF Says
    <3>5. QED
      BY <1>1, <1>3, <3>2, <3>4 DEF Tells, Extends
  <2>5. QED
    BY <2>3, <2>4
<1>4. CASE type \notin Parts
  <2>1. text' = text /\ Emit(opening \o << >>)
    BY <1>1, <1>4 DEF Text, Chunk
  <2>2. CASE state = "pending"
    <3>1. Emit(<<StateChange("streaming")>>)
      BY <2>1, <2>2
    <3>2. /\ Len(log') = Len(log) + 1
          /\ \A i \in 1..Len(log) : log'[i] = log[i]
          /\ log'[Len(log) + 1] = StateChange("streaming")
      BY <1>1, <1>2, <3>1, EmittingOne
    <3>3. \A i \in Len(log) + 1..Len(log') : i = Len(log) + 1
      BY <1>1, <3>2
    <3>4. QED
      BY <1>1, <1>2, <2>1, <3>2, <3>3 DEF Tells, Extends, Wordless
  <2>3. CASE state # "pending"
    <3>1. log' = log \o << >>
      BY <2>1, <2>3 DEF Emit
    <3>2. log' = log
      BY <1>1, <3>1 DEF TypeOK
    <3>3. QED
      BY <1>1, <2>1, <3>2 DEF Tells, Extends, Wordless
  <2>4. QED
    BY <2>2, <2>3
<1>5. QED
  BY <1>3, <1>4

LEMMA ManagerTells == IInv /\ [ManagerNext]_managerVars => Tells
<1> SUFFICES ASSUME IInv, [ManagerNext]_managerVars PROVE Tells
  OBVIOUS
<1> USE DEF record, events, ending, storing
<1>1. ASSUME NEW type \in ChunkTypes, Chunk(type) PROVE Tells
  BY <1>1, ChunkTells
<1>2. CASE AwaitContinuation
  BY <1>2, QuietTells DEF AwaitContinuation
<1>3. CASE TakeSecondTurn
  BY <1>3, QuietTells DEF TakeSecondTurn
<1>4. CASE Complete
  BY <1>4, FinishTells DEF Complete, TerminalStates
<1>5. ASSUME NEW outcome \in {"failed", "timed_out"}, Fail(outcome) PROVE Tells
  BY <1>5, FinishTells DEF Fail, TerminalStates
<1>6. CASE Unwind
  BY <1>6, QuietTells DEF Unwind
<1>7. CASE Cancel
  BY <1>7, FinishTells DEF Cancel, TerminalStates
<1>8. CASE Shutdown
  <2>1. CASE registry = "evicted" \/ IsTerminal(state)
    BY <1>8, <2>1, QuietTells DEF Shutdown
  <2>2. CASE ~(registry = "evicted" \/ IsTerminal(state))
    BY <1>8, <2>2, FinishTells DEF Shutdown, TerminalStates
  <2>3. QED
    BY <2>1, <2>2
<1>9. CASE Evict
  BY <1>9, QuietTells DEF Evict
<1>10. CASE GraceExpires
  <2>1. IsTerminal(state) /\ state' = state /\ text' = text /\ EmitDone
    BY <1>10 DEF GraceExpires, IInv, TimerAfterTheEnd
  <2>2. QED
    BY <2>1, DoneTells
<1>11. ASSUME NEW result \in {"stored", "failed"}, Persist(result) PROVE Tells
  BY <1>11, QuietTells DEF Persist
<1>12. CASE MarkPersisted
  <2>1. CASE registry = "held" /\ IsTerminal(state)
    BY <1>12, <2>1, DoneTells DEF MarkPersisted
  <2>2. CASE ~(registry = "held" /\ IsTerminal(state))
    BY <1>12, <2>2, QuietTells DEF MarkPersisted
  <2>3. QED
    BY <2>1, <2>2
<1>13. CASE UNCHANGED managerVars
  BY <1>13, QuietTells DEF managerVars
<1>14. QED
  BY <1>1, <1>2, <1>3, <1>4, <1>5, <1>6, <1>7, <1>8, <1>9, <1>10, <1>11, <1>12, <1>13
     DEF ManagerNext

-----------------------------------------------------------------------------
(* The record and the events keep telling the same text.                   *)

LEMMA SubSeqAppend ==
  ASSUME NEW S, NEW s \in Seq(S), NEW d \in S, NEW k \in 0..Len(s)
  PROVE  /\ SubSeq(Append(s, d), 1, k) = SubSeq(s, 1, k)
         /\ SubSeq(s, 1, Len(s)) = s
         /\ k < Len(s) => SubSeq(s, 1, k + 1) = Append(SubSeq(s, 1, k), s[k + 1])
OBVIOUS

LEMMA PieceTurn ==
  ASSUME NEW es, NEW p, NEW n \in Nat, NEW i \in 1..n, es[i].type = p
  PROVE  /\ Pieces(es, p, i) \in 1..Pieces(es, p, n)
         /\ Pieces(es, p, i) = Pieces(es, p, i - 1) + 1
<1>1. i - 1 \in Nat /\ (i - 1) + 1 = i /\ i \in Nat /\ i \in 0..n
  OBVIOUS
<1>2. /\ Pieces(es, p, i - 1) \in Nat
      /\ Pieces(es, p, i) = Pieces(es, p, i - 1) + 1
      /\ Pieces(es, p, n) \in Nat
  BY <1>1, PiecesCount
<1>3. Pieces(es, p, i) <= Pieces(es, p, n)
  BY <1>1, PiecesGrow
<1>4. QED
  BY <1>2, <1>3

LEMMA ToldStable ==
  ASSUME IInv, RecordIsTold, Tells, NEW n \in 0..Len(log)
  PROVE  /\ \A p \in Parts : Pieces(log', p, n) = Pieces(log, p, n)
         /\ Told(text', log', n) = Told(text, log, n)
<1>1. /\ Len(log) \in Nat /\ n \in Nat /\ text \in Text
      /\ \A i \in 1..Len(log) : log'[i] = log[i]
  BY DEF IInv, TypeOK, Tells, Extends
<1>2. ASSUME NEW p \in Parts PROVE Pieces(log', p, n) = Pieces(log, p, n)
  BY <1>1, PiecesSame
<1>3. ASSUME NEW p \in Parts
      PROVE  SubSeq(text'[p], 1, Pieces(log, p, n)) = SubSeq(text[p], 1, Pieces(log, p, n))
  <2>1. text[p] \in Seq(Nat) /\ Pieces(log, p, n) \in 0..Len(text[p])
    <3>1. Pieces(log, p, n) \in Nat /\ Pieces(log, p, n) <= Pieces(log, p, Len(log))
      BY <1>1, PiecesCount, PiecesGrow
    <3>2. QED
      BY <1>1, <3>1 DEF RecordIsTold, Text
  <2>2. CASE Wordless
    BY <2>2 DEF Wordless
  <2>3. ASSUME NEW q \in Parts, NEW d \in Nat, Says(q, d)
        PROVE  SubSeq(text'[p], 1, Pieces(log, p, n)) = SubSeq(text[p], 1, Pieces(log, p, n))
    <3>1. text'[p] = IF p = q THEN Append(text[p], d) ELSE text[p]
      BY <1>1, <2>3 DEF Says, Text
    <3>2. QED
      BY <2>1, <3>1, SubSeqAppend
  <2>4. QED
    BY <2>2, <2>3 DEF Tells
<1>4. QED
  BY <1>2, <1>3 DEF Told

LEMMA RecordStaysTold ==
  ASSUME IInv, IInv', RecordIsTold, Tells
  PROVE  RecordIsTold'
<1>1. /\ Len(log) \in Nat /\ Len(log') \in Nat /\ Len(log) \in 0..Len(log')
      /\ text \in Text
      /\ \A i \in 1..Len(log) : log'[i] = log[i]
  BY DEF IInv, TypeOK, Tells, Extends
<1>2. ASSUME NEW p \in Parts
      PROVE  /\ Pieces(log', p, Len(log)) = Len(text[p])
             /\ text[p] \in Seq(Nat) /\ Len(text[p]) \in Nat
  BY <1>1, ToldStable DEF RecordIsTold, Text
<1>3. ASSUME NEW i \in 1..Len(log), NEW p \in Parts, log'[i].type = p
      PROVE  /\ Pieces(log', p, i) \in 1..Len(text[p])
             /\ text[p][Pieces(log', p, i)] = log'[i].delta
  <2>1. i \in Nat /\ i \in 0..Len(log) /\ log[i].type = p /\ log'[i] = log[i]
    BY <1>1, <1>3
  <2>2. Pieces(log', p, i) = Pieces(log, p, i)
    BY <2>1, ToldStable
  <2>3. Pieces(log, p, i) \in 1..Pieces(log, p, Len(log))
    BY <1>1, <2>1, PieceTurn
  <2>4. QED
    BY <2>1, <2>2, <2>3 DEF RecordIsTold
<1>4. CASE Wordless
  <2>1. ASSUME NEW p \in Parts PROVE Pieces(log', p, Len(log')) = Len(text'[p])
    BY <1>1, <1>2, <1>4, PiecesGrow DEF Wordless
  <2>2. ASSUME NEW i \in 1..Len(log'), NEW p \in Parts, log'[i].type = p
        PROVE  text'[p][Pieces(log', p, i)] = log'[i].delta
    <3>1. i \in 1..Len(log)
      BY <1>1, <1>4, <2>2 DEF Wordless
    <3>2. QED
      BY <1>3, <1>4, <2>2, <3>1 DEF Wordless
  <2>3. QED
    BY <2>1, <2>2 DEF RecordIsTold
<1>5. ASSUME NEW q \in Parts, NEW d \in Nat, Says(q, d) PROVE RecordIsTold'
  <2> DEFINE last == Len(log') - 1
  <2>1. /\ last \in Nat /\ Len(log) \in 0..last /\ last + 1 = Len(log')
        /\ log'[Len(log')].type = q /\ log'[Len(log')].delta = d
    BY <1>1, <1>5 DEF Says, Delta
  <2>2. \A i \in Len(log) + 1..last : log'[i].type \notin Parts
    BY <1>5 DEF Says
  <2> HIDE DEF last
  <2>3. ASSUME NEW p \in Parts
        PROVE  /\ text'[p] = IF p = q THEN Append(text[p], d) ELSE text[p]
               /\ Pieces(log', p, Len(log')) = Len(text'[p])
    <3>1. text'[p] = IF p = q THEN Append(text[p], d) ELSE text[p]
      BY <1>1, <1>5 DEF Says, Text
    <3>2. Pieces(log', p, last) = Len(text[p])
      BY <1>2, <2>1, <2>2, PiecesGrow
    <3>3. Pieces(log', p, last + 1)
            = IF log'[last + 1].type = p THEN Pieces(log', p, last) + 1
              ELSE Pieces(log', p, last)
      <4>1. \A n \in Nat : Pieces(log', p, n + 1)
               = IF log'[n + 1].type = p THEN Pieces(log', p, n) + 1 ELSE Pieces(log', p, n)
        BY PiecesCount
      <4>2. QED
        BY <2>1, <4>1
    <3>4. QED
      BY <1>2, <2>1, <3>1, <3>2, <3>3
  <2>4. ASSUME NEW i \in 1..Len(log'), NEW p \in Parts, log'[i].type = p
        PROVE  text'[p][Pieces(log', p, i)] = log'[i].delta
    <3>1. CASE i \in 1..Len(log)
      <4>1. /\ Pieces(log', p, i) \in 1..Len(text[p])
            /\ text[p][Pieces(log', p, i)] = log'[i].delta
        BY <1>3, <2>4, <3>1
      <4>2. \A k \in 1..Len(text[p]) : text'[p][k] = text[p][k]
        <5>1. text'[p] = IF p = q THEN Append(text[p], d) ELSE text[p]
          BY <2>3
        <5>2. text[p] \in Seq(Nat)
          BY <1>2
        <5>3. \A k \in 1..Len(text[p]) : Append(text[p], d)[k] = text[p][k]
          BY <5>2
        <5>4. QED
          BY <5>1, <5>3
      <4>3. QED
        BY <4>1, <4>2
    <3>2. CASE i \notin 1..Len(log)
      <4>1. i = Len(log') /\ p = q
        BY <1>1, <2>1, <2>2, <2>4, <3>2
      <4>2. text'[q] = Append(text[q], d) /\ text[q] \in Seq(Nat)
        BY <1>2, <2>3
      <4>3. Pieces(log', q, Len(log')) = Len(text[q]) + 1
        BY <2>3, <4>2
      <4>4. text'[q][Len(text[q]) + 1] = d
        BY <4>2
      <4>5. QED
        BY <2>1, <4>1, <4>3, <4>4
    <3>3. QED
      BY <3>1, <3>2
  <2>5. QED
    BY <2>3, <2>4 DEF RecordIsTold
<1>6. QED
  BY <1>4, <1>5 DEF Tells

(* Whoever heard the last word has the whole text.                         *)
LEMMA ToldWhole ==
  ASSUME IInv, RecordIsTold, NEW n \in 0..Len(log),
         \A i \in 1..Len(log) : log[i].type \in Parts => i <= n
  PROVE  Told(text, log, n) = text
<1>1. Len(log) \in Nat /\ text \in Text
  BY DEF IInv, TypeOK
<1>2. ASSUME NEW p \in Parts PROVE SubSeq(text[p], 1, Pieces(log, p, n)) = text[p]
  <2>1. \A i \in n + 1..Len(log) : log[i].type # p
    BY <1>1
  <2>2. Pieces(log, p, n) = Pieces(log, p, Len(log))
    BY <1>1, <2>1, PiecesGrow
  <2>3. text[p] \in Seq(Nat) /\ Pieces(log, p, n) = Len(text[p])
    BY <1>1, <2>2 DEF RecordIsTold, Text
  <2>4. QED
    BY <2>3, SubSeqAppend
<1>3. text = [p \in Parts |-> text[p]]
  BY <1>1 DEF Text
<1>4. QED
  BY <1>2, <1>3 DEF Told

(* One more event, one more piece or none.                                 *)
LEMMA ToldNext ==
  ASSUME IInv, RecordIsTold, NEW n \in Nat, n + 1 \in 1..Len(log)
  PROVE  Told(text, log, n + 1)
           = IF log[n + 1].type \in Parts
             THEN [Told(text, log, n) EXCEPT ![log[n + 1].type] = Append(@, log[n + 1].delta)]
             ELSE Told(text, log, n)
<1> DEFINE e == log[n + 1]
<1>1. Len(log) \in Nat /\ text \in Text
  BY DEF IInv, TypeOK
<1>2. ASSUME NEW p \in Parts
      PROVE  SubSeq(text[p], 1, Pieces(log, p, n + 1))
               = IF e.type = p THEN Append(SubSeq(text[p], 1, Pieces(log, p, n)), e.delta)
                 ELSE SubSeq(text[p], 1, Pieces(log, p, n))
  <2>1. /\ Pieces(log, p, n) \in Nat
        /\ Pieces(log, p, n + 1)
             = IF e.type = p THEN Pieces(log, p, n) + 1 ELSE Pieces(log, p, n)
    BY PiecesCount
  <2>2. CASE e.type = p
    <3>1. Pieces(log, p, n + 1) \in 1..Len(text[p])
      BY <1>1, <2>2, PieceTurn DEF RecordIsTold
    <3>2. text[p][Pieces(log, p, n + 1)] = e.delta
      BY <2>2 DEF RecordIsTold
    <3>3. text[p] \in Seq(Nat) /\ Len(text[p]) \in Nat
      BY <1>1 DEF Text
    <3> HIDE DEF e
    <3>4. Pieces(log, p, n) \in 0..Len(text[p]) /\ Pieces(log, p, n) < Len(text[p])
      BY <2>1, <2>2, <3>1, <3>3
    <3>5. QED
      BY <2>1, <2>2, <3>2, <3>3, <3>4, SubSeqAppend
  <2>3. CASE e.type # p
    BY <2>1, <2>3
  <2>4. QED
    BY <2>2, <2>3
<1>3. QED
  BY <1>2 DEF Told

(* What the record holds of the first n events is what they carry.         *)
LEMMA ToldCarries ==
  ASSUME IInv, RecordIsTold, NEW n \in 0..Len(log)
  PROVE  Carries(Told(text, log, n), n)
<1>1. Len(log) \in Nat /\ n \in Nat /\ text \in Text
  BY DEF IInv, TypeOK
<1>2. ASSUME NEW p \in Parts
      PROVE  /\ Len(SubSeq(text[p], 1, Pieces(log, p, n))) = Pieces(log, p, n)
             /\ \A i \in 1..n : log[i].type = p =>
                    SubSeq(text[p], 1, Pieces(log, p, n))[Pieces(log, p, i)] = log[i].delta
  <2>1. text[p] \in Seq(Nat) /\ Pieces(log, p, n) \in 0..Len(text[p])
    <3>1. Pieces(log, p, n) \in Nat /\ Pieces(log, p, n) <= Pieces(log, p, Len(log))
      BY <1>1, PiecesCount, PiecesGrow
    <3>2. QED
      BY <1>1, <3>1 DEF RecordIsTold, Text
  <2>2. ASSUME NEW i \in 1..n, log[i].type = p
        PROVE  SubSeq(text[p], 1, Pieces(log, p, n))[Pieces(log, p, i)] = log[i].delta
    <3>1. Pieces(log, p, i) \in 1..Pieces(log, p, n)
      BY <1>1, <2>2, PieceTurn
    <3>2. text[p][Pieces(log, p, i)] = log[i].delta
      BY <1>1, <2>2 DEF RecordIsTold
    <3>3. QED
      BY <2>1, <3>1, <3>2
  <2>3. Len(SubSeq(text[p], 1, Pieces(log, p, n))) = Pieces(log, p, n)
    BY <2>1
  <2>4. QED
    BY <2>2, <2>3
<1>3. QED
  BY <1>2 DEF Told, Carries

(* What is appended to the second of two texts is appended to the whole.   *)
LEMMA AppendJoins ==
  ASSUME NEW s \in Seq(Nat), NEW t \in Seq(Nat), NEW d \in Nat
  PROVE  /\ Append(t, d) \in Seq(Nat)
         /\ s \o Append(t, d) = Append(s \o t, d)
<1>1. /\ Append(t, d) \in Seq(Nat)
      /\ s \o Append(t, d) \in Seq(Nat)
      /\ Append(s \o t, d) \in Seq(Nat)
  OBVIOUS
<1>2. Len(s \o Append(t, d)) = Len(Append(s \o t, d))
  OBVIOUS
<1>3. \A i \in 1..Len(s \o Append(t, d)) : (s \o Append(t, d))[i] = Append(s \o t, d)[i]
  OBVIOUS
<1>4. QED
  BY <1>1, <1>2, <1>3, SeqEqual

(* Pieces wait for the frame in their order.                               *)
LEMMA JoinedTexts ==
  ASSUME NEW a \in Text, NEW b \in Text
  PROVE  /\ Joined(a, b) \in Text
         /\ Joined(a, NoText) = a
         /\ NoText \in Text
         /\ \A p \in Parts, d \in Nat :
                /\ [b EXCEPT ![p] = Append(@, d)] \in Text
                /\ Joined(a, [b EXCEPT ![p] = Append(@, d)])
                      = [Joined(a, b) EXCEPT ![p] = Append(@, d)]
<1>1. ASSUME NEW p \in Parts
      PROVE  /\ a[p] \o b[p] \in Seq(Nat) /\ a[p] \o << >> = a[p]
             /\ \A d \in Nat : /\ a[p] \o Append(b[p], d) = Append(a[p] \o b[p], d)
                               /\ Append(b[p], d) \in Seq(Nat)
  <2>1. a[p] \in Seq(Nat) /\ b[p] \in Seq(Nat)
    BY DEF Text
  <2>2. a[p] \o b[p] \in Seq(Nat) /\ a[p] \o << >> = a[p]
    BY <2>1, ConcatProperties, ConcatEmptySeq
  <2>3. ASSUME NEW d \in Nat
        PROVE  /\ Append(b[p], d) \in Seq(Nat)
               /\ a[p] \o Append(b[p], d) = Append(a[p] \o b[p], d)
    BY <2>1, AppendJoins
  <2>4. QED
    BY <2>2, <2>3
<1>2. a = [p \in Parts |-> a[p]] /\ b = [p \in Parts |-> b[p]]
  BY DEF Text
<1>3. Joined(a, b) \in Text /\ Joined(a, NoText) = a /\ NoText \in Text
  BY <1>1, <1>2 DEF Joined, NoText, Text
<1>4. ASSUME NEW p \in Parts, NEW d \in Nat
      PROVE  /\ [b EXCEPT ![p] = Append(@, d)] \in Text
             /\ Joined(a, [b EXCEPT ![p] = Append(@, d)])
                   = [Joined(a, b) EXCEPT ![p] = Append(@, d)]
  <2> DEFINE c == [b EXCEPT ![p] = Append(@, d)]
  <2>1. \A q \in Parts : c[q] = IF q = p THEN Append(b[p], d) ELSE b[q]
    BY <1>2
  <2>2. c \in Text
    BY <1>1, <1>2 DEF Text
  <2> HIDE DEF c
  <2>3. \A q \in Parts : a[q] \o c[q] = IF q = p THEN Append(a[p] \o b[p], d) ELSE a[q] \o b[q]
    BY <1>1, <2>1
  <2>4. Joined(a, c) = [Joined(a, b) EXCEPT ![p] = Append(@, d)]
    BY <2>3 DEF Joined
  <2>5. QED
    BY <2>2, <2>4 DEF c
<1>5. QED
  BY <1>3, <1>4

-----------------------------------------------------------------------------
(* What was true of the generation stays true as it goes on.               *)

LEMMA NoWordStays ==
  ASSUME IInv, IInv', Tells, NEW n \in 0..Len(log), NoWordAfter(n)
  PROVE  /\ state' = state /\ IsTerminal(state')
         /\ n \in 0..Len(log')
         /\ \A i \in 1..Len(log') : log'[i].type \in Parts => i <= n
<1>1. /\ Len(log) \in Nat /\ Len(log') \in Nat /\ Len(log) <= Len(log')
      /\ \A i \in 1..Len(log) : log'[i] = log[i]
      /\ IsTerminal(state) /\ state' = state
  BY DEF IInv, TypeOK, Tells, Extends, NoWordAfter
<1>2. \A i \in Len(log) + 1..Len(log') : log'[i].type \notin Parts
  BY <1>1 DEF Tells, Wordless, Says
<1>3. ASSUME NEW i \in 1..Len(log'), log'[i].type \in Parts PROVE i <= n
  <2>1. i \in 1..Len(log)
    BY <1>1, <1>2, <1>3
  <2>2. QED
    BY <1>1, <1>3, <2>1 DEF NoWordAfter
<1>4. QED
  BY <1>1, <1>3

LEMMA EventStays ==
  ASSUME IInv, IInv', Tells, NEW e, IsEvent(e)
  PROVE  /\ e.id \in 1..Len(log')
         /\ e.event = log'[e.id]
         /\ e.event.type \notin Pictures
<1>1. /\ Len(log) \in Nat /\ Len(log') \in Nat /\ Len(log) <= Len(log')
      /\ log[e.id] \in Event /\ log'[e.id] = log[e.id] /\ e.id \in 1..Len(log)
      /\ e.event = log[e.id]
  BY DEF IInv, TypeOK, Tells, Extends, IsEvent
<1>2. log[e.id].type \notin Pictures
  BY <1>1, EventKinds DEF Parts, Pictures
<1>3. QED
  BY <1>1, <1>2

LEMMA PictureStays ==
  ASSUME IInv, IInv', RecordIsTold, Tells, NEW e, IsPicture(e)
  PROVE  /\ e.id \in 0..Len(log')
         /\ e.event.type \in Pictures
         /\ e.event.text = Told(text', log', e.id)
         /\ IsTerminal(e.event.state) =>
                /\ e.event.state = state' /\ IsTerminal(state')
                /\ \A i \in 1..Len(log') : log'[i].type \in Parts => i <= e.id
<1>1. /\ Len(log) \in Nat /\ Len(log') \in Nat /\ Len(log) <= Len(log')
      /\ e.id \in 0..Len(log) /\ e.event.type \in Pictures
      /\ e.event.text = Told(text, log, e.id)
  BY DEF IInv, TypeOK, Tells, Extends, IsPicture
<1>2. Told(text', log', e.id) = Told(text, log, e.id)
  BY <1>1, ToldStable
<1>3. ASSUME IsTerminal(e.event.state)
      PROVE  /\ e.event.state = state' /\ IsTerminal(state')
             /\ \A i \in 1..Len(log') : log'[i].type \in Parts => i <= e.id
  BY <1>1, <1>3, NoWordStays DEF IsPicture
<1>4. QED
  BY <1>1, <1>2, <1>3

-----------------------------------------------------------------------------
(* The responses.                                                          *)

(* A response that is only left alone, or closed, while the run goes on.   *)
LEMMA FlowsKept ==
  ASSUME IInv, IInv', RecordIsTold, Tells, NEW o \in Observers, Flows(o),
         wire'[o] = wire[o], lastId'[o] = lastId[o],
         open'[o] => open[o] /\ Len(log') = Len(log)
  PROVE  Flows(o)'
<1>1. ASSUME NEW i \in 1..Len(wire[o])
      PROVE  IsEvent(wire[o][i])' \/ (i = 1 /\ IsPicture(wire[o][i])')
  <2>1. CASE IsEvent(wire[o][i])
    BY <2>1, EventStays DEF IsEvent
  <2>2. CASE i = 1 /\ IsPicture(wire[o][i])
    BY <2>2, PictureStays DEF IsPicture, NoWordAfter
  <2>3. QED
    BY <2>1, <2>2 DEF Flows
<1>2. QED
  BY <1>1 DEF Flows

LEMMA FlowsEmptied ==
  ASSUME IInv', NEW o \in Observers, wire'[o] = << >>, open'[o] = FALSE
  PROVE  Flows(o)'
BY DEF Flows

LEMMA NewsIsWhatWasTold ==
  ASSUME IInv, IInv', Tells
  PROVE  /\ News \in Seq(Envelope) /\ Len(News) \in Nat
         /\ Len(log') = Len(log) + Len(News)
         /\ \A i \in 1..Len(News) :
                /\ News[i].id = Len(log) + i
                /\ News[i].id \in 1..Len(log')
                /\ News[i].event = log'[News[i].id]
                /\ News[i].event.type \notin Pictures
<1> DEFINE k == lastEventId' - lastEventId
<1>1. /\ Len(log) \in Nat /\ Len(log') \in Nat /\ Len(log) <= Len(log')
      /\ lastEventId = Len(log) /\ lastEventId' = Len(log')
      /\ log' \in Seq(Event)
  BY DEF IInv, TypeOK, Tells, Extends, ReplayWindow
<1>2. k \in Nat /\ Len(log') = Len(log) + k
  BY <1>1
<1>3. News = [i \in 1..k |-> [id |-> lastEventId + i, event |-> log'[lastEventId + i]]]
  BY DEF News
<1> HIDE DEF k
<1>4. ASSUME NEW i \in 1..k
      PROVE  /\ News[i] = [id |-> Len(log) + i, event |-> log'[Len(log) + i]]
             /\ Len(log) + i \in 1..Len(log')
             /\ log'[Len(log) + i] \in Event
             /\ log'[Len(log) + i].type \notin Pictures
  <2>1. Len(log) + i \in 1..Len(log') /\ log'[Len(log) + i] \in Event
    BY <1>1, <1>2
  <2>2. log'[Len(log) + i].type \notin Pictures
    BY <2>1, EventKinds DEF Parts, Pictures
  <2>3. QED
    BY <1>1, <1>3, <2>1, <2>2
<1>5. News \in Seq(Envelope) /\ Len(News) = k
  <2>1. ASSUME NEW i \in 1..k PROVE News[i] \in Envelope
    <3>1. Len(log) + i \in Nat /\ log'[Len(log) + i] \in Event
      BY <1>1, <1>2, <1>4
    <3>2. News[i] = [id |-> Len(log) + i, event |-> log'[Len(log) + i]]
      BY <1>4
    <3>3. QED
      BY <3>1, <3>2 DEF Envelope
  <2>2. QED
    BY <1>2, <1>3, <2>1
<1>6. QED
  BY <1>2, <1>4, <1>5

LEMMA ConcatParts ==
  ASSUME NEW S, NEW s \in Seq(S), NEW t \in Seq(S), NEW v, v = s \o t
  PROVE  /\ v \in Seq(S) /\ Len(s) \in Nat /\ Len(t) \in Nat
         /\ Len(v) = Len(s) + Len(t)
         /\ \A i \in 1..Len(s) : v[i] = s[i]
         /\ \A i \in 1..Len(t) : v[Len(s) + i] = t[i]
         /\ \A i \in 1..Len(v) : i \in 1..Len(s) \/ \E j \in 1..Len(t) : i = Len(s) + j
<1>1. Len(s) \in Nat /\ Len(t) \in Nat
  OBVIOUS
<1>2. v \in Seq(S) /\ Len(v) = Len(s) + Len(t)
  OBVIOUS
<1>3. \A i \in 1..Len(s) : v[i] = s[i]
  OBVIOUS
<1>4. \A i \in 1..Len(t) : v[Len(s) + i] = t[i]
  OBVIOUS
<1>5. ASSUME NEW i \in 1..Len(v), i \notin 1..Len(s)
      PROVE  \E j \in 1..Len(t) : i = Len(s) + j
  <2>1. i - Len(s) \in 1..Len(t) /\ i = Len(s) + (i - Len(s))
    BY <1>1, <1>2, <1>5
  <2>2. QED
    BY <2>1
<1>6. QED
  BY <1>1, <1>2, <1>3, <1>4, <1>5

(* An open response receives the events of the step, after all it holds.   *)
LEMMA FlowsOn ==
  ASSUME IInv, IInv', RecordIsTold, StreamTypeOK, Tells, NEW o \in Observers, Flows(o),
         Broadcast, lastId' = lastId
  PROVE  Flows(o)' /\ wire'[o] \in Seq(Envelope \union Picturing) /\ open'[o] \in BOOLEAN
<1>w. PICK w : w = wire[o]
  OBVIOUS
<1>v. PICK v : v = wire'[o]
  OBVIOUS
<1> DEFINE S == Envelope \union Picturing
<1>1. /\ Len(log) \in Nat /\ w \in Seq(S) /\ open[o] \in BOOLEAN
      /\ lastId'[o] = lastId[o]
  BY <1>w DEF IInv, TypeOK, StreamTypeOK
<1>2. /\ v = IF open[o] THEN w \o News ELSE w
      /\ open'[o] \in BOOLEAN /\ (open'[o] => open[o])
  BY <1>1, <1>w, <1>v DEF Broadcast
<1>3. CASE ~open[o]
  BY <1>1, <1>2, <1>3, <1>w, <1>v, FlowsKept
<1>4. CASE open[o]
  <2> HIDE DEF S
  <2>1. News \in Seq(S)
    BY NewsIsWhatWasTold DEF S
  <2>2. /\ v \in Seq(S) /\ Len(w) \in Nat /\ Len(News) \in Nat
        /\ Len(v) = Len(w) + Len(News)
        /\ \A i \in 1..Len(w) : v[i] = w[i]
        /\ \A i \in 1..Len(News) : v[Len(w) + i] = News[i]
        /\ \A i \in 1..Len(v) : i \in 1..Len(w) \/ \E j \in 1..Len(News) : i = Len(w) + j
    <3>1. v = w \o News
      BY <1>2, <1>4
    <3>2. w \in Seq(S)
      BY <1>1
    <3>3. v \in Seq(S) /\ Len(w) \in Nat /\ Len(News) \in Nat /\ Len(v) = Len(w) + Len(News)
      BY <2>1, <3>1, <3>2, ConcatParts
    <3>4. \A i \in 1..Len(w) : v[i] = w[i]
      BY <2>1, <3>1, <3>2, ConcatParts
    <3>5. \A i \in 1..Len(News) : v[Len(w) + i] = News[i]
      BY <2>1, <3>1, <3>2, ConcatParts
    <3>6. \A i \in 1..Len(v) : i \in 1..Len(w) \/ \E j \in 1..Len(News) : i = Len(w) + j
      BY <2>1, <3>1, <3>2, ConcatParts
    <3>7. QED
      BY <3>3, <3>4, <3>5, <3>6
  <2>3. /\ Len(log') = Len(log) + Len(News)
        /\ \A i \in 1..Len(News) :
               /\ News[i].id = Len(log) + i
               /\ News[i].id \in 1..Len(log')
               /\ News[i].event = log'[News[i].id]
               /\ News[i].event.type \notin Pictures
    BY NewsIsWhatWasTold
  <2>4. /\ \A i \in 1..Len(w) : IsEvent(w[i]) \/ (i = 1 /\ IsPicture(w[i]))
        /\ \A i \in 1..Len(w) - 1 : w[i + 1].id = w[i].id + 1
        /\ Len(w) > 0 /\ w[1].event.type \notin Pictures
               => lastId[o] # None /\ w[1].id = lastId[o] + 1
        /\ Len(w) > 0 /\ lastId[o] # None => w[1].event.type # "snapshot"
        /\ Len(w) = 0 => lastId[o] = Len(log)
        /\ Len(w) > 0 => w[Len(w)].id = Len(log)
    <3>1. w = << >> <=> Len(w) = 0
      BY <1>1
    <3>2. QED
      BY <1>4, <1>w, <2>2, <3>1 DEF Flows
  <2>5. ASSUME NEW i \in 1..Len(v)
        PROVE  \/ v[i].id \in 1..Len(log') /\ v[i].event = log'[v[i].id]
               \/ i = 1 /\ IsPicture(w[1]) /\ v[1] = w[1]
    <3>1. CASE i \in 1..Len(w)
      <4>1. v[i] = w[i]
        BY <2>2, <3>1
      <4>2. CASE IsEvent(w[i])
        BY <4>1, <4>2, EventStays
      <4>3. CASE i = 1 /\ IsPicture(w[i])
        BY <4>1, <4>3
      <4>4. QED
        BY <2>4, <3>1, <4>2, <4>3
    <3>2. ASSUME NEW j \in 1..Len(News), i = Len(w) + j
          PROVE  v[i].id \in 1..Len(log') /\ v[i].event = log'[v[i].id]
      <4>1. v[i] = News[j]
        BY <2>2, <3>2
      <4>2. QED
        BY <2>3, <4>1
    <3>3. QED
      BY <2>2, <3>1, <3>2
  <2>6. ASSUME NEW i \in 1..Len(v)
        PROVE  IsEvent(wire[o][i])' \/ (i = 1 /\ IsPicture(wire[o][i])')
    <3>1. CASE v[i].id \in 1..Len(log') /\ v[i].event = log'[v[i].id]
      BY <1>v, <3>1 DEF IsEvent
    <3>2. CASE i = 1 /\ IsPicture(w[1]) /\ v[1] = w[1]
      <4> DEFINE e == w[1]
      <4>1. /\ e.id \in 0..Len(log')
            /\ e.event.type \in Pictures
            /\ e.event.text = Told(text', log', e.id)
            /\ IsTerminal(e.event.state) =>
                   /\ e.event.state = state' /\ IsTerminal(state')
                   /\ \A j \in 1..Len(log') : log'[j].type \in Parts => j <= e.id
        BY <3>2, PictureStays
      <4> HIDE DEF e
      <4>2. wire'[o][i] = e
        BY <1>v, <3>2 DEF e
      <4>3. QED
        BY <3>2, <4>1, <4>2 DEF IsPicture, NoWordAfter
    <3>3. QED
      BY <2>5, <3>1, <3>2
  <2>7. ASSUME NEW i \in 1..Len(v) - 1
        PROVE  v[i + 1].id = v[i].id + 1
    <3>1. CASE i + 1 \in 1..Len(w)
      <4>1. i \in 1..Len(w) /\ i \in 1..Len(w) - 1
        BY <2>2, <3>1
      <4>2. v[i] = w[i] /\ v[i + 1] = w[i + 1]
        BY <2>2, <3>1, <4>1
      <4>3. QED
        BY <2>4, <4>1, <4>2
    <3>2. CASE i = Len(w)
      <4>1. i \in 1..Len(w) /\ 1 \in 1..Len(News) /\ Len(w) > 0
        BY <2>2, <3>2
      <4>2. v[i] = w[Len(w)] /\ v[Len(w) + 1] = News[1]
        BY <2>2, <3>2, <4>1
      <4>3. v[i].id = Len(log) /\ v[i + 1].id = Len(log) + 1
        BY <2>3, <2>4, <3>2, <4>1, <4>2
      <4>4. QED
        BY <4>3
    <3>3. ASSUME NEW j \in 1..Len(News), i = Len(w) + j
          PROVE  v[i + 1].id = v[i].id + 1
      <4>1. j + 1 \in 1..Len(News) /\ i + 1 = Len(w) + (j + 1)
        BY <2>2, <3>3
      <4>2. v[i] = News[j] /\ v[Len(w) + (j + 1)] = News[j + 1]
        BY <2>2, <3>3, <4>1
      <4>3. v[i].id = Len(log) + j /\ v[i + 1].id = Len(log) + (j + 1)
        BY <2>3, <3>3, <4>1, <4>2
      <4>4. QED
        BY <1>1, <2>2, <4>3
    <3>4. i \in 1..Len(v) /\ i \in Nat /\ (i \in 1..Len(w) => i + 1 \in 1..Len(w) \/ i = Len(w))
      BY <2>2
    <3>5. QED
      BY <2>2, <3>1, <3>2, <3>3, <3>4
  <2>8. ASSUME Len(v) > 0
        PROVE  /\ v[1].event.type \notin Pictures
                      => lastId[o] # None /\ v[1].id = lastId[o] + 1
               /\ lastId[o] # None => v[1].event.type # "snapshot"
               /\ v[Len(v)].id = Len(log')
    <3>1. CASE Len(w) > 0
      <4>1. v[1] = w[1] /\ v[Len(w)] = w[Len(w)]
        BY <2>2, <3>1
      <4>2. CASE Len(News) = 0
        BY <2>2, <2>3, <2>4, <3>1, <4>1, <4>2
      <4>3. CASE Len(News) > 0
        <5>1. Len(News) \in 1..Len(News) /\ Len(v) = Len(w) + Len(News)
          BY <2>2, <4>3
        <5>2. v[Len(w) + Len(News)] = News[Len(News)]
          BY <2>2, <5>1
        <5>3. v[Len(v)].id = Len(log')
          BY <2>3, <5>1, <5>2
        <5>4. QED
          BY <2>4, <3>1, <4>1, <5>3
      <4>4. QED
        BY <2>2, <4>2, <4>3
    <3>2. CASE Len(w) = 0
      <4>1. Len(News) > 0 /\ v[1] = News[1] /\ v[Len(v)] = News[Len(News)]
        BY <2>2, <2>8, <3>2
      <4>2. /\ v[1].id = Len(log) + 1 /\ v[1].event.type \notin Pictures
            /\ v[Len(v)].id = Len(log')
        BY <2>2, <2>3, <4>1
      <4>3. lastId[o] = Len(log) /\ lastId[o] # None
        BY <1>1, <2>4, <3>2, NoneAssumption
      <4>4. QED
        BY <4>2, <4>3 DEF Pictures
    <3>3. QED
      BY <2>2, <3>1, <3>2
  <2>9. v = << >> => lastId[o] = Len(log')
    <3>1. v = << >> => Len(w) = 0 /\ Len(News) = 0
      BY <2>2
    <3>2. QED
      BY <1>1, <2>3, <2>4, <3>1
  <2>10. v # << >> <=> Len(v) > 0
    BY <2>2
  <2>11. QED
    BY <1>1, <1>2, <1>v, <2>2, <2>6, <2>7, <2>8, <2>9, <2>10 DEF Flows, S
<1>5. QED
  BY <1>1, <1>3, <1>4

(* catchUp() replays exactly the events after the one the tab has.         *)
LEMMA MissedAreTheNext ==
  ASSUME IInv, NEW n \in Nat, n < Len(log), CanReplay(n)
  PROVE  /\ Missed(n) \in Seq(Envelope)
         /\ Len(Missed(n)) = Len(log) - n
         /\ \A i \in 1..Len(Missed(n)) : Missed(n)[i] = [id |-> n + i, event |-> log[n + i]]
<1> DEFINE m == Len(replay)
           late == {i \in DOMAIN replay : replay[i].id > n}
<1>1. /\ Len(log) \in Nat /\ m \in Nat /\ replay \in Seq(Envelope) /\ DOMAIN replay = 1..m
      /\ m <= Len(log)
      /\ \A i \in 1..m : replay[i] = [id |-> Len(log) - m + i,
                                     event |-> log[Len(log) - m + i]]
  <2>1. /\ Len(log) \in Nat /\ replay \in Seq(Envelope)
        /\ m = IF Len(log) < ReplayEvents THEN Len(log) ELSE ReplayEvents
    BY DEF IInv, TypeOK, ReplayWindow
  <2>2. /\ m \in Nat /\ DOMAIN replay = 1..m
        /\ \A i \in 1..m : replay[i] = [id |-> Len(log) - m + i,
                                      event |-> log[Len(log) - m + i]]
    BY DEF IInv, TypeOK, ReplayWindow
  <2> HIDE DEF m
  <2>3. m <= Len(log)
    BY <2>1, <2>2, ReplayAssumption
  <2>4. QED
    BY <2>1, <2>2, <2>3
<1>2. m > 0 /\ n + 1 >= Len(log) - m + 1
  <2>1. m > 0 /\ n + 1 >= replay[1].id
    BY <1>1 DEF CanReplay
  <2>2. replay[1].id = Len(log) - m + 1
    BY <1>1, <2>1
  <2>3. QED
    BY <2>1, <2>2
<1> HIDE DEF m
<1>3. late = (n - (Len(log) - m) + 1)..m
  <2>1. \A i \in 1..m : replay[i].id = Len(log) - m + i
    BY <1>1
  <2>2. late = {i \in 1..m : Len(log) - m + i > n}
    BY <1>1, <2>1
  <2>3. QED
    BY <1>1, <1>2, <2>2
<1> HIDE DEF late
<1>4. Cardinality(late) = Len(log) - n
  <2> DEFINE a == n - (Len(log) - m) + 1
  <2>1. a \in Int /\ m \in Int /\ ~(a > m) /\ m - a + 1 = Len(log) - n
    BY <1>1
  <2>2. late = a..m
    BY <1>3
  <2> HIDE DEF a
  <2>3. Cardinality(a..m) = m - a + 1
    BY <2>1, FS_Interval
  <2>4. QED
    BY <2>1, <2>2, <2>3
<1>5. Missed(n) = LastOf(replay, Len(log) - n)
  BY <1>4 DEF Missed, late
<1>6. Len(log) - n \in Nat \ {0} /\ Len(log) - n <= m
  BY <1>1, <1>2
<1>7. /\ Missed(n) \in Seq(Envelope)
      /\ Len(Missed(n)) = Len(log) - n
      /\ \A i \in 1..Len(Missed(n)) : Missed(n)[i] = replay[m - Len(Missed(n)) + i]
  <2> DEFINE c == Len(log) - n
  <2>1. c \in Nat \ {0} /\ c <= m /\ Missed(n) = LastOf(replay, c)
    BY <1>5, <1>6
  <2> HIDE DEF c
  <2>2. LastOf(replay, c) \in Seq(Envelope) /\ Len(LastOf(replay, c)) = c
    BY <1>1, <2>1, LastOfTail DEF m
  <2>3. \A i \in 1..Len(LastOf(replay, c)) :
            LastOf(replay, c)[i] = replay[m - Len(LastOf(replay, c)) + i]
    BY <1>1, <2>1, LastOfTail DEF m
  <2>4. QED
    BY <2>1, <2>2, <2>3 DEF c
<1>8. ASSUME NEW i \in 1..Len(Missed(n))
      PROVE  Missed(n)[i] = [id |-> n + i, event |-> log[n + i]]
  <2>1. m - Len(Missed(n)) + i \in 1..m /\ Len(log) - m + (m - Len(Missed(n)) + i) = n + i
    BY <1>1, <1>6, <1>7
  <2>2. QED
    BY <1>1, <1>7, <2>1
<1>9. QED
  BY <1>7, <1>8

LEMMA PictureIsWhole ==
  ASSUME IInv, RecordIsTold, NEW type \in Pictures
  PROVE  /\ Picture(type) \in Seq(Picturing) /\ Len(Picture(type)) = 1
         /\ IsPicture(Picture(type)[1])
         /\ Picture(type)[1].id = Len(log)
         /\ Picture(type)[1].event.type = type
<1> DEFINE e == [id |-> lastEventId, event |-> Snapshot(type)]
<1>1. Len(log) \in Nat /\ lastEventId = Len(log) /\ text \in Text /\ state \in States
  BY DEF IInv, TypeOK, ReplayWindow
<1>2. e \in Picturing
  BY <1>1 DEF Picturing, Snapshot
<1>3. Picture(type) = <<e>>
  BY DEF Picture
<1>4. e.id = Len(log) /\ e.event.type = type /\ e.event.text = text /\ e.event.state = state
  BY <1>1 DEF Snapshot
<1> HIDE DEF e
<1>5. Told(text, log, Len(log)) = text
  <2>1. Len(log) \in 0..Len(log) /\ \A i \in 1..Len(log) : log[i].type \in Parts => i <= Len(log)
    BY <1>1
  <2>2. QED
    BY <2>1, ToldWhole
<1>6. IsPicture(e)
  BY <1>1, <1>4, <1>5 DEF IsPicture, NoWordAfter
<1>7. QED
  BY <1>2, <1>3, <1>4, <1>6

LEMMA FlowsOffered ==
  ASSUME IInv, RecordIsTold, StreamTypeOK, NEW o \in Observers, Heard(o),
         Offer(o), UNCHANGED managerVars
  PROVE  /\ Flows(o)'
         /\ wire'[o] \in Seq(Envelope \union Picturing) /\ open'[o] \in BOOLEAN
<1> USE DEF managerVars, record, events
<1>1. /\ Len(log) \in Nat /\ lastEventId = Len(log) /\ log' = log
      /\ log \in Seq(Event)
      /\ lastId[o] \in Nat \union {None}
      /\ lastId[o] # None => lastId[o] \in 0..Len(log)
      /\ lastId'[o] = lastId[o] /\ open'[o] \in BOOLEAN
      /\ wire'[o] = CatchUp(lastId[o])
  BY DEF IInv, TypeOK, ReplayWindow, StreamTypeOK, Heard, Offer
<1>2. ASSUME NEW type \in Pictures, wire'[o] = Picture(type),
             type = "snapshot" => lastId[o] = None
      PROVE  Flows(o)' /\ wire'[o] \in Seq(Envelope \union Picturing)
  <2>1. /\ wire'[o] \in Seq(Picturing) /\ Len(wire'[o]) = 1 /\ wire'[o] # << >>
        /\ IsPicture(wire'[o][1])
        /\ wire'[o][1].id = Len(log)
        /\ wire'[o][1].event.type = type
    BY <1>2, PictureIsWhole
  <2>2. IsPicture(wire[o][1])'
    BY <2>1 DEF IsPicture, NoWordAfter
  <2>3. QED
    BY <1>1, <1>2, <2>1, <2>2 DEF Flows
<1>3. CASE lastId[o] = None
  BY <1>1, <1>2, <1>3 DEF CatchUp, Pictures
<1>4. CASE lastId[o] # None /\ lastId[o] = lastEventId
  <2>1. wire'[o] = << >>
    BY <1>1, <1>4 DEF CatchUp
  <2>2. Len(wire'[o]) = 0 /\ lastId'[o] # None /\ lastId'[o] = Len(log')
    BY <1>1, <1>4, <2>1
  <2>3. Flows(o)'
    BY <2>1, <2>2 DEF Flows
  <2>4. wire'[o] \in Seq(Envelope \union Picturing)
    BY <2>1
  <2>5. QED
    BY <1>1, <2>3, <2>4
<1>5. CASE lastId[o] # None /\ lastId[o] # lastEventId /\ ~CanReplay(lastId[o])
  BY <1>1, <1>2, <1>5 DEF CatchUp, Pictures
<1>6. CASE lastId[o] # None /\ lastId[o] # lastEventId /\ CanReplay(lastId[o])
  <2> DEFINE n == lastId[o]
  <2>1. n \in Nat /\ n < Len(log) /\ CanReplay(n) /\ wire'[o] = Missed(n)
    BY <1>1, <1>6 DEF CatchUp
  <2>2. /\ wire'[o] \in Seq(Envelope)
        /\ Len(wire'[o]) = Len(log) - n
        /\ \A i \in 1..Len(wire'[o]) :
               wire'[o][i] = [id |-> n + i, event |-> log[n + i]]
    BY <2>1, MissedAreTheNext
  <2> HIDE DEF n
  <2>3. ASSUME NEW i \in 1..Len(wire'[o])
        PROVE  /\ IsEvent(wire[o][i])'
               /\ wire'[o][i].id = n + i
               /\ wire'[o][i].event.type \notin Pictures
    <3>1. n + i \in 1..Len(log) /\ log[n + i] \in Event
      BY <1>1, <2>1, <2>2
    <3>2. log[n + i].type \notin Pictures
      BY <3>1, EventKinds DEF Parts, Pictures
    <3>3. wire'[o][i].id = n + i /\ wire'[o][i].event = log'[n + i]
      <4>1. wire'[o][i] = [id |-> n + i, event |-> log[n + i]]
        BY <2>2
      <4>2. log' = log
        BY <1>1
      <4> QED  BY <4>1, <4>2
    <3>4. QED
      BY <1>1, <3>1, <3>2, <3>3 DEF IsEvent
  <2>4. Len(wire'[o]) \in Nat \ {0} /\ wire'[o] # << >>
    BY <1>1, <2>1, <2>2
  <2>5. \A i \in 1..Len(wire'[o]) - 1 : wire'[o][i + 1].id = wire'[o][i].id + 1
    <3>1. \A i \in 1..Len(wire'[o]) - 1 : i \in 1..Len(wire'[o]) /\ i + 1 \in 1..Len(wire'[o])
      BY <2>4
    <3>2. \A i \in 1..Len(wire'[o]) : wire'[o][i].id = n + i
      BY <2>3
    <3>3. QED
      BY <2>1, <3>1, <3>2
  <2>6. 1 \in 1..Len(wire'[o]) /\ Len(wire'[o]) \in 1..Len(wire'[o])
    BY <2>4
  <2>7. /\ wire'[o][1].id = n + 1 /\ wire'[o][1].event.type # "snapshot"
        /\ wire'[o][Len(wire'[o])].id = Len(log)
    BY <1>1, <2>1, <2>2, <2>3, <2>6 DEF Pictures
  <2>8. n = lastId[o]
    BY DEF n
  <2>9. QED
    BY <1>1, <1>6, <2>2, <2>3, <2>4, <2>5, <2>7, <2>8 DEF Flows
<1>7. QED
  BY <1>1, <1>3, <1>4, <1>5, <1>6

-----------------------------------------------------------------------------
(* What the tab makes of the response.                                     *)

(* An event that names an outcome names the outcome, after the last word.  *)
LEMMA EndingIsLast ==
  ASSUME IInv, NEW n \in 1..Len(log), log[n].type \notin Parts, IsTerminal(log[n].state)
  PROVE  log[n].state = state /\ NoWordAfter(n)
<1>1. /\ Len(log) \in Nat /\ Spoken \in 0..Len(log) /\ log[n] \in Event
      /\ doneEmitted \in BOOLEAN
      /\ \A i \in 1..Spoken : ~Ending(log[i])
  BY DEF IInv, TypeOK, LogShape
<1>2. Ending(log[n])
  BY <1>1, EventKinds DEF Ending
<1>3. n > Spoken /\ n <= Len(log)
  BY <1>1, <1>2
<1>4. IsTerminal(state)
  BY <1>1, <1>3 DEF Spoken
<1>5. log[Spoken + 1] = StateChange(state)
  BY <1>4 DEF IInv, LogShape
<1>6. CASE doneEmitted
  <2>1. Len(log) = Spoken + 2 /\ log[Spoken + 2] = Done(state)
    BY <1>1, <1>4, <1>6 DEF IInv, LogShape, Spoken
  <2>2. n = Spoken + 1 \/ n = Spoken + 2
    BY <1>1, <1>3, <2>1
  <2>3. log[n].state = state
    BY <1>5, <2>1, <2>2 DEF StateChange, Done
  <2>4. ASSUME NEW i \in 1..Len(log), log[i].type \in Parts PROVE i <= n
    <3>1. i # Spoken + 2
      BY <2>1, <2>4 DEF Done, Parts
    <3>2. QED
      BY <1>1, <1>3, <2>1, <3>1
  <2>5. QED
    BY <1>4, <2>3, <2>4 DEF NoWordAfter
<1>7. CASE ~doneEmitted
  <2>1. Len(log) = Spoken + 1
    BY <1>1, <1>4, <1>7 DEF Spoken
  <2>2. n = Spoken + 1 /\ n = Len(log)
    BY <1>1, <1>3, <2>1
  <2>3. QED
    BY <1>1, <1>4, <1>5, <2>2 DEF StateChange, NoWordAfter
<1>8. QED
  BY <1>1, <1>6, <1>7

(* What the tab reads next, and what is left behind it.                    *)
LEMMA NextEnvelope ==
  ASSUME IInv, StreamTypeOK, NEW o \in Observers, Flows(o), wire[o] # << >>, NEW e,
         e = Head(wire[o])
  PROVE  /\ e \in Envelope \union Picturing
         /\ e.id \in 0..Len(log)
         /\ \/ IsPicture(e) /\ e \in Picturing
               /\ (e.event.type = "snapshot" => lastId[o] = None)
            \/ IsEvent(e) /\ e.event \in Event
               /\ lastId[o] \in Nat /\ e.id = lastId[o] + 1
<1>1. /\ Len(log) \in Nat /\ log \in Seq(Event)
      /\ wire[o] \in Seq(Envelope \union Picturing) /\ Len(wire[o]) > 0
      /\ lastId[o] \in Nat \union {None}
  BY DEF IInv, TypeOK, StreamTypeOK
<1>2. e = wire[o][1] /\ 1 \in 1..Len(wire[o]) /\ e \in Envelope \union Picturing
  BY <1>1
<1>3. CASE IsEvent(e)
  <2>1. e.event \in Event /\ e.id \in 1..Len(log)
    BY <1>1, <1>3 DEF IsEvent
  <2>2. e.event.type \notin Pictures
    BY <2>1, EventKinds DEF Parts, Pictures
  <2>3. lastId[o] # None /\ e.id = lastId[o] + 1
    BY <1>2, <2>2 DEF Flows
  <2>4. QED
    BY <1>1, <1>2, <1>3, <2>1, <2>3
<1>4. CASE IsPicture(e)
  <2>1. e.event.type \in Pictures /\ e.id \in 0..Len(log)
    BY <1>4 DEF IsPicture
  <2>2. e \notin Envelope
    <3>1. ASSUME e \in Envelope PROVE FALSE
      <4>1. e.event \in Event
        BY <3>1 DEF Envelope
      <4>2. QED
        BY <2>1, <4>1, EventKinds DEF Parts, Pictures
    <3>2. QED
      BY <3>1
  <2>3. e.event.type = "snapshot" => lastId[o] = None
    BY <1>2 DEF Flows
  <2>4. QED
    BY <1>2, <1>4, <2>1, <2>2, <2>3
<1>5. QED
  BY <1>2, <1>3, <1>4 DEF Flows

LEMMA FlowsDelivered ==
  ASSUME IInv, IInv', StreamTypeOK, NEW o \in Observers, Flows(o), UNCHANGED managerVars,
         wire[o] # << >>, wire'[o] = Tail(wire[o]), open'[o] = open[o],
         lastId'[o] = Head(wire[o]).id
  PROVE  /\ Flows(o)'
         /\ wire'[o] \in Seq(Envelope \union Picturing)
<1>w. PICK w : w = wire[o]
  OBVIOUS
<1>v. PICK v : v = wire'[o]
  OBVIOUS
<1>1. /\ Len(log) \in Nat /\ log' = log /\ log \in Seq(Event)
      /\ w \in Seq(Envelope \union Picturing) /\ w # << >> /\ v = Tail(w)
      /\ lastId'[o] = w[1].id
  BY <1>w, <1>v DEF IInv, TypeOK, StreamTypeOK, managerVars, events
<1>2. /\ v \in Seq(Envelope \union Picturing) /\ Len(w) \in Nat /\ Len(w) > 0
      /\ Len(v) = Len(w) - 1
      /\ \A i \in 1..Len(v) : v[i] = w[i + 1]
  BY <1>1
<1>3. w[1].id \in Nat
  BY <1>1, <1>w, NextEnvelope
<1>4. /\ \A i \in 1..Len(w) : IsEvent(w[i]) \/ (i = 1 /\ IsPicture(w[i]))
      /\ \A i \in 1..Len(w) - 1 : w[i + 1].id = w[i].id + 1
      /\ open[o] => w[Len(w)].id = Len(log)
  BY <1>1, <1>w DEF Flows
<1>5. ASSUME NEW i \in 1..Len(v)
      PROVE  IsEvent(v[i]) /\ v[i].event.type \notin Pictures
  <2>1. i + 1 \in 1..Len(w) /\ i + 1 # 1 /\ v[i] = w[i + 1]
    BY <1>2
  <2>2. IsEvent(v[i])
    BY <1>4, <2>1
  <2>3. v[i].event \in Event
    BY <1>1, <2>2 DEF IsEvent
  <2>4. QED
    BY <2>2, <2>3, EventKinds DEF Parts, Pictures
<1>6. ASSUME NEW i \in 1..Len(v) - 1 PROVE v[i + 1].id = v[i].id + 1
  <2>1. i \in 1..Len(v) /\ i + 1 \in 1..Len(v) /\ i + 1 \in 1..Len(w) - 1
    BY <1>2
  <2>2. QED
    BY <1>2, <1>4, <2>1
<1>7. ASSUME Len(v) > 0
      PROVE  /\ v[1].id = w[1].id + 1 /\ v[1].event.type \notin Pictures
             /\ open[o] => v[Len(v)].id = Len(log)
  <2>1. 1 \in 1..Len(v) /\ 1 \in 1..Len(w) - 1 /\ Len(v) \in 1..Len(v) /\ Len(v) + 1 = Len(w)
    BY <1>2, <1>7
  <2>2. v[1] = w[1 + 1] /\ v[Len(v)] = w[Len(w)]
    BY <1>2, <2>1
  <2>3. QED
    BY <1>4, <1>5, <2>1, <2>2
<1>8. ASSUME Len(v) = 0 PROVE open[o] => w[1].id = Len(log)
  <2>1. Len(w) = 1
    BY <1>2, <1>8
  <2>2. QED
    BY <1>4, <2>1
<1>9. v # << >> <=> Len(v) > 0
  BY <1>2
<1>10. \A i \in 1..Len(v) : IsEvent(wire[o][i])'
  BY <1>1, <1>5, <1>v DEF IsEvent
<1>11. w[1].id # None
  BY <1>3, NoneAssumption
<1>12. Flows(o)'
  <2>1. ASSUME v # << >>
        PROVE  /\ lastId'[o] # None /\ v[1].id = lastId'[o] + 1
               /\ v[1].event.type # "snapshot"
    BY <1>1, <1>7, <1>9, <1>11, <2>1 DEF Pictures
  <2>2. open'[o] => IF v = << >> THEN lastId'[o] = Len(log') ELSE v[Len(v)].id = Len(log')
    BY <1>1, <1>2, <1>7, <1>8, <1>9
  <2>3. QED
    BY <1>6, <1>10, <2>1, <2>2, <1>v DEF Flows
<1>13. QED
  BY <1>2, <1>12, <1>v

(* Taking in the next envelope keeps the account.                          *)
LEMMA HeardDelivered ==
  ASSUME IInv, RecordIsTold, StreamTypeOK, NEW o \in Observers, Flows(o), Heard(o),
         UNCHANGED managerVars, wire[o] # << >>, NEW e, e = Head(wire[o]),
         Receive(o, e.event), lastId'[o] = e.id
  PROVE  /\ Heard(o)'
         /\ applied'[o] \in Text /\ unflushed'[o] \in Text
<1>1. /\ applied[o] \in Text /\ unflushed[o] \in Text /\ text' = text /\ log' = log
      /\ Len(log) \in Nat
      /\ applied'[o] = IF e.event.type \in {"snapshot", "resync"} THEN e.event.text
                       ELSE IF e.event.type = "done" THEN Joined(applied[o], unflushed[o])
                       ELSE applied[o]
      /\ unflushed'[o] = IF e.event.type \in Parts
                         THEN [unflushed[o] EXCEPT ![e.event.type] = Append(@, e.event.delta)]
                         ELSE IF e.event.type \in {"resync", "done"} THEN NoText
                         ELSE unflushed[o]
  <2>1. /\ applied[o] \in Text /\ unflushed[o] \in Text /\ text' = text /\ log' = log
        /\ Len(log) \in Nat
    BY DEF IInv, TypeOK, StreamTypeOK, managerVars, record, events
  <2>2. applied'[o] = IF e.event.type \in {"snapshot", "resync"} THEN e.event.text
                     ELSE IF e.event.type = "done" THEN Joined(applied[o], unflushed[o])
                     ELSE applied[o]
    BY DEF StreamTypeOK, Receive
  <2>3. unflushed'[o] = IF e.event.type \in Parts
                       THEN [unflushed[o] EXCEPT ![e.event.type] = Append(@, e.event.delta)]
                       ELSE IF e.event.type \in {"resync", "done"} THEN NoText
                       ELSE unflushed[o]
    <3> DEFINE u == IF e.event.type \in Parts
                    THEN [unflushed[o] EXCEPT ![e.event.type] = Append(@, e.event.delta)]
                    ELSE IF e.event.type \in {"resync", "done"} THEN NoText
                    ELSE unflushed[o]
    <3>1. unflushed' = [unflushed EXCEPT ![o] = u]
      BY DEF Receive
    <3> HIDE DEF u
    <3>2. unflushed'[o] = u
      BY <3>1 DEF StreamTypeOK
    <3>3. QED
      BY <3>2 DEF u
  <2>4. QED
    BY <2>1, <2>2, <2>3
<1>2. e.id \in 0..Len(log)
  BY NextEnvelope
<1>3. ASSUME applied'[o] \in Text, unflushed'[o] \in Text,
             Joined(applied'[o], unflushed'[o]) = Told(text, log, e.id)
      PROVE  /\ Heard(o)'
             /\ applied'[o] \in Text /\ unflushed'[o] \in Text
  <2>1. lastId'[o] # None /\ lastId'[o] \in 0..Len(log')
    BY <1>1, <1>2, NoneAssumption
  <2>2. Joined(applied'[o], unflushed'[o]) = Told(text', log', lastId'[o])
    BY <1>1, <1>3
  <2>3. Heard(o)'
    BY <2>1, <2>2 DEF Heard
  <2>4. QED
    BY <1>3, <2>3
<1>4. CASE IsPicture(e) /\ e \in Picturing /\ (e.event.type = "snapshot" => lastId[o] = None)
  <2>1. /\ e.event.type \in Pictures /\ e.event.type \notin Parts
        /\ e.event.text \in Text
        /\ e.event.text = Told(text, log, e.id)
    BY <1>4 DEF IsPicture, Picturing, Pictures, Parts
  <2>2. applied'[o] = e.event.text
    BY <1>1, <2>1 DEF Pictures
  <2>3. unflushed'[o] = NoText
    <3>1. CASE e.event.type = "snapshot"
      BY <1>1, <1>4, <2>1, <3>1 DEF Heard
    <3>2. CASE e.event.type = "resync"
      BY <1>1, <2>1, <3>2
    <3>3. QED
      BY <2>1, <3>1, <3>2 DEF Pictures
  <2>4. NoText \in Text /\ Joined(e.event.text, NoText) = e.event.text
    BY <2>1, JoinedTexts
  <2>5. QED
    BY <1>3, <2>1, <2>2, <2>3, <2>4
<1>5. CASE IsEvent(e) /\ e.event \in Event /\ lastId[o] \in Nat /\ e.id = lastId[o] + 1
  <2> DEFINE n == lastId[o]
             old == Joined(applied[o], unflushed[o])
  <2>1. /\ n \in Nat /\ n + 1 \in 1..Len(log) /\ e.id = n + 1 /\ e.event = log[n + 1]
        /\ n # None /\ old = Told(text, log, n)
    BY <1>5, NoneAssumption DEF IsEvent, Heard
  <2>2. Told(text, log, e.id)
          = IF e.event.type \in Parts
            THEN [old EXCEPT ![e.event.type] = Append(@, e.event.delta)]
            ELSE old
    BY <2>1, ToldNext
  <2>3. CASE e.event.type \in Parts
    <3>1. e.event.delta \in Nat /\ e.event.type \notin {"snapshot", "resync", "done"}
      BY <1>5, <2>3, EventKinds DEF Parts
    <3>2. /\ applied'[o] = applied[o]
          /\ unflushed'[o] = [unflushed[o] EXCEPT ![e.event.type] = Append(@, e.event.delta)]
      BY <1>1, <2>3, <3>1
    <3>3. /\ unflushed'[o] \in Text
          /\ Joined(applied'[o], unflushed'[o])
                = [old EXCEPT ![e.event.type] = Append(@, e.event.delta)]
      <4>1. \A p \in Parts, d \in Nat :
               /\ [unflushed[o] EXCEPT ![p] = Append(@, d)] \in Text
               /\ Joined(applied[o], [unflushed[o] EXCEPT ![p] = Append(@, d)])
                     = [old EXCEPT ![p] = Append(@, d)]
        BY <1>1, JoinedTexts
      <4> DEFINE new == [unflushed[o] EXCEPT ![e.event.type] = Append(@, e.event.delta)]
      <4> HIDE DEF old
      <4>2. /\ new \in Text
            /\ Joined(applied[o], new) = [old EXCEPT ![e.event.type] = Append(@, e.event.delta)]
        BY <2>3, <3>1, <4>1
      <4>3. unflushed'[o] = new
        BY <3>2
      <4> HIDE DEF new
      <4>4. QED
        BY <3>2, <4>2, <4>3
    <3>4. QED
      BY <1>1, <1>3, <2>2, <2>3, <3>2, <3>3
  <2>4. CASE e.event.type = "done"
    <3>1. applied'[o] = old /\ unflushed'[o] = NoText /\ e.event.type \notin Parts
      BY <1>1, <2>4 DEF Parts
    <3>2. old \in Text /\ NoText \in Text /\ Joined(old, NoText) = old
      <4>1. old \in Text
        BY <1>1, JoinedTexts
      <4> HIDE DEF old
      <4>2. QED
        BY <4>1, JoinedTexts
    <3>3. QED
      BY <1>3, <2>2, <3>1, <3>2
  <2>5. CASE e.event.type = "state"
    <3>1. applied'[o] = applied[o] /\ unflushed'[o] = unflushed[o] /\ e.event.type \notin Parts
      BY <1>1, <2>5 DEF Parts
    <3>2. QED
      BY <1>1, <1>3, <2>2, <3>1
  <2>6. QED
    BY <1>5, <2>3, <2>4, <2>5, EventKinds
<1>6. QED
  BY <1>4, <1>5, NextEnvelope

(* An outcome that is told is the outcome, and is told after all the text. *)
LEMMA ConcludedDelivered ==
  ASSUME IInv, StreamTypeOK, NEW o \in Observers, Flows(o), Concluded(o),
         UNCHANGED managerVars, wire[o] # << >>, NEW e, e = Head(wire[o]),
         Receive(o, e.event), lastId'[o] = e.id, phase[o] # "away", guessed'[o] = guessed[o]
  PROVE  Concluded(o)' /\ shown'[o] \in States \union {Idle}
<1>1. /\ state' = state /\ log' = log /\ Len(log) \in Nat /\ shown[o] \in States \union {Idle}
      /\ shown'[o] = IF e.event.type \in Parts THEN shown[o] ELSE e.event.state
      /\ e.id \in 0..Len(log) /\ lastId'[o] # None
  <2>1. state' = state /\ log' = log /\ Len(log) \in Nat /\ shown[o] \in States \union {Idle}
    BY DEF IInv, TypeOK, StreamTypeOK, managerVars, record, events
  <2>2. shown'[o] = IF e.event.type \in Parts THEN shown[o] ELSE e.event.state
    BY DEF StreamTypeOK, Receive
  <2>3. e.id \in 0..Len(log)
    BY NextEnvelope
  <2>4. QED
    BY <2>1, <2>2, <2>3, NoneAssumption
<1>2. ASSUME IsTerminal(shown'[o]), ~guessed'[o] => shown'[o] = state /\ NoWordAfter(e.id)
      PROVE  Concluded(o)'
  BY <1>1, <1>2 DEF Concluded, NoWordAfter
<1>3. CASE IsPicture(e) /\ e \in Picturing
  <2>1. /\ e.event.type \notin Parts /\ e.event.state \in States
        /\ IsTerminal(e.event.state) => e.event.state = state /\ NoWordAfter(e.id)
    BY <1>3 DEF IsPicture, Picturing, Pictures, Parts
  <2>2. QED
    BY <1>1, <1>2, <2>1 DEF Concluded
<1>4. CASE IsEvent(e) /\ e.event \in Event /\ lastId[o] \in Nat /\ e.id = lastId[o] + 1
  <2>1. e.id \in 1..Len(log) /\ e.event = log[e.id]
    BY <1>4 DEF IsEvent
  <2>2. CASE e.event.type \in Parts
    <3>1. ASSUME IsTerminal(shown[o]), ~guessed[o]
          PROVE  shown[o] = state /\ NoWordAfter(e.id)
      <4>1. shown[o] = state /\ NoWordAfter(lastId[o])
        BY <3>1 DEF Concluded
      <4>2. QED
        BY <1>1, <1>4, <4>1 DEF NoWordAfter
    <3>2. QED
      BY <1>1, <1>2, <2>2, <3>1 DEF Concluded
  <2>3. CASE e.event.type \notin Parts
    <3>1. e.event.state \in States
      BY <1>4, <2>3, EventKinds
    <3>2. IsTerminal(e.event.state) => e.event.state = state /\ NoWordAfter(e.id)
      BY <2>1, <2>3, EndingIsLast
    <3>3. QED
      BY <1>1, <1>2, <2>3, <3>1, <3>2 DEF Concluded
  <2>4. QED
    BY <2>2, <2>3
<1>5. QED
  BY <1>3, <1>4, NextEnvelope

(* A tab that takes nothing in, while the run goes on.                     *)
LEMMA HeardKept ==
  ASSUME IInv, IInv', RecordIsTold, Tells, NEW o \in Observers, Heard(o),
         lastId'[o] = lastId[o], applied'[o] = applied[o], unflushed'[o] = unflushed[o]
  PROVE  Heard(o)'
<1>1. Len(log) \in Nat /\ Len(log') \in Nat /\ Len(log) <= Len(log')
  BY DEF IInv, TypeOK, Tells, Extends
<1>2. CASE lastId[o] = None
  BY <1>2 DEF Heard
<1>3. CASE lastId[o] # None
  <2>1. /\ lastId[o] \in 0..Len(log)
        /\ Joined(applied[o], unflushed[o]) = Told(text, log, lastId[o])
    BY <1>3 DEF Heard
  <2>2. Told(text', log', lastId[o]) = Told(text, log, lastId[o])
    BY <2>1, ToldStable
  <2>3. lastId[o] \in 0..Len(log')
    BY <1>1, <2>1
  <2>4. QED
    BY <1>3, <2>1, <2>2, <2>3 DEF Heard
<1>4. QED
  BY <1>2, <1>3

LEMMA ConcludedKept ==
  ASSUME IInv, IInv', Tells, NEW o \in Observers, Heard(o), Concluded(o),
         IsTerminal(shown'[o]) /\ ~guessed'[o] /\ phase'[o] # "away"
             => /\ shown'[o] = shown[o] /\ guessed'[o] = guessed[o] /\ phase[o] # "away"
                /\ lastId'[o] = lastId[o]
  PROVE  Concluded(o)'
<1> SUFFICES ASSUME IsTerminal(shown'[o]), ~guessed'[o], phase'[o] # "away"
             PROVE  shown'[o] = state' /\ lastId'[o] # None /\ NoWordAfter(lastId[o])'
  BY DEF Concluded
<1>1. shown'[o] = state /\ lastId[o] # None /\ NoWordAfter(lastId[o]) /\ lastId'[o] = lastId[o]
  BY DEF Concluded
<1>2. lastId[o] \in 0..Len(log)
  BY <1>1 DEF Heard
<1>3. /\ state' = state /\ IsTerminal(state')
      /\ \A i \in 1..Len(log') : log'[i].type \in Parts => i <= lastId[o]
  BY <1>1, <1>2, NoWordStays
<1>4. QED
  BY <1>1, <1>3 DEF NoWordAfter

-----------------------------------------------------------------------------
(* Each step.                                                              *)

LEMMA NothingYet == Init => SInv
<1> SUFFICES ASSUME Init PROVE SInv
  OBVIOUS
<1>1. IInv
  BY InitEstablishes DEF Init
<1>2. log = << >> /\ Len(log) = 0 /\ text = NoText
  BY DEF Init, ManagerInit
<1>3. RecordIsTold
  <2>1. \A p \in Parts : Pieces(log, p, 0) = 0 /\ Len(text[p]) = 0
    BY <1>2, PiecesCount DEF NoText
  <2>2. QED
    BY <1>2, <2>1 DEF RecordIsTold
<1>4. StreamTypeOK
  <2>1. NoText \in Text
    BY DEF NoText, Text
  <2>2. QED
    BY <2>1 DEF Init, StreamTypeOK
<1>5. ASSUME NEW o \in Observers PROVE Sound(o)
  <2>1. /\ wire[o] = << >> /\ Len(wire[o]) = 0 /\ open[o] = FALSE /\ lastId[o] = None
        /\ unflushed[o] = NoText /\ phase[o] = "away"
    BY <1>5 DEF Init
  <2>2. Flows(o) /\ Heard(o) /\ Settled(o) /\ Concluded(o)
    BY <2>1 DEF Flows, Heard, Settled, Concluded
  <2>3. QED
    BY <2>2 DEF Sound
<1>6. QED
  BY <1>1, <1>3, <1>4, <1>5 DEF SInv

(* Every step is a step of the generation, or leaves it alone.             *)
LEMMA ManagerGoesOn == [Next]_vars => [ManagerNext]_managerVars
<1> SUFFICES ASSUME [Next]_vars PROVE [ManagerNext]_managerVars
  OBVIOUS
<1>1. CASE ManagerStep
  BY <1>1 DEF ManagerStep
<1>2. CASE Exit
  BY <1>2 DEF Exit
<1>3. ASSUME NEW o \in Observers, ObserverNext(o) PROVE UNCHANGED managerVars
  BY <1>3 DEF ObserverNext, Watch, Connect, Deliver, Frame, HangUp, Drop, Leave, Settle
<1>4. CASE UNCHANGED vars
  BY <1>4 DEF vars
<1>5. QED
  BY <1>1, <1>2, <1>3, <1>4 DEF Next

LEMMA GenerationGoesOn ==
  ASSUME SInv, [Next]_vars
  PROVE  IInv' /\ Tells /\ RecordIsTold'
<1>1. IInv /\ RecordIsTold /\ [ManagerNext]_managerVars
  BY ManagerGoesOn DEF SInv
<1>2. IInv' /\ Tells
  BY <1>1, StepPreserves, ManagerTells
<1>3. QED
  BY <1>1, <1>2, RecordStaysTold

SameTab(q) ==
    /\ phase'[q] = phase[q] /\ wire'[q] = wire[q] /\ open'[q] = open[q]
    /\ lastId'[q] = lastId[q] /\ shown'[q] = shown[q] /\ guessed'[q] = guessed[q]
    /\ applied'[q] = applied[q] /\ unflushed'[q] = unflushed[q]

OnlyTab(o) == \A q \in Observers : q # o => SameTab(q)

LEMMA UntouchedTab ==
  ASSUME SInv, IInv', Tells, log' = log, NEW q \in Observers, SameTab(q)
  PROVE  Sound(q)'
<1>1. IInv /\ RecordIsTold /\ Flows(q) /\ Heard(q) /\ Settled(q) /\ Concluded(q)
  BY DEF SInv, Sound
<1>2. Flows(q)'
  BY <1>1, FlowsKept DEF SameTab
<1>3. Heard(q)'
  BY <1>1, HeardKept DEF SameTab
<1>4. Concluded(q)'
  BY <1>1, ConcludedKept DEF SameTab
<1>5. Settled(q)'
  BY <1>1 DEF Settled, SameTab
<1>6. QED
  BY <1>2, <1>3, <1>4, <1>5 DEF Sound

LEMMA ManagerStepSound ==
  ASSUME SInv, IInv', Tells, ManagerStep
  PROVE  StreamTypeOK' /\ \A o \in Observers : Sound(o)'
<1>1. /\ IInv /\ RecordIsTold /\ StreamTypeOK /\ Broadcast
      /\ UNCHANGED <<phase, lastId, shown, applied, unflushed, guessed>>
  BY DEF SInv, ManagerStep, view
<1>2. ASSUME NEW o \in Observers
      PROVE  /\ Sound(o)'
             /\ wire'[o] \in Seq(Envelope \union Picturing) /\ open'[o] \in BOOLEAN
  <2>1. Flows(o) /\ Heard(o) /\ Settled(o) /\ Concluded(o)
    BY DEF SInv, Sound
  <2>2. Flows(o)' /\ wire'[o] \in Seq(Envelope \union Picturing) /\ open'[o] \in BOOLEAN
    BY <1>1, <2>1, FlowsOn
  <2>3. Heard(o)'
    BY <1>1, <2>1, HeardKept
  <2>4. Concluded(o)'
    BY <1>1, <2>1, ConcludedKept
  <2>5. Settled(o)'
    BY <1>1, <2>1 DEF Settled
  <2>6. QED
    BY <2>2, <2>3, <2>4, <2>5 DEF Sound
<1>3. wire' = [o \in Observers |-> wire'[o]] /\ open' = [o \in Observers |-> open'[o]]
  BY <1>1 DEF Broadcast
<1>4. /\ wire' \in [Observers -> Seq(Envelope \union Picturing)]
      /\ open' \in [Observers -> BOOLEAN]
  BY <1>2, <1>3
<1>5. StreamTypeOK'
  BY <1>1, <1>4 DEF StreamTypeOK
<1>6. QED
  BY <1>2, <1>5

LEMMA ExitSound ==
  ASSUME SInv, IInv', Tells, Exit
  PROVE  StreamTypeOK' /\ \A o \in Observers : Sound(o)'
<1>1. /\ IInv /\ RecordIsTold /\ StreamTypeOK
      /\ UNCHANGED <<phase, wire, lastId, shown, applied, unflushed, guessed>>
      /\ open' = [o \in Observers |-> FALSE]
  BY DEF SInv, Exit, view
<1>2. ASSUME NEW o \in Observers PROVE Sound(o)'
  <2>1. Flows(o) /\ Heard(o) /\ Settled(o) /\ Concluded(o)
    BY DEF SInv, Sound
  <2>2. Flows(o)' /\ Heard(o)' /\ Concluded(o)'
    BY <1>1, <2>1, FlowsKept, HeardKept, ConcludedKept
  <2>3. Settled(o)'
    BY <1>1, <2>1 DEF Settled
  <2>4. QED
    BY <2>2, <2>3 DEF Sound
<1>3. QED
  BY <1>1, <1>2 DEF StreamTypeOK

LEMMA WatchSound ==
  ASSUME SInv, IInv', Tells, NEW o \in Observers, Watch(o)
  PROVE  StreamTypeOK' /\ OnlyTab(o) /\ Sound(o)'
<1>1. /\ IInv /\ RecordIsTold /\ StreamTypeOK /\ Flows(o) /\ Heard(o)
      /\ Settled(o) /\ Concluded(o) /\ log' = log
  BY DEF SInv, Sound, Watch, managerVars, events
<1>2. /\ UNCHANGED <<wire, open, lastId, applied, unflushed, guessed>>
      /\ shown' = [shown EXCEPT ![o] = "pending"]
      /\ phase' = [phase EXCEPT ![o] = "retrying"]
  BY DEF Watch
<1>3. StreamTypeOK' /\ OnlyTab(o)
  BY <1>1, <1>2 DEF StreamTypeOK, OnlyTab, SameTab, States
<1>4. Flows(o)' /\ Heard(o)'
  BY <1>1, <1>2, FlowsKept, HeardKept
<1>5. ~IsTerminal(shown'[o])
  BY <1>1, <1>2 DEF StreamTypeOK, IsTerminal, TerminalStates
<1>6. Concluded(o)'
  BY <1>5 DEF Concluded
<1>7. Settled(o)'
  BY <1>1, <1>2 DEF StreamTypeOK, Settled
<1>8. QED
  BY <1>3, <1>4, <1>6, <1>7 DEF Sound

LEMMA ConnectSound ==
  ASSUME SInv, IInv', Tells, NEW o \in Observers, Connect(o)
  PROVE  StreamTypeOK' /\ OnlyTab(o) /\ Sound(o)'
<1>1. /\ IInv /\ RecordIsTold /\ StreamTypeOK /\ Flows(o) /\ Heard(o)
      /\ Settled(o) /\ Concluded(o) /\ log' = log
  BY DEF SInv, Sound, Connect, managerVars, events
<1>2. UNCHANGED <<managerVars, applied, unflushed>>
  BY DEF Connect
<1>3. CASE registry = "held"
  <2>1. /\ Offer(o) /\ lastId' = lastId
        /\ phase' = [phase EXCEPT ![o] = "live"]
        /\ UNCHANGED <<shown, guessed>>
        /\ wire' = [wire EXCEPT ![o] = CatchUp(lastId[o])]
        /\ open' = [open EXCEPT ![o] = ~IsTerminal(state)]
        /\ phase[o] # "away"
    BY <1>3 DEF Connect, Offer
  <2>2. /\ Flows(o)' /\ wire'[o] \in Seq(Envelope \union Picturing) /\ open'[o] \in BOOLEAN
    BY <1>1, <1>2, <2>1, FlowsOffered
  <2>3. OnlyTab(o)
    BY <1>1, <1>2, <2>1 DEF StreamTypeOK, OnlyTab, SameTab
  <2>4. wire' \in [Observers -> Seq(Envelope \union Picturing)] /\ open' \in [Observers -> BOOLEAN]
    <3>1. /\ wire' = [q \in Observers |-> wire'[q]]
          /\ open' = [q \in Observers |-> open'[q]]
      BY <1>1, <2>1 DEF StreamTypeOK
    <3>2. \A q \in Observers : /\ wire'[q] \in Seq(Envelope \union Picturing)
                             /\ open'[q] \in BOOLEAN
      BY <1>1, <2>2, <2>3 DEF StreamTypeOK, OnlyTab, SameTab
    <3>3. QED
      BY <3>1, <3>2
  <2>5. StreamTypeOK'
    BY <1>1, <1>2, <2>1, <2>4 DEF StreamTypeOK
  <2>6. Heard(o)' /\ Concluded(o)'
    BY <1>1, <1>2, <2>1, HeardKept, ConcludedKept
  <2>7. Settled(o)'
    BY <1>1, <1>2, <2>1 DEF StreamTypeOK, Settled
  <2>8. QED
    BY <2>2, <2>3, <2>5, <2>6, <2>7 DEF Sound
<1>4. CASE registry # "held"
  <2>1. /\ UNCHANGED <<wire, open, lastId>>
        /\ phase' = [phase EXCEPT ![o] = "closed"]
        /\ shown' = [shown EXCEPT ![o] = IF IsTerminal(@) THEN @ ELSE "failed"]
        /\ guessed' = [guessed EXCEPT ![o] = guessed[o] \/ ~IsTerminal(shown[o])]
        /\ phase[o] # "away"
    BY <1>4 DEF Connect, GiveUp
  <2>2. /\ shown'[o] = IF IsTerminal(shown[o]) THEN shown[o] ELSE "failed"
        /\ guessed'[o] = (guessed[o] \/ ~IsTerminal(shown[o]))
    BY <1>1, <2>1 DEF StreamTypeOK
  <2>3. OnlyTab(o)
    BY <1>1, <1>2, <2>1 DEF StreamTypeOK, OnlyTab, SameTab
  <2>4. StreamTypeOK'
    BY <1>1, <1>2, <2>1 DEF StreamTypeOK, States, TerminalStates
  <2>5. Flows(o)' /\ Heard(o)'
    BY <1>1, <1>2, <2>1, FlowsKept, HeardKept
  <2>6. ~guessed'[o] => shown'[o] = shown[o] /\ guessed'[o] = guessed[o]
    BY <1>1, <2>2 DEF StreamTypeOK
  <2>7. lastId'[o] = lastId[o]
    BY <2>1
  <2>8. Concluded(o)'
    BY <1>1, <2>1, <2>6, <2>7, ConcludedKept
  <2>9. Settled(o)'
    BY <1>1, <1>2, <2>1 DEF StreamTypeOK, Settled
  <2>10. QED
    BY <2>3, <2>4, <2>5, <2>8, <2>9 DEF Sound
<1>5. QED
  BY <1>3, <1>4

LEMMA DeliverSound ==
  ASSUME SInv, IInv', Tells, NEW o \in Observers, Deliver(o)
  PROVE  StreamTypeOK' /\ OnlyTab(o) /\ Sound(o)'
<1>1. /\ IInv /\ RecordIsTold /\ StreamTypeOK /\ Flows(o) /\ Heard(o)
      /\ Settled(o) /\ Concluded(o) /\ log' = log
  BY DEF SInv, Sound, Deliver, managerVars, events
<1> DEFINE e == Head(wire[o])
<1>2. /\ UNCHANGED <<managerVars, open, guessed>>
      /\ phase[o] = "live" /\ wire[o] # << >>
      /\ Receive(o, e.event)
      /\ lastId' = [lastId EXCEPT ![o] = e.id]
      /\ phase' = [phase EXCEPT ![o] = IF e.event.type = "done" THEN "closed" ELSE @]
      /\ wire' = [wire EXCEPT ![o] = Tail(@)]
  BY DEF Deliver
<1>3. wire'[o] = Tail(wire[o]) /\ lastId'[o] = e.id
  BY <1>1, <1>2 DEF StreamTypeOK
<1>4. Flows(o)' /\ wire'[o] \in Seq(Envelope \union Picturing)
  BY <1>1, <1>2, <1>3, FlowsDelivered
<1> HIDE DEF e
<1>5. Heard(o)' /\ applied'[o] \in Text /\ unflushed'[o] \in Text
  BY <1>1, <1>2, <1>3, HeardDelivered DEF e
<1>6. Concluded(o)' /\ shown'[o] \in States \union {Idle}
  BY <1>1, <1>2, <1>3, ConcludedDelivered DEF e
<1>7. e.id \in Nat
  BY <1>1, <1>2, NextEnvelope DEF e
<1>8. OnlyTab(o)
  BY <1>1, <1>2 DEF StreamTypeOK, OnlyTab, SameTab, Receive
<1>9. StreamTypeOK'
  <2>1. /\ wire' = [q \in Observers |-> wire'[q]]
        /\ shown' = [q \in Observers |-> shown'[q]]
        /\ applied' = [q \in Observers |-> applied'[q]]
        /\ unflushed' = [q \in Observers |-> unflushed'[q]]
    BY <1>1, <1>2 DEF StreamTypeOK, Receive
  <2>2. \A q \in Observers : /\ wire'[q] \in Seq(Envelope \union Picturing)
                           /\ shown'[q] \in States \union {Idle}
                           /\ applied'[q] \in Text
                           /\ unflushed'[q] \in Text
    BY <1>1, <1>4, <1>5, <1>6, <1>8 DEF StreamTypeOK, OnlyTab, SameTab
  <2>3. /\ phase' \in [Observers -> {"away", "retrying", "live", "closed", "settled"}]
        /\ lastId' \in [Observers -> Nat \union {None}]
    BY <1>1, <1>2, <1>7 DEF StreamTypeOK
  <2>4. QED
    BY <1>1, <1>2, <2>1, <2>2, <2>3 DEF StreamTypeOK
<1>10. Settled(o)'
  BY <1>1, <1>2 DEF StreamTypeOK, Settled
<1>11. QED
  BY <1>4, <1>5, <1>6, <1>8, <1>9, <1>10 DEF Sound

LEMMA FrameSound ==
  ASSUME SInv, IInv', Tells, NEW o \in Observers, Frame(o)
  PROVE  StreamTypeOK' /\ OnlyTab(o) /\ Sound(o)'
<1>1. /\ IInv /\ RecordIsTold /\ StreamTypeOK /\ Flows(o) /\ Heard(o)
      /\ Settled(o) /\ Concluded(o) /\ log' = log
  BY DEF SInv, Sound, Frame, managerVars, events
<1> DEFINE seen == Joined(applied[o], unflushed[o])
<1>2. /\ UNCHANGED <<managerVars, phase, wire, open, lastId, shown, guessed>>
      /\ applied' = [applied EXCEPT ![o] = seen]
      /\ unflushed' = [unflushed EXCEPT ![o] = NoText]
  BY DEF Frame, connection
<1>3. seen \in Text /\ NoText \in Text
  BY <1>1, JoinedTexts DEF StreamTypeOK
<1> HIDE DEF seen
<1>4. Joined(seen, NoText) = seen
  BY <1>3, JoinedTexts
<1>5. applied'[o] = seen /\ unflushed'[o] = NoText
  BY <1>1, <1>2 DEF StreamTypeOK
<1>6. StreamTypeOK' /\ OnlyTab(o)
  BY <1>1, <1>2, <1>3 DEF StreamTypeOK, OnlyTab, SameTab
<1>7. Flows(o)' /\ Concluded(o)'
  BY <1>1, <1>2, FlowsKept, ConcludedKept
<1>8. Heard(o)'
  BY <1>1, <1>2, <1>4, <1>5 DEF Heard, managerVars, record, events, seen
<1>9. Settled(o)'
  BY <1>1, <1>2 DEF StreamTypeOK, Settled
<1>10. QED
  BY <1>6, <1>7, <1>8, <1>9 DEF Sound

LEMMA HangUpSound ==
  ASSUME SInv, IInv', Tells, NEW o \in Observers, HangUp(o)
  PROVE  StreamTypeOK' /\ OnlyTab(o) /\ Sound(o)'
<1>1. /\ IInv /\ RecordIsTold /\ StreamTypeOK /\ Flows(o) /\ Heard(o)
      /\ Settled(o) /\ Concluded(o) /\ log' = log
  BY DEF SInv, Sound, HangUp, managerVars, events
<1>2. /\ UNCHANGED <<wire, open, lastId, shown, applied, unflushed, guessed>>
      /\ phase' = [phase EXCEPT ![o] = "retrying"] /\ phase[o] # "away"
  BY DEF HangUp, view
<1>3. StreamTypeOK' /\ OnlyTab(o)
  BY <1>1, <1>2 DEF StreamTypeOK, OnlyTab, SameTab
<1>4. Flows(o)' /\ Heard(o)' /\ Concluded(o)'
  BY <1>1, <1>2, FlowsKept, HeardKept, ConcludedKept
<1>5. Settled(o)'
  BY <1>1, <1>2 DEF StreamTypeOK, Settled
<1>6. QED
  BY <1>3, <1>4, <1>5 DEF Sound

LEMMA DropSound ==
  ASSUME SInv, IInv', Tells, NEW o \in Observers, Drop(o)
  PROVE  StreamTypeOK' /\ OnlyTab(o) /\ Sound(o)'
<1>1. /\ IInv /\ RecordIsTold /\ StreamTypeOK /\ Flows(o) /\ Heard(o)
      /\ Settled(o) /\ Concluded(o) /\ log' = log
  BY DEF SInv, Sound, Drop, managerVars, events
<1>2. /\ UNCHANGED <<lastId, shown, applied, unflushed, guessed>>
      /\ phase' = [phase EXCEPT ![o] = "retrying"] /\ phase[o] # "away"
      /\ wire' = [wire EXCEPT ![o] = << >>]
      /\ open' = [open EXCEPT ![o] = FALSE]
  BY DEF Drop, view
<1>3. StreamTypeOK' /\ OnlyTab(o) /\ wire'[o] = << >> /\ open'[o] = FALSE
  BY <1>1, <1>2 DEF StreamTypeOK, OnlyTab, SameTab
<1>4. Flows(o)' /\ Heard(o)' /\ Concluded(o)'
  BY <1>1, <1>2, <1>3, FlowsEmptied, HeardKept, ConcludedKept
<1>5. Settled(o)'
  BY <1>1, <1>2 DEF StreamTypeOK, Settled
<1>6. QED
  BY <1>3, <1>4, <1>5 DEF Sound

LEMMA SettleSound ==
  ASSUME SInv, IInv', Tells, NEW o \in Observers, Settle(o)
  PROVE  StreamTypeOK' /\ OnlyTab(o) /\ Sound(o)'
<1>1. /\ IInv /\ RecordIsTold /\ StreamTypeOK /\ Flows(o) /\ Heard(o)
      /\ Settled(o) /\ Concluded(o) /\ log' = log
  BY DEF SInv, Sound, Settle, managerVars, events
<1>2. /\ UNCHANGED <<lastId, shown, applied, unflushed, guessed>>
      /\ phase' = [phase EXCEPT ![o] = "settled"] /\ phase[o] # "away"
      /\ IsTerminal(shown[o])
      /\ wire' = [wire EXCEPT ![o] = << >>]
      /\ open' = [open EXCEPT ![o] = FALSE]
  BY DEF Settle, view
<1>3. StreamTypeOK' /\ OnlyTab(o) /\ wire'[o] = << >> /\ open'[o] = FALSE
  BY <1>1, <1>2 DEF StreamTypeOK, OnlyTab, SameTab
<1>4. Flows(o)' /\ Heard(o)' /\ Concluded(o)'
  BY <1>1, <1>2, <1>3, FlowsEmptied, HeardKept, ConcludedKept
<1>5. Settled(o)'
  BY <1>1, <1>2 DEF StreamTypeOK, Settled
<1>6. QED
  BY <1>3, <1>4, <1>5 DEF Sound

LEMMA LeaveSound ==
  ASSUME SInv, IInv', Tells, NEW o \in Observers, Leave(o)
  PROVE  StreamTypeOK' /\ OnlyTab(o) /\ Sound(o)'
<1>1. /\ IInv /\ RecordIsTold /\ StreamTypeOK /\ Flows(o) /\ Heard(o)
      /\ Settled(o) /\ Concluded(o) /\ log' = log
  BY DEF SInv, Sound, Leave, managerVars, events
<1>2. /\ UNCHANGED guessed
      /\ phase' = [phase EXCEPT ![o] = "away"]
      /\ wire' = [wire EXCEPT ![o] = << >>]
      /\ open' = [open EXCEPT ![o] = FALSE]
      /\ lastId' = [lastId EXCEPT ![o] = None]
      /\ shown' = [shown EXCEPT ![o] = Idle]
      /\ applied' = [applied EXCEPT ![o] = NoText]
      /\ unflushed' = [unflushed EXCEPT ![o] = NoText]
  BY DEF Leave
<1>3. NoText \in Text
  BY DEF NoText, Text
<1>4. StreamTypeOK' /\ OnlyTab(o)
  BY <1>1, <1>2, <1>3 DEF StreamTypeOK, OnlyTab, SameTab
<1>5. /\ wire'[o] = << >> /\ open'[o] = FALSE /\ lastId'[o] = None
      /\ unflushed'[o] = NoText /\ phase'[o] = "away"
  BY <1>1, <1>2 DEF StreamTypeOK
<1>6. Flows(o)' /\ Heard(o)' /\ Concluded(o)'
  BY <1>5, FlowsEmptied DEF Heard, Concluded
<1>7. Settled(o)'
  BY <1>1, <1>2 DEF StreamTypeOK, Settled
<1>8. QED
  BY <1>4, <1>6, <1>7 DEF Sound

LEMMA StreamStepPreserves == SInv /\ [Next]_vars => SInv'
<1> SUFFICES ASSUME SInv, [Next]_vars PROVE SInv'
  OBVIOUS
<1>1. IInv' /\ Tells /\ RecordIsTold'
  BY GenerationGoesOn
<1>2. CASE ManagerStep
  BY <1>1, <1>2, ManagerStepSound DEF SInv
<1>3. CASE Exit
  BY <1>1, <1>3, ExitSound DEF SInv
<1>4. ASSUME NEW o \in Observers, ObserverNext(o) PROVE SInv'
  <2>1. StreamTypeOK' /\ OnlyTab(o) /\ Sound(o)'
    BY <1>1, <1>4, WatchSound, ConnectSound, DeliverSound, FrameSound, HangUpSound,
       DropSound, LeaveSound, SettleSound DEF ObserverNext
  <2>2. log' = log
    BY <1>4 DEF ObserverNext, Watch, Connect, Deliver, Frame, HangUp, Drop, Leave, Settle,
                managerVars, events
  <2>3. ASSUME NEW q \in Observers PROVE Sound(q)'
    BY <1>1, <2>1, <2>2, UntouchedTab DEF OnlyTab
  <2>4. QED
    BY <1>1, <2>1, <2>3 DEF SInv
<1>5. CASE UNCHANGED vars
  <2>1. log' = log /\ \A q \in Observers : SameTab(q)
    BY <1>5 DEF vars, managerVars, events, connection, view, SameTab
  <2>2. \A q \in Observers : Sound(q)'
    BY <1>1, <2>1, UntouchedTab
  <2>3. StreamTypeOK'
    BY <1>5 DEF SInv, StreamTypeOK, vars, connection, view
  <2>4. QED
    BY <1>1, <2>2, <2>3 DEF SInv
<1>6. QED
  BY <1>2, <1>3, <1>4, <1>5 DEF Next

(* The account is what NoSilentGap asks of every tab.                      *)
LEMMA SoundMeansNoGap == SInv => NoSilentGap
<1> SUFFICES ASSUME SInv, NEW o \in Observers
             PROVE  /\ Attached(o) /\ lastId[o] # None
                           => Carries(Joined(applied[o], unflushed[o]), lastId[o])
                    /\ phase[o] = "settled" /\ ~guessed[o]
                           => /\ shown[o] = state
                              /\ Joined(applied[o], unflushed[o]) = text
  BY DEF NoSilentGap
<1>1. IInv /\ RecordIsTold /\ Heard(o) /\ Settled(o) /\ Concluded(o)
  BY DEF SInv, Sound
<1>2. lastId[o] # None => Carries(Joined(applied[o], unflushed[o]), lastId[o])
  BY <1>1, ToldCarries DEF Heard
<1>3. ASSUME phase[o] = "settled", ~guessed[o]
      PROVE  shown[o] = state /\ Joined(applied[o], unflushed[o]) = text
  <2>1. IsTerminal(shown[o])
    BY <1>1, <1>3 DEF Settled
  <2>2. shown[o] = state /\ lastId[o] # None /\ NoWordAfter(lastId[o])
    BY <1>1, <1>3, <2>1 DEF Concluded
  <2>3. QED
    BY <1>1, <2>2, ToldWhole DEF Heard, NoWordAfter
<1>4. QED
  BY <1>2, <1>3

-----------------------------------------------------------------------------
(* The inductive invariant of the generation and the tabs that watch it.   *)
THEOREM Watched == Spec => []SInv
<1>1. Init => SInv
  BY NothingYet
<1>2. SInv /\ [Next]_vars => SInv'
  BY StreamStepPreserves
<1>3. QED
  BY <1>1, <1>2, PTL DEF Spec

(* catchUp(), the SSE route and useGeneration(): across lost connections,  *)
(* replays and pictures, a tab has exactly what was emitted up to the id   *)
(* it will report, and the whole reply when it settles (INV-20).           *)
THEOREM NothingMissed == Spec => []NoSilentGap
<1>1. SInv => NoSilentGap
  BY SoundMeansNoGap
<1>2. QED
  BY <1>1, Watched, PTL

(* The generation that is watched is the generation: every theorem of the  *)
(* manager holds of it.                                                    *)
THEOREM WatchingChangesNothing == Spec => ManagerSpec
<1>1. Init => ManagerInit
  BY DEF Init
<1>2. [Next]_vars => [ManagerNext]_managerVars
  BY ManagerGoesOn
<1>3. QED
  BY <1>1, <1>2, PTL DEF Spec, ManagerSpec

=============================================================================
