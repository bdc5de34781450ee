--------------------------- MODULE Recovery_proofs ---------------------------
(***************************************************************************)
(* For any number of requests and of kills, at any point of the service or *)
(* of the recovery itself: no partial reply is lost or written twice, and  *)
(* no run is left unfinished behind an open listener.                      *)
(***************************************************************************)
EXTENDS Recovery, ConversationService_proofs, FiniteSetTheorems

States == {"live", "terminal"}

RecoveryTypeOK ==
    /\ stage \in {"serving", "down"} \union Recovering
    /\ todo \in Seq(Requests \X States)
    /\ promised \subseteq Requests
    /\ failed \subseteq Requests

(* Nobody is about before the listener opens.                              *)
AtRest ==
    stage # "serving" =>
        /\ \A c \in Callers : pc[c] \in {"idle"} \union Over
        /\ indexLine = << >>
        /\ \A r \in Requests : chain[r] = << >>

(* A checkpoint has a run, and that of a killed one is written by nobody.  *)
Begun ==
    \A r \in Requests :
        /\ checkpoint[r] # None \/ chain[r] # << >> => run[r] # "none"
        /\ run[r] = "killed" => chain[r] = << >>
        /\ stage = "serving" /\ run[r] = "killed" /\ checkpoint[r] = "live" => r \in failed

(* The list holds every checkpoint there is but for those left behind, as  *)
(* it is on disk and once.  Past "next" the reply of the first is in.      *)
Work ==
    stage \in Recovering =>
        /\ IsInjective(todo)
        /\ \A e \in Range(todo) : e[2] = checkpoint[e[1]]
        /\ \A r \in Requests \ failed : checkpoint[r] # None => <<r, checkpoint[r]>> \in Range(todo)
        /\ stage # "next" => todo # << >> /\ Head(todo)[2] = "live" /\ NeedsNothing(Now)

(* What deleteMessage sweeps away goes with the file.                      *)
SweptAway == swept => file = None

(* A partial reply that is not in yet is still to be looked at.            *)
Pending(r) ==
    \/ stage \in Recovering /\ <<r, "live">> \in Range(todo)
    \/ stage = "down" /\ checkpoint[r] = "live"
Kept ==
    \A r \in promised \ failed :
        file = None \/ Answer(r) \in MessagesIn(file) \union removed \/ Pending(r)

(* Between the write of a reply and the marking of the index there is no   *)
(* telling what the index says.                                            *)
Trusted ==
    /\ stage # "indexing" => Indexed
    /\ stage = "marked" => index.dirty

RInv ==
    /\ IInv
    /\ Content
    /\ RecoveryTypeOK
    /\ AtRest
    /\ Begun
    /\ Work
    /\ SweptAway
    /\ Kept
    /\ Trusted

-----------------------------------------------------------------------------
(* Kinds of steps.                                                         *)

LEMMA Ways ==
  ASSUME [RecoveryNext]_vars
  PROVE  \/ /\ [ServiceNext]_serviceVars /\ UNCHANGED recoveryVars
            /\ stage = "serving" \/ UNCHANGED serviceVars
         \/ Kill
         \/ Restart
         \/ Recover
BY DEF RecoveryNext, Serve, vars

(* Recovery itself has the process to itself.                              *)
LEMMA Alone ==
  ASSUME Restart \/ Recover
  PROVE  stage # "serving" /\ UNCHANGED <<lines, runs, kind, pc, copy, removed, swept>>
BY DEF Restart, Recover, DropTerminal, Skip, AppendInterrupted, MarkIndex, UpdateIndex,
   ClearCheckpoint, LeaveBehind, Listen, At, serviceVars, history

(* The checkpoint that recovery is at.                                     *)
LEMMA NowIs ==
  ASSUME RInv, todo # << >>
  PROVE  /\ Now \in Requests /\ Head(todo)[2] \in States
         /\ Head(todo) = <<Now, Head(todo)[2]>> /\ Head(todo) \in Range(todo)
<1>1. /\ todo \in Seq(Requests \X States) /\ Len(todo) \in Nat \ {0}
      /\ DOMAIN todo = 1..Len(todo) /\ Head(todo) = todo[1]
  BY LenProperties, EmptySeq, HeadTailProperties DEF RInv, RecoveryTypeOK
<1>2. 1 \in DOMAIN todo /\ todo[1] \in Requests \X States
  BY <1>1, ElementOfSeq
<1>3. QED
  BY <1>1, <1>2 DEF Now, Range

LEMMA WorkIs ==
  ASSUME RInv, stage \in Recovering, todo # << >>
  PROVE  /\ checkpoint[Now] = Head(todo)[2]
         /\ Tail(todo) \in Seq(Requests \X States) /\ IsInjective(Tail(todo))
         /\ Range(Tail(todo)) = Range(todo) \ {Head(todo)}
         /\ \A e \in Range(Tail(todo)) : e[1] # Now
         /\ \A e \in Range(todo) : e \in Requests \X States /\ e[2] = checkpoint[e[1]]
<1>1. /\ IsInjective(todo) /\ todo \in Seq(Requests \X States)
      /\ \A e \in Range(todo) : e[2] = checkpoint[e[1]]
  BY DEF RInv, RecoveryTypeOK, Work
<1>2. \A e \in Range(todo) : e \in Requests \X States
  BY <1>1, LenProperties, ElementOfSeq DEF Range
<1>3. /\ Tail(todo) \in Seq(Requests \X States) /\ IsInjective(Tail(todo))
      /\ Range(Tail(todo)) = Range(todo) \ {Head(todo)}
  BY <1>1, TailLeaves, HeadTailProperties
<1>4. checkpoint[Now] = Head(todo)[2]
  BY <1>1, NowIs
<1>5. ASSUME NEW e \in Range(Tail(todo)), e[1] = Now PROVE FALSE
  <2>1. e \in Range(todo) /\ e # Head(todo)
    BY <1>3
  <2>2. e = <<Now, checkpoint[Now]>>
    BY <1>1, <1>2, <1>5, <2>1
  <2>3. QED
    BY <1>4, <2>1, <2>2, NowIs
<1>6. QED
  BY <1>1, <1>2, <1>3, <1>4, <1>5

-----------------------------------------------------------------------------
(* The invariants of the service.                                          *)

LEMMA ServiceKeepsOrder ==
  ASSUME IInv, [ServiceNext]_serviceVars
  PROVE  IInv'
BY TypePreserved, LockPreserved, MarkedPreserved, FollowedPreserved, WritersPreserved DEF IInv

(* What is left of the callers after a kill.                               *)
LEMMA KilledIs ==
  ASSUME RInv, Kill
  PROVE  /\ line' = << >> /\ inside' = {} /\ indexLine' = << >> /\ active' = None
         /\ todo' = << >> /\ stage' = "down"
         /\ UNCHANGED <<file, index, checkpoint, kind, removed, swept, promised, failed>>
         /\ \A c \in Callers : /\ pc'[c] \in {"idle"} \union Over
                               /\ pc[c] \in {"idle"} \union Over => pc'[c] = pc[c]
                               /\ pc[c] \notin {"idle"} \union Over => pc'[c] = "lost"
         /\ \A r \in Requests : /\ chain'[r] = << >>
                                /\ run[r] # "running" => run'[r] = run[r]
                                /\ run[r] = "running" => run'[r] = "killed"
BY DEF Kill, disk, Over

LEMMA KillKeepsOrder ==
  ASSUME RInv, Kill
  PROVE  IInv'
<1> USE DEF Phases, Waiting, InsideLock, Ready, Over
<1>1. TypeOK'
  <2>1. TypeOK
    BY DEF RInv, IInv
  <2>2. line' \in Seq(Callers) /\ inside' \subseteq Callers /\ indexLine' \in Seq(Callers)
    BY KilledIs
  <2>3. run' \in [Requests -> {"none", "running", "completed", "stopped", "killed"}]
    BY <2>1 DEF Kill, TypeOK
  <2>4. chain' \in [Requests -> Seq({"live", "terminal"})]
    BY DEF Kill
  <2>5. pc' \in [Callers -> Phases]
    BY <2>1 DEF Kill, TypeOK
  <2>6. copy' \in [Callers -> Conversation \union {None}] /\ hadDefault' \subseteq Requests
    BY DEF Kill
  <2>7. skewed' \in BOOLEAN
    BY Zenon DEF Kill
  <2>8. QED
    BY <2>1, <2>2, <2>3, <2>4, <2>5, <2>6, <2>7, KilledIs DEF TypeOK
<1>2. \A c \in Callers : pc'[c] \in {"idle"} \union Over
  BY KilledIs
<1>3. HolderLeads'
  BY <1>2, KilledIs DEF HolderLeads, Holds
<1>4. MarkedLeads' /\ WritersAreCurrent'
  BY <1>2 DEF MarkedLeads, WritersAreCurrent
<1>5. Followed'
  <2>1. Followed
    BY DEF RInv, IInv
  <2>2. ASSUME NEW r \in Requests
        PROVE  /\ run'[r] = "none" <=> pc'[P(r)] = "idle"
               /\ run'[r] = "running" <=> pc'[P(r)] = "watching"
               /\ pc'[P(r)] # "idle" => pc'[R(r)] = "answered"
    BY <2>1, KilledIs, CallersAre DEF Followed
  <2>3. QED
    BY <1>2, <2>2 DEF Followed
<1>6. QED
  BY <1>1, <1>3, <1>4, <1>5 DEF IInv

LEMMA SummaryIs ==
  ASSUME RInv
  PROVE  /\ index.dirty \in BOOLEAN
         /\ index.entry \in [title : Titles, count : Nat] \union {None}
         /\ Summary(file) \in [title : Titles, count : Nat] \union {None}
BY SummaryType DEF RInv, IInv, TypeOK

LEMMA AloneKeepsOrder ==
  ASSUME RInv, Restart \/ Recover
  PROVE  IInv'
<1> USE DEF Phases, Waiting, InsideLock, Ready, Over
<1>1. UNCHANGED <<line, inside, indexLine, active, run, chain, hadDefault, kind, pc, copy>>
  BY Alone DEF lines, runs
<1>2. \A c \in Callers : pc[c] # "writing"
  BY Alone DEF RInv, AtRest
<1>3. HolderLeads' /\ MarkedLeads' /\ Followed' /\ WritersAreCurrent'
  <2>1. HolderLeads /\ MarkedLeads /\ Followed
    BY DEF RInv, IInv
  <2>2. QED
    BY <1>1, <1>2, <2>1 DEF HolderLeads, MarkedLeads, Followed, WritersAreCurrent, Holds, Runs,
       Launches, Asks
<1>4. TypeOK'
  <2>1. TypeOK
    BY DEF RInv, IInv
  <2>2. file' \in Conversation \union {None}
    <3>1. CASE AppendInterrupted
      <4>1. file \in Conversation /\ Answer(Now) \in Message
        BY <2>1, <3>1, NowIs, MessagesAre DEF AppendInterrupted, At, NeedsNothing, TypeOK
      <4>2. QED
        BY <3>1, <4>1, Append1Type DEF AppendInterrupted
    <3>2. CASE ~AppendInterrupted
      <4>1. file' = file
        BY <3>2 DEF Restart, Recover, DropTerminal, Skip, MarkIndex, UpdateIndex,
           ClearCheckpoint, LeaveBehind, Listen, serviceVars, disk
      <4>2. QED
        BY <2>1, <4>1 DEF TypeOK
    <3>3. QED
      BY <3>1, <3>2
  <2>3. /\ index'.dirty \in BOOLEAN
        /\ index'.entry \in [title : Titles, count : Nat] \union {None}
    <3>1. \/ UNCHANGED index
          \/ index' = [dirty |-> TRUE, entry |-> index.entry]
          \/ index' = [dirty |-> FALSE, entry |-> Summary(file)]
      BY DEF Restart, Recover, DropTerminal, Skip, AppendInterrupted, MarkIndex, UpdateIndex,
         ClearCheckpoint, LeaveBehind, Listen, serviceVars, disk
    <3>2. CASE UNCHANGED index
      BY <3>2, SummaryIs
    <3>3. CASE index' = [dirty |-> TRUE, entry |-> index.entry]
      BY <3>3, SummaryIs
    <3>4. CASE index' = [dirty |-> FALSE, entry |-> Summary(file)]
      BY <3>4, SummaryIs
    <3>5. QED
      BY <3>1, <3>2, <3>3, <3>4
  <2>4. checkpoint' \in [Requests -> {None, "live", "terminal"}]
    BY <2>1 DEF Restart, Recover, DropTerminal, Skip, AppendInterrupted, MarkIndex,
       UpdateIndex, ClearCheckpoint, LeaveBehind, Listen, serviceVars, disk, Clear, TypeOK
  <2>5. skewed' \in BOOLEAN
    <3>1. skewed' = skewed \/ LeaveBehind
      BY DEF Restart, Recover, DropTerminal, Skip, AppendInterrupted, MarkIndex,
         UpdateIndex, ClearCheckpoint, Listen, serviceVars, history
    <3>2. CASE LeaveBehind
      BY <3>2, Zenon DEF LeaveBehind
    <3>3. QED
      BY <2>1, <3>1, <3>2 DEF TypeOK
  <2>6. UNCHANGED <<removed, swept>>
    BY Alone
  <2>7. QED
    BY <1>1, <2>1, <2>2, <2>3, <2>4, <2>5, <2>6 DEF TypeOK
<1>5. QED
  BY <1>3, <1>4 DEF IInv

LEMMA OrderKept ==
  ASSUME RInv, [RecoveryNext]_vars
  PROVE  IInv'
BY Ways, ServiceKeepsOrder, KillKeepsOrder, AloneKeepsOrder DEF RInv

-----------------------------------------------------------------------------
(* Checkpoints and their runs.                                             *)

(* Where one request stands with its run.                                  *)
RunStands(r) ==
    /\ run[r] # "none" => run'[r] # "none"
    /\ run'[r] = "killed" <=> run[r] = "killed"
    /\ chain'[r] # << >> => chain[r] # << >> \/ run'[r] \notin {"none", "killed"}
    /\ checkpoint'[r] \in {None, checkpoint[r]} \/ chain[r] # << >>

LEMMA RunsStand ==
  ASSUME IInv, [ServiceNext]_serviceVars, NEW r \in Requests
  PROVE  RunStands(r)
<1>1. TypeOK
  BY DEF IInv
<1>2. UNCHANGED <<run, chain, checkpoint>> => RunStands(r)
  BY DEF RunStands
<1>3. ASSUME NEW q \in Requests, EndRun(q) PROVE RunStands(r)
  BY <1>1, <1>3 DEF EndRun, RunStands, TypeOK, disk
<1>4. ASSUME NEW q \in Requests, Land(q) PROVE RunStands(r)
  <2>1. /\ run' = run /\ chain' = [chain EXCEPT ![q] = Tail(@)] /\ chain[q] # << >>
        /\ checkpoint' = checkpoint \/ checkpoint' = [checkpoint EXCEPT ![q] = Head(chain[q])]
    BY <1>4 DEF Land
  <2>2. r # q => chain'[r] = chain[r] /\ checkpoint'[r] = checkpoint[r]
    BY <1>1, <2>1 DEF TypeOK
  <2>3. QED
    BY <2>1, <2>2 DEF RunStands
<1>5. ASSUME NEW q \in Requests, Arrive(q) PROVE RunStands(r)
  BY <1>2, <1>5 DEF Arrive, disk, runs
<1>6. ASSUME NEW c \in Callers, Launch(c) PROVE RunStands(r)
  <2>1. c[1] \in Requests /\ c = R(c[1]) /\ pc[c] = "launching"
    BY <1>6, CallersAre, CallerKinds DEF Launch, IInv, Followed
  <2>2. run[c[1]] = "none"
    BY <2>1 DEF IInv, Followed
  <2>3. QED
    BY <1>1, <1>6, <2>1, <2>2 DEF Launch, RunStands, TypeOK, disk
<1>7. ASSUME NEW c \in Callers, File(c) PROVE RunStands(r)
  <2>1. UNCHANGED <<run, chain>>
    BY <1>7 DEF File
  <2>2. checkpoint' = checkpoint \/ checkpoint' = [checkpoint EXCEPT ![c[1]] = None]
    BY <1>7 DEF File
  <2>3. checkpoint'[r] \in {None, checkpoint[r]}
    BY <1>1, <2>2 DEF TypeOK
  <2>4. QED
    BY <2>1, <2>3 DEF RunStands
<1>8. ASSUME NEW c \in Callers, Step(c), ~Launch(c), ~File(c) PROVE RunStands(r)
  <2>1. UNCHANGED <<run, chain, checkpoint>>
    BY <1>8 DEF Step, List, Enter, Refuse, Load, WriteAndHold, Rename, DeletePair, Tidy, Unlink,
       MarkDirty, Scan, WriteIndex, IndexFails, FileFails, Finish, Store, runs, disk
  <2>2. QED
    BY <1>2, <2>1
<1>9. CASE UNCHANGED serviceVars
  BY <1>2, <1>9 DEF serviceVars, runs, disk
<1>10. QED
  BY <1>3, <1>4, <1>5, <1>6, <1>7, <1>8, <1>9 DEF ServiceNext, Onward

(* Recovery takes checkpoints away, and writes none.                       *)
LEMMA OnlyCleared ==
  ASSUME RInv, Restart \/ Recover, NEW r \in Requests
  PROVE  checkpoint'[r] \in {None, checkpoint[r]}
<1>1. checkpoint' = checkpoint \/ checkpoint' = [checkpoint EXCEPT ![Now] = None]
  BY DEF Restart, Recover, DropTerminal, Skip, AppendInterrupted, MarkIndex, UpdateIndex,
     ClearCheckpoint, LeaveBehind, Listen, serviceVars, disk, Clear
<1>2. TypeOK
  BY DEF RInv, IInv
<1>3. QED
  BY <1>1, <1>2 DEF TypeOK

LEMMA BegunKept ==
  ASSUME RInv, [RecoveryNext]_vars
  PROVE  Begun'
<1> SUFFICES ASSUME NEW r \in Requests
             PROVE  /\ checkpoint'[r] # None \/ chain'[r] # << >> => run'[r] # "none"
                    /\ run'[r] = "killed" => chain'[r] = << >>
                    /\ /\ stage' = "serving" /\ run'[r] = "killed" /\ checkpoint'[r] = "live"
                       => r \in failed'
  BY DEF Begun
<1>1. /\ checkpoint[r] # None \/ chain[r] # << >> => run[r] # "none"
      /\ run[r] = "killed" => chain[r] = << >>
      /\ stage = "serving" /\ run[r] = "killed" /\ checkpoint[r] = "live" => r \in failed
  BY DEF RInv, Begun
<1>2. None # "live"
  BY NoneAssumption
<1>3. CASE [ServiceNext]_serviceVars /\ UNCHANGED recoveryVars
  <2>1. RunStands(r)
    BY <1>3, RunsStand DEF RInv
  <2>2. QED
    BY <1>1, <1>2, <1>3, <2>1 DEF RunStands, recoveryVars
<1>4. CASE Kill
  BY <1>1, <1>4, KilledIs
<1>5. CASE Restart \/ Recover
  <2>1. UNCHANGED <<run, chain>> /\ chain[r] = << >>
    BY <1>5, Alone DEF runs, RInv, AtRest
  <2>2. checkpoint'[r] \in {None, checkpoint[r]}
    BY <1>5, OnlyCleared
  <2>3. stage' = "serving" /\ checkpoint'[r] = "live" => r \in failed'
    <3>1. CASE ~Listen
      BY <1>5, <3>1 DEF Restart, Recover, DropTerminal, Skip, AppendInterrupted, MarkIndex,
         UpdateIndex, ClearCheckpoint, LeaveBehind, At
    <3>2. CASE Listen
      <4>1. /\ stage = "next" /\ Range(todo) = {} /\ UNCHANGED <<checkpoint, failed>>
        BY <3>2 DEF Listen, Range
      <4>2. checkpoint[r] # None => r \in failed
        BY <4>1 DEF RInv, Work, Recovering
      <4>3. QED
        BY <1>2, <4>1, <4>2
    <3>3. QED
      BY <3>1, <3>2
  <2>4. QED
    BY <1>1, <1>5, <2>1, <2>2, <2>3
<1>6. QED
  BY <1>3, <1>4, <1>5, Ways

-----------------------------------------------------------------------------
(* The list of checkpoints.                                                *)

(* The directory is listed without repetition.                             *)
LEMMA ListedOnce ==
  ASSUME RInv, Restart
  PROVE  /\ todo' \in Seq(Requests \X States) /\ IsInjective(todo')
         /\ Range(todo') = {<<r, checkpoint[r]>> : r \in Left}
<1> DEFINE n == Cardinality(Left)
<1>1. IsFiniteSet(Left) /\ n \in Nat
  BY RequestsAssumption, FS_Subset, FS_CardinalityType DEF Left
<1>2. PICK order \in [1..n -> Left] :
          /\ Range(order) = Left
          /\ todo' = [i \in DOMAIN order |-> <<order[i], checkpoint[order[i]]>>]
  BY DEF Restart
<1> HIDE DEF n
<1>3. IsInjective(order)
  <2>1. order \in Surjection(1..n, Left)
    BY <1>2 DEF Surjection, Range
  <2>2. IsFiniteSet(1..n) /\ Cardinality(1..n) = n
    <3>1. 1 \in Int /\ n \in Int
      BY <1>1
    <3>2. IsFiniteSet(1..n) /\ Cardinality(1..n) = IF 1 > n THEN 0 ELSE n - 1 + 1
      BY <3>1, FS_Interval
    <3>3. QED
      BY <1>1, <3>2
  <2>3. Cardinality(1..n) = Cardinality(Left)
    BY <2>2 DEF n
  <2>4. order \in Injection(1..n, Left)
    BY <2>1, <2>2, <2>3, FS_SurjSameCardinalityImpliesInj
  <2>5. QED
    BY <2>4 DEF Injection
<1>4. \A r \in Left : r \in Requests /\ checkpoint[r] \in States
  BY DEF Left, RInv, IInv, TypeOK, States
<1>5. todo' \in Seq(Requests \X States)
  <2>1. todo' \in [1..n -> Requests \X States]
    BY <1>2, <1>4
  <2>2. QED
    BY <1>1, <2>1, IsASeq
<1>6. IsInjective(todo')
  BY <1>2, <1>3 DEF IsInjective
<1>7. Range(todo') = {<<r, checkpoint[r]>> : r \in Left}
  BY <1>2 DEF Range
<1>8. QED
  BY <1>5, <1>6, <1>7

(* What recovery does to the list.                                         *)
LEMMA ListShrinks ==
  ASSUME RInv, Recover
  PROVE  \/ UNCHANGED <<todo, checkpoint, failed>>
         \/ /\ todo # << >> /\ todo' = Tail(todo) /\ stage \in Recovering /\ stage' = "next"
            /\ \/ Clear(Now) /\ UNCHANGED failed
               \/ failed' = failed \union {Now} /\ UNCHANGED checkpoint
<1>1. CASE Skip \/ AppendInterrupted \/ MarkIndex \/ UpdateIndex \/ Listen
  BY <1>1 DEF Skip, AppendInterrupted, MarkIndex, UpdateIndex, Listen, serviceVars, disk
<1>2. CASE DropTerminal
  BY <1>2 DEF DropTerminal, At, Recovering
<1>3. CASE ClearCheckpoint
  BY <1>3 DEF ClearCheckpoint, At, Recovering, RInv, Work
<1>4. CASE LeaveBehind
  BY <1>4 DEF LeaveBehind, At, Recovering, RInv, Work, disk
<1>5. QED
  BY <1>1, <1>2, <1>3, <1>4 DEF Recover

LEMMA RecoveryTypeKept ==
  ASSUME RInv, [RecoveryNext]_vars
  PROVE  RecoveryTypeOK'
<1>1. RecoveryTypeOK
  BY DEF RInv
<1>2. CASE UNCHANGED recoveryVars
  BY <1>1, <1>2 DEF recoveryVars, RecoveryTypeOK
<1>3. CASE Kill
  BY <1>1, <1>3, KilledIs DEF RecoveryTypeOK
<1>4. CASE Restart
  BY <1>1, <1>4, ListedOnce DEF Restart, RecoveryTypeOK, Left, Recovering
<1>5. CASE Recover
  <2>1. stage' \in {"serving", "down"} \union Recovering /\ promised' = promised
    BY <1>1, <1>5 DEF Recover, DropTerminal, Skip, AppendInterrupted, MarkIndex, UpdateIndex,
       ClearCheckpoint, LeaveBehind, Listen, Recovering, RecoveryTypeOK, At
  <2>2. todo' \in Seq(Requests \X States) /\ failed' \subseteq Requests
    BY <1>1, <1>5, ListShrinks, WorkIs, NowIs DEF RecoveryTypeOK
  <2>3. QED
    BY <1>1, <2>1, <2>2 DEF RecoveryTypeOK
<1>6. QED
  BY <1>2, <1>3, <1>4, <1>5, Ways

LEMMA AtRestKept ==
  ASSUME RInv, [RecoveryNext]_vars
  PROVE  AtRest'
<1>1. AtRest
  BY DEF RInv
<1>2. CASE stage = "serving" /\ UNCHANGED recoveryVars
  BY <1>2 DEF AtRest, recoveryVars
<1>3. CASE UNCHANGED <<serviceVars, recoveryVars>>
  BY <1>1, <1>3 DEF AtRest, serviceVars, lines, runs, recoveryVars
<1>4. CASE Kill
  BY <1>4, KilledIs DEF AtRest
<1>5. CASE Restart \/ Recover
  BY <1>1, <1>5, Alone DEF AtRest, lines, runs
<1>6. QED
  BY <1>2, <1>3, <1>4, <1>5, Ways

LEMMA WorkKept ==
  ASSUME RInv, [RecoveryNext]_vars
  PROVE  Work'
<1>1. CASE UNCHANGED recoveryVars
  <2>1. CASE stage \notin Recovering
    BY <1>1, <2>1 DEF Work, recoveryVars
  <2>2. CASE stage \in Recovering
    <3>1. UNCHANGED <<todo, stage, failed, checkpoint, file>>
      BY <1>1, <2>2, Ways
         DEF Recovering, Kill, recoveryVars, serviceVars, disk, Restart, Recover, DropTerminal,
             Skip, AppendInterrupted, MarkIndex, UpdateIndex, ClearCheckpoint, LeaveBehind,
             Listen, At
    <3>2. Work
      BY DEF RInv
    <3>3. QED
      BY <3>1, <3>2 DEF Work, NeedsNothing, Written, Now, MessagesIn
  <2>3. QED
    BY <2>1, <2>2
<1>2. CASE Kill
  BY <1>2, KilledIs DEF Work, Recovering
<1>3. CASE Restart
  <2>1. stage' = "next" /\ checkpoint' = checkpoint /\ Range(todo') = {<<r, checkpoint[r]>> : r \in Left}
    BY <1>3, ListedOnce DEF Restart, serviceVars, disk
  <2>2. QED
    BY <1>3, <2>1, ListedOnce DEF Work, Left
<1>4. CASE Recover
  <2>0. Work /\ checkpoint \in [Requests -> {None, "live", "terminal"}]
    BY DEF RInv, IInv, TypeOK
  <2>1. CASE Listen
    BY <2>1 DEF Listen, Work, Recovering
  <2>2. CASE UNCHANGED <<todo, checkpoint, failed>> /\ ~Listen
    <3>1. stage \in Recovering
      BY <1>4, <2>2 DEF Recover, DropTerminal, Skip, AppendInterrupted, MarkIndex, UpdateIndex,
         ClearCheckpoint, LeaveBehind, At, Recovering
    <3>2. stage' # "next" => todo # << >> /\ Head(todo)[2] = "live" /\ NeedsNothing(Now)'
      <4>1. CASE AppendInterrupted
        <5>1. /\ file \in Conversation /\ Answer(Now) \in Message
              /\ file' = Append1(file, Answer(Now)) /\ todo # << >> /\ Head(todo)[2] = "live"
          BY <4>1, NowIs, MessagesAre
             DEF AppendInterrupted, At, NeedsNothing, RInv, IInv, TypeOK
        <5>2. Answer(Now) \in MessagesIn(file') /\ Now' = Now
          BY <2>2, <5>1, AppendBrings DEF Now
        <5>3. QED
          BY <5>1, <5>2 DEF NeedsNothing, Written, MessagesIn
      <4>2. CASE Skip
        BY <2>2, <4>2 DEF Skip, At, NeedsNothing, Written, Now, serviceVars, disk, MessagesIn
      <4>3. CASE MarkIndex \/ UpdateIndex
        BY <2>0, <2>2, <4>3 DEF MarkIndex, UpdateIndex, At, NeedsNothing, Written, Now, Work,
           Recovering, MessagesIn
      <4>4. CASE DropTerminal \/ ClearCheckpoint \/ LeaveBehind
        BY <4>4 DEF DropTerminal, ClearCheckpoint, LeaveBehind, At
      <4>5. QED
        BY <1>4, <2>2, <4>1, <4>2, <4>3, <4>4 DEF Recover
    <3>3. QED
      BY <2>0, <2>2, <3>1, <3>2 DEF Work
  <2>3. CASE /\ todo # << >> /\ todo' = Tail(todo) /\ stage \in Recovering /\ stage' = "next"
             /\ \/ Clear(Now) /\ UNCHANGED failed
                \/ failed' = failed \union {Now} /\ UNCHANGED checkpoint
    <3>1. /\ Now \in Requests /\ IsInjective(todo')
          /\ Range(todo') = Range(todo) \ {Head(todo)} /\ Head(todo) = <<Now, checkpoint[Now]>>
          /\ \A e \in Range(todo') : e[1] # Now /\ e[1] \in Requests /\ e[2] = checkpoint[e[1]]
      BY <2>3, WorkIs, NowIs
    <3>2. \A r \in Requests : r # Now => checkpoint'[r] = checkpoint[r]
      BY <2>0, <2>3 DEF Clear
    <3>3. \A e \in Range(todo') : e[2] = checkpoint'[e[1]]
      BY <3>1, <3>2
    <3>4. ASSUME NEW r \in Requests \ failed', checkpoint'[r] # None
          PROVE  <<r, checkpoint'[r]>> \in Range(todo')
      <4>1. r # Now
        <5>1. CASE Clear(Now)
          BY <2>0, <3>1, <3>4, <5>1 DEF Clear
        <5>2. CASE failed' = failed \union {Now}
          BY <5>2
        <5>3. QED
          BY <2>3, <5>1, <5>2
      <4>2. r \notin failed /\ checkpoint'[r] = checkpoint[r]
        BY <2>3, <3>2, <4>1
      <4>3. <<r, checkpoint[r]>> \in Range(todo)
        BY <2>0, <2>3, <3>4, <4>2 DEF Work
      <4>4. QED
        BY <3>1, <4>1, <4>2, <4>3
    <3>5. QED
      BY <2>3, <3>1, <3>3, <3>4 DEF Work
  <2>4. QED
    BY <1>4, <2>1, <2>2, <2>3, ListShrinks
<1>5. QED
  BY <1>1, <1>2, <1>3, <1>4, Ways

-----------------------------------------------------------------------------
(* The file.                                                               *)

(* Outside the service it is only ever added to, by the reply that the     *)
(* recovery is at and that is not there.                                   *)
LEMMA FileGrows ==
  ASSUME RInv, Kill \/ Restart \/ Recover
  PROVE  /\ UNCHANGED <<removed, swept, kind>>
         /\ \/ UNCHANGED file
            \/ /\ AppendInterrupted /\ Now \in Requests
               /\ checkpoint[Now] # None /\ ~Written(Now)
               /\ file \in Conversation /\ file' \in Conversation
               /\ MessagesIn(file') = MessagesIn(file) \union {Answer(Now)}
               /\ IsInjective(file.messages) => IsInjective(file'.messages)
<1>1. UNCHANGED <<removed, swept, kind>>
  BY Alone, KilledIs
<1>2. CASE AppendInterrupted
  <2>1. /\ file \in Conversation /\ ~Written(Now) /\ Now \in Requests
        /\ Answer(Now) \in Message
        /\ file' = Append1(file, Answer(Now)) /\ Head(todo)[2] = "live"
        /\ stage = "next" /\ todo # << >>
    BY <1>2, NowIs, MessagesAre DEF AppendInterrupted, At, NeedsNothing, RInv, IInv, TypeOK
  <2>2. checkpoint[Now] # None
    BY <2>1, WorkIs, NoneAssumption DEF Recovering
  <2>3. file' \in Conversation
    BY <2>1, Append1Type
  <2>4. /\ MessagesIn(file') = MessagesIn(file) \union {Answer(Now)}
        /\ IsInjective(file.messages) => IsInjective(file'.messages)
    BY <2>1, AppendBrings DEF Written
  <2>5. QED
    BY <1>1, <1>2, <2>1, <2>2, <2>3, <2>4
<1>3. CASE ~AppendInterrupted
  BY <1>1, <1>3 DEF Kill, Restart, Recover, DropTerminal, Skip, MarkIndex, UpdateIndex,
     ClearCheckpoint, LeaveBehind, Listen, serviceVars, disk
<1>4. QED
  BY <1>2, <1>3

LEMMA ContentKept ==
  ASSUME RInv, [RecoveryNext]_vars
  PROVE  Content'
<1>1. IInv /\ IInv' /\ Content
  BY OrderKept DEF RInv
<1>2. CASE [ServiceNext]_serviceVars
  BY <1>1, <1>2, ContentPreserved
<1>3. CASE Kill \/ Restart \/ Recover
  <2>1. /\ \A c \in Callers : pc'[c] \in {"idle"} \union Over /\ (pc'[c] = pc[c] \/ pc'[c] = "lost")
        /\ UNCHANGED <<removed, swept, kind>>
    BY <1>3, Alone, KilledIs, FileGrows DEF RInv, AtRest
  <2>2. \A r \in Requests : run[r] \notin {"none", "running"} => run'[r] \notin {"none", "running"}
    BY <1>3, Alone, KilledIs DEF runs
  <2>3. \A c \in Callers : \A k \in SUBSET Kinds : Asks(c, k)' <=> Asks(c, k)
    BY <2>1 DEF Asks
  <2>4. MessagesIn(file) \subseteq MessagesIn(file')
    <3>1. CASE UNCHANGED file
      BY <3>1 DEF MessagesIn
    <3>2. QED
      BY <1>3, <3>1, FileGrows
  <2>5. Roles'
    BY <1>1, <2>1, <2>3 DEF Roles, Content, Over, Asks
  <2>6. QuestionFollowed'
    <3> SUFFICES ASSUME NEW r \in Requests, kind'[r] = "send", pc'[R(r)] \in Sent
                 PROVE  Question(r) \in MessagesIn(file') \union removed' \/ swept'
      BY DEF QuestionFollowed, MessagesIn
    <3>1. kind[r] = "send" /\ pc[R(r)] \in Sent
      BY <2>1, CallersAre DEF Sent
    <3>2. QED
      BY <1>1, <2>1, <2>4, <3>1 DEF Content, QuestionFollowed
  <2>7. Authored'
    <3> SUFFICES ASSUME NEW r \in Requests
                 PROVE  /\ Question(r) \in MessagesIn(file') =>
                               kind'[r] = "send" /\ pc'[R(r)] \notin Asking
                        /\ Answer(r) \in MessagesIn(file') =>
                               /\ run'[r] \notin {"none", "running"}
                               /\ pc'[P(r)] \notin {"queued", "reading", "writing"}
      BY DEF Authored, MessagesIn
    <3>1. pc'[P(r)] \notin {"queued", "reading", "writing"}
      BY <2>1, CallersAre DEF Over
    <3>2. pc[R(r)] \notin Asking => pc'[R(r)] \notin Asking
      BY <2>1, CallersAre DEF Asking
    <3>3. \/ MessagesIn(file') = MessagesIn(file)
          \/ /\ MessagesIn(file') = MessagesIn(file) \union {Answer(Now)}
             /\ run'[Now] \notin {"none", "running"}
      <4>1. CASE UNCHANGED file
        BY <4>1 DEF MessagesIn
      <4>2. CASE AppendInterrupted /\ Now \in Requests /\ checkpoint[Now] # None
        <5>1. run'[Now] = run[Now] /\ run[Now] # "none"
          BY <1>3, <4>2, Alone DEF runs, Recover, RInv, Begun
        <5>2. pc[P(Now)] # "watching" /\ run[Now] # "running"
          BY <1>1, <4>2, Alone, CallersAre
             DEF Recover, RInv, AtRest, Over, IInv, Followed
        <5>3. QED
          BY <1>3, <4>1, <4>2, <5>1, <5>2, FileGrows
      <4>3. QED
        BY <1>3, <4>1, <4>2, FileGrows
    <3>4. Question(r) # Answer(Now) /\ (Answer(r) = Answer(Now) => r = Now)
      BY DEF Question, Answer
    <3>5. QED
      BY <1>1, <2>1, <2>2, <3>1, <3>2, <3>3, <3>4 DEF Content, Authored
  <2>8. Once'
    <3>1. CASE UNCHANGED file
      BY <1>1, <3>1 DEF Content, Once
    <3>2. CASE ~UNCHANGED file
      <4>1. file \in Conversation /\ (IsInjective(file.messages) => IsInjective(file'.messages))
        BY <1>3, <3>2, FileGrows
      <4>2. QED
        BY <1>1, <4>1, MessagesOf DEF Content, Once
    <3>3. QED
      BY <3>1, <3>2
  <2>9. QED
    BY <2>5, <2>6, <2>7, <2>8 DEF Content
<1>4. QED
  BY <1>2, <1>3, Ways

LEMMA SweptAwayKept ==
  ASSUME RInv, [RecoveryNext]_vars
  PROVE  SweptAway' /\ (file = None => file' = None)
<1>1. IInv /\ SweptAway
  BY DEF RInv
<1>2. CASE [ServiceNext]_serviceVars
  <2>1. file = None => file' = None
    BY <1>1, <1>2, StaysDeleted
  <2>2. CASE UNCHANGED <<file, removed, swept>>
    BY <1>1, <2>1, <2>2 DEF SweptAway
  <2>3. ASSUME NEW c \in Callers, WriteAndHold(c) \/ Rename(c) \/ DeletePair(c) PROVE SweptAway'
    BY <1>1, <2>1, <2>3, Writing DEF SweptAway
  <2>4. ASSUME NEW c \in Callers, Unlink(c) PROVE SweptAway'
    BY <2>4 DEF Unlink, SweptAway
  <2>5. QED
    BY <1>2, <2>1, <2>2, <2>3, <2>4, FileSteps
<1>3. CASE Kill \/ Restart \/ Recover
  <2>1. swept' = swept /\ (file = None => file' = None)
    BY <1>3, FileGrows, MessagesOf
  <2>2. QED
    BY <1>1, <2>1 DEF SweptAway
<1>4. QED
  BY <1>2, <1>3, Ways

LEMMA KeptKept ==
  ASSUME RInv, [RecoveryNext]_vars
  PROVE  Kept'
<1> SUFFICES ASSUME NEW r \in promised' \ failed'
             PROVE  file' = None \/ Answer(r) \in MessagesIn(file') \union removed' \/ Pending(r)'
  BY DEF Kept, MessagesIn
<1>1. /\ r \in promised \ failed =>
             file = None \/ Answer(r) \in MessagesIn(file) \union removed \/ Pending(r)
      /\ file = None => file' = None
      /\ promised \subseteq Requests
  BY SweptAwayKept DEF RInv, Kept, RecoveryTypeOK
<1>2. CASE [ServiceNext]_serviceVars /\ UNCHANGED recoveryVars /\ stage = "serving"
  <2>1. r \in promised \ failed /\ ~Pending(r)
    BY <1>2 DEF recoveryVars, Pending, Recovering
  <2>2. \/ file' = None
        \/ MessagesIn(file) \union removed \subseteq MessagesIn(file') \union removed'
    <3>1. SweptAway'
      BY SweptAwayKept
    <3>2. QED
      BY <1>2, <3>1, NothingVanishes DEF RInv, Content, SweptAway
  <2>3. QED
    BY <1>1, <2>1, <2>2
<1>3. CASE UNCHANGED <<serviceVars, recoveryVars>>
  <2>1. Pending(r)' <=> Pending(r)
    BY <1>3 DEF Pending, serviceVars, recoveryVars, disk
  <2>2. QED
    BY <1>1, <1>3, <2>1 DEF serviceVars, recoveryVars, disk, history, MessagesIn
<1>4. CASE Kill \/ Restart \/ Recover
  <2>1. MessagesIn(file) \subseteq MessagesIn(file') /\ removed' = removed
    BY <1>4, FileGrows DEF MessagesIn
  <2>2. r \in promised \ failed /\ Pending(r) =>
            file' = None \/ Answer(r) \in MessagesIn(file') \/ Pending(r)'
    <3> SUFFICES ASSUME r \in promised \ failed, Pending(r)
                 PROVE  file' = None \/ Answer(r) \in MessagesIn(file') \/ Pending(r)'
      OBVIOUS
    <3>1. CASE Kill
      <4>1. stage' = "down" /\ checkpoint' = checkpoint
        BY <3>1, KilledIs
      <4>2. checkpoint[r] = "live"
        BY DEF Pending, RInv, Work
      <4>3. QED
        BY <4>1, <4>2 DEF Pending
    <3>2. CASE Restart
      <4>1. stage' = "next" /\ checkpoint[r] = "live" /\ r \in Left
        BY <1>1, <3>2, NoneAssumption DEF Restart, Pending, Left, Recovering
      <4>2. <<r, "live">> \in Range(todo')
        BY <3>2, <4>1, ListedOnce
      <4>3. QED
        BY <4>1, <4>2 DEF Pending, Recovering
    <3>3. CASE Recover
      <4>1. stage \in Recovering /\ <<r, "live">> \in Range(todo)
        BY <3>3 DEF Pending, Recover, DropTerminal, Skip, AppendInterrupted, MarkIndex,
           UpdateIndex, ClearCheckpoint, LeaveBehind, Listen, At
      <4>2. CASE UNCHANGED todo /\ stage' \in Recovering
        BY <4>1, <4>2 DEF Pending
      <4>3. CASE Listen
        <5>1. Range(todo) = {}
          BY <4>3 DEF Listen, Range
        <5>2. QED
          BY <4>1, <5>1
      <4>4. CASE DropTerminal \/ ClearCheckpoint \/ LeaveBehind
        <5>1. /\ todo # << >> /\ todo' = Tail(todo) /\ stage' \in Recovering
              /\ DropTerminal => Head(todo)[2] = "terminal"
              /\ LeaveBehind => Now \in failed'
              /\ ClearCheckpoint => stage = "clearing" /\ NeedsNothing(Now) /\ UNCHANGED file
          BY <4>4 DEF DropTerminal, ClearCheckpoint, LeaveBehind, At, Recovering, RInv, Work
        <5>2. Range(todo') = Range(todo) \ {Head(todo)} /\ Head(todo) = <<Now, Head(todo)[2]>>
          BY <4>1, <5>1, WorkIs, NowIs
        <5>3. CASE <<r, "live">> # Head(todo)
          BY <4>1, <5>1, <5>2, <5>3 DEF Pending
        <5>4. CASE <<r, "live">> = Head(todo)
          <6>1. Now = r /\ Head(todo)[2] = "live"
            BY <5>4 DEF Now
          <6>2. ClearCheckpoint
            BY <4>4, <5>1, <6>1
          <6>3. QED
            BY <5>1, <6>1, <6>2 DEF NeedsNothing, Written
        <5>5. QED
          BY <5>3, <5>4
      <4>5. CASE Skip \/ AppendInterrupted \/ MarkIndex \/ UpdateIndex
        BY <4>2, <4>5 DEF Skip, AppendInterrupted, MarkIndex, UpdateIndex, Recovering
      <4>6. QED
        BY <3>3, <4>3, <4>4, <4>5 DEF Recover
    <3>4. QED
      BY <1>4, <3>1, <3>2, <3>3
  <2>3. CASE r \in promised \ failed
    BY <1>1, <2>1, <2>2, <2>3
  <2>4. CASE r \notin promised \ failed
    <3>1. Restart /\ checkpoint[r] = "live" /\ r \in Left /\ stage' = "next"
      BY <1>4, <2>4, KilledIs DEF Restart, Recover, DropTerminal, Skip, AppendInterrupted,
         MarkIndex, UpdateIndex, ClearCheckpoint, LeaveBehind, Listen
    <3>2. <<r, "live">> \in Range(todo')
      BY <3>1, ListedOnce
    <3>3. QED
      BY <3>1, <3>2 DEF Pending, Recovering
  <2>5. QED
    BY <2>3, <2>4
<1>5. QED
  BY <1>2, <1>3, <1>4, Ways

-----------------------------------------------------------------------------
(* The index.                                                              *)

(* With nobody at it the index is as good as what it says.                 *)
LEMMA AtRestIndexed ==
  ASSUME \A c \in Callers : pc'[c] \in {"idle"} \union Over, indexLine' = << >>,
         skewed' \/ index'.dirty \/ index'.entry = Summary(file')
  PROVE  Indexed'
<1>1. \A c \in Callers : pc'[c] \notin {"indexing", "rebuilding", "marked", "tidying"}
  BY DEF Over
<1>2. DOMAIN indexLine' = {}
  OBVIOUS
<1>3. QueueIsWho' /\ MarkedIsDirty' /\ GapIsCurrent'
  BY <1>1, <1>2 DEF QueueIsWho, MarkedIsDirty, GapIsCurrent, IsInjective, Range, InQueue
<1>4. Told'
  BY <1>1, <1>2 DEF Told, Summary
<1>5. QED
  BY <1>3, <1>4 DEF Indexed

LEMMA TrustedKept ==
  ASSUME RInv, [RecoveryNext]_vars
  PROVE  Trusted'
<1>1. IInv /\ Roles /\ AtRest /\ Trusted
  BY DEF RInv, Content
<1>2. CASE [ServiceNext]_serviceVars /\ UNCHANGED recoveryVars /\ stage = "serving"
  BY <1>1, <1>2, IndexedPreserved DEF Trusted, recoveryVars
<1>3. CASE UNCHANGED <<serviceVars, recoveryVars>>
  <2>1. UNCHANGED <<kind, pc, copy, indexLine, index, file, skewed, stage>>
    BY <1>3 DEF serviceVars, recoveryVars, disk, lines, history
  <2>2. Indexed' <=> Indexed
    <3>1. \A c \in Callers : Lists(c)' <=> Lists(c)
      BY <2>1, ListsStands
    <3>2. \A i \in DOMAIN indexLine : indexLine[i] \in Callers
      BY <1>1, IndexLineIs
    <3>3. OnlyLists' <=> OnlyLists
      BY <2>1, <3>1, <3>2 DEF OnlyLists, Lists, Asks, IsRequest
    <3>4. \A i \in DOMAIN indexLine : LastUpdate(i)' <=> LastUpdate(i)
      BY <2>1, <3>1, <3>2 DEF LastUpdate, Lists, Asks, IsRequest
    <3>5. Owed' <=> Owed
      BY <2>1 DEF Owed, Asks
    <3>6. QED
      BY <2>1, <3>1, <3>3, <3>4, <3>5
         DEF Indexed, QueueIsWho, MarkedIsDirty, GapIsCurrent, Told, InQueue, Summary
  <2>3. QED
    BY <1>1, <2>1, <2>2 DEF Trusted
<1>4. CASE Kill
  <2>1. stage' = "down" /\ UNCHANGED <<index, file>>
    BY <1>4, KilledIs
  <2>2. skewed' \/ index.dirty \/ index.entry = Summary(file)
    <3> SUFFICES ASSUME ~skewed' PROVE index.dirty \/ index.entry = Summary(file)
      OBVIOUS
    <3>1. ~skewed /\ stage # "indexing" /\ \A c \in Callers : ~Unmarked(c)
      BY <1>4 DEF Kill
    <3>2. Indexed /\ ~Owed
      BY <1>1, <3>1 DEF Trusted, Unmarked, Owed
    <3>3. ASSUME NEW i \in DOMAIN indexLine, ~Lists(indexLine[i]) PROVE index.dirty
      <4>1. indexLine[i] \in Callers /\ indexLine[i] \in Range(indexLine)
        BY <1>1, IndexLineIs DEF Range
      <4>2. InQueue(indexLine[i])
        BY <3>2, <4>1 DEF Indexed, QueueIsWho
      <4>3. pc[indexLine[i]] = "marked"
        BY <1>1, <3>1, <3>3, <4>1, <4>2 DEF InQueue, Unmarked, Roles, Lists
      <4>4. QED
        BY <3>2, <3>3, <4>1, <4>3 DEF Indexed, MarkedIsDirty
    <3>4. QED
      BY <3>1, <3>2, <3>3 DEF Indexed, Told, OnlyLists
  <2>3. QED
    BY <1>4, <2>1, <2>2, KilledIs, AtRestIndexed DEF Trusted
<1>5. CASE Restart \/ Recover
  <2>1. /\ \A c \in Callers : pc'[c] \in {"idle"} \union Over
        /\ indexLine = << >> /\ indexLine' = << >>
        /\ \A c \in Callers : pc[c] \in {"idle"} \union Over
    BY <1>1, <1>5, Alone DEF AtRest, lines
  <2>2. stage # "indexing" => skewed \/ index.dirty \/ index.entry = Summary(file)
    <3>1. DOMAIN indexLine = {}
      BY <2>1
    <3>2. ~Owed
      BY <2>1 DEF Owed, Over
    <3>3. QED
      BY <1>1, <3>1, <3>2 DEF Trusted, Indexed, Told, OnlyLists
  <2>3. /\ stage' = "indexing" \/ skewed' \/ index'.dirty \/ index'.entry = Summary(file')
        /\ stage' = "marked" => index'.dirty
    <3>1. CASE Restart
      BY <2>2, <3>1 DEF Restart, serviceVars, disk, history
    <3>2. CASE DropTerminal
      BY <2>2, <3>2 DEF DropTerminal, At, history
    <3>3. CASE Skip
      BY <2>2, <3>3 DEF Skip, At, serviceVars, disk, history
    <3>4. CASE AppendInterrupted
      BY <3>4 DEF AppendInterrupted
    <3>5. CASE MarkIndex \/ UpdateIndex
      BY <3>5 DEF MarkIndex, UpdateIndex
    <3>6. CASE ClearCheckpoint
      BY <2>2, <3>6 DEF ClearCheckpoint, At, history
    <3>7. CASE LeaveBehind
      BY <2>2, <3>7 DEF LeaveBehind, disk
    <3>8. CASE Listen
      BY <2>2, <3>8 DEF Listen, history
    <3>9. QED
      BY <1>5, <3>1, <3>2, <3>3, <3>4, <3>5, <3>6, <3>7, <3>8 DEF Recover
  <2>4. QED
    BY <2>1, <2>3, AtRestIndexed DEF Trusted
<1>6. QED
  BY <1>2, <1>3, <1>4, <1>5, Ways

-----------------------------------------------------------------------------
LEMMA RecoveryStarts == RecoveryInit => RInv
<1> SUFFICES ASSUME RecoveryInit PROVE RInv
  OBVIOUS
<1>1. Init /\ stage = "serving" /\ todo = << >> /\ promised = {} /\ failed = {}
  BY DEF RecoveryInit
<1>2. IInv /\ Content /\ Indexed
  BY <1>1, InitEstablishes, ContentStarts, IndexedStarts
<1>3. RecoveryTypeOK /\ AtRest /\ Work /\ Kept /\ Trusted
  BY <1>1, <1>2 DEF RecoveryTypeOK, AtRest, Work, Kept, Trusted, Recovering
<1>4. Begun /\ SweptAway
  BY <1>1, NoneAssumption DEF Begun, SweptAway, Init
<1>5. QED
  BY <1>2, <1>3, <1>4 DEF RInv

(* What holds of the service and of the recovery together, whenever and    *)
(* however often the process is killed.                                    *)
THEOREM Survives == RecoverySpec => []RInv
<1>1. RecoveryInit => RInv
  BY RecoveryStarts
<1>2. RInv /\ [RecoveryNext]_vars => RInv'
  BY OrderKept, ContentKept, RecoveryTypeKept, AtRestKept, BegunKept, WorkKept, SweptAwayKept,
     KeptKept, TrustedKept DEF RInv
<1>3. QED
  BY <1>1, <1>2, PTL DEF RecoverySpec

(* A partial reply found by a recovery is in the conversation once the     *)
(* listener is open, unless a reader got rid of it or it could not be      *)
(* written (INV-21), and is never there twice (INV-07): also when the      *)
(* recovery is itself cut off, any number of times.                        *)
THEOREM RepliesSurvive == RecoverySpec => []PartialReplyKept
<1>1. RInv => PartialReplyKept
  <2> SUFFICES ASSUME RInv PROVE PartialReplyKept
    OBVIOUS
  <2>1. AnswersOnce
    BY ContentSays DEF RInv
  <2>2. stage = "serving" => \A r \in promised \ failed : ~Pending(r)
    BY DEF Pending, Recovering
  <2>3. QED
    BY <2>1, <2>2 DEF PartialReplyKept, RInv, Kept
<1>2. QED
  BY <1>1, Survives, PTL

(* Behind an open listener no killed run has a live checkpoint but those   *)
(* left for a human, and the index can be trusted (INV-21).                *)
THEOREM AllDealtWith == RecoverySpec => []NothingLeftUnfinished
<1>1. RInv => NothingLeftUnfinished
  <2> SUFFICES ASSUME RInv, stage = "serving"
               PROVE  /\ \A r \in Requests :
                             run[r] = "killed" /\ checkpoint[r] = "live" => r \in failed
                      /\ IndexFollowsTheFile
    BY DEF NothingLeftUnfinished
  <2>1. IndexFollowsTheFile
    BY IndexedSays DEF RInv, Trusted
  <2>2. QED
    BY <2>1 DEF RInv, Begun
<1>2. QED
  BY <1>1, Survives, PTL

=============================================================================
