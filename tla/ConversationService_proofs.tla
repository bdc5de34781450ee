--------------------- MODULE ConversationService_proofs ---------------------
(***************************************************************************)
(* For any number of requests of any kinds: nobody writes over a file that *)
(* has changed since it was read, the file holds what was asked and        *)
(* answered, and the index says what is in the file.                       *)
(***************************************************************************)
EXTENDS ConversationService, SequenceTheorems, TLAPS

(* Where a caller holds the lock: all the way through the index and the    *)
(* filing for a run, and only up to its write for everybody else.          *)
Holds(c) == pc[c] \in InsideLock \/ (Runs(c) /\ pc[c] \in {"indexing", "marked"})

(* The holder is known by where it is, and it is the head of the line, so  *)
(* there is only one.                                                      *)
HolderLeads ==
    /\ \A c \in Callers : c \in inside <=> Holds(c)
    /\ \A c \in inside : line # << >> /\ Head(line) = c

(* What CopyIsCurrent says, and that there is something to write over.     *)
WritersAreCurrent == \A c \in Callers : pc[c] = "writing" => copy[c] = file /\ file # None

(* A persister watches its run while that goes on, and begins only when    *)
(* the request that launched it is done.  Without this the persister that  *)
(* EndRun and Launch set going might be one that already holds the lock.   *)
Followed ==
    /\ \A r \in Requests :
           /\ run[r] = "none" <=> pc[P(r)] = "idle"
           /\ run[r] = "running" <=> pc[P(r)] = "watching"
           /\ pc[P(r)] # "idle" => pc[R(r)] = "answered"
    /\ \A c \in Callers :
           /\ pc[c] = "launching" => IsRequest(c)
           /\ pc[c] \in {"tidying", "requeued", "unlinking", "listing", "rebuilding"} => ~Runs(c)

(* Who is between the two writes of the index is the head of its queue.    *)
MarkedLeads ==
    \A c \in Callers : pc[c] = "marked" => indexLine # << >> /\ Head(indexLine) = c

IInv ==
    /\ TypeOK
    /\ HolderLeads
    /\ MarkedLeads
    /\ Followed
    /\ WritersAreCurrent

-----------------------------------------------------------------------------
(* What the changes to a conversation yield.                               *)
LEMMA MessagesInType ==
  ASSUME NEW c \in Conversation \union {None} PROVE MessagesIn(c) \subseteq Message
<1>1. CASE c = None
  BY <1>1 DEF MessagesIn
<1>2. CASE c # None
  <2>1. c.messages \in Seq(Message)
    BY <1>2 DEF Conversation
  <2>2. \A i \in DOMAIN c.messages : c.messages[i] \in Message
    BY <2>1, ElementOfSeq, LenProperties
  <2>3. QED
    BY <1>2, <2>2 DEF MessagesIn, Range
<1>3. QED
  BY <1>1, <1>2

LEMMA SummaryType ==
  ASSUME NEW c \in Conversation \union {None}
  PROVE  Summary(c) \in [title : Titles, count : Nat] \union {None}
<1>1. CASE c = None
  BY <1>1 DEF Summary
<1>2. CASE c # None
  <2>1. c.title \in Titles /\ c.messages \in Seq(Message)
    BY <1>2 DEF Conversation
  <2>2. Len(c.messages) \in Nat
    BY <2>1, LenProperties
  <2>3. QED
    BY <1>2, <2>1, <2>2 DEF Summary
<1>3. QED
  BY <1>1, <1>2

LEMMA Append1Type ==
  ASSUME NEW c \in Conversation, NEW m \in Message
  PROVE  Append1(c, m) \in Conversation
<1>1. c.messages \in Seq(Message) /\ c.title \in Titles
  BY DEF Conversation
<1>2. Append(c.messages, m) \in Seq(Message)
  BY <1>1, AppendProperties
<1>3. QED
  BY <1>1, <1>2 DEF Append1, Conversation

LEMMA SubSeqType ==
  ASSUME NEW s \in Seq(Message), NEW i \in Nat \ {0}, NEW j \in Int, j <= Len(s)
  PROVE  SubSeq(s, i, j) \in Seq(Message)
<1>1. Len(s) \in Nat /\ \A k \in 1..Len(s) : s[k] \in Message
  BY LenProperties, ElementOfSeq
<1>2. \A k \in i..j : s[k] \in Message
  BY <1>1
<1>3. QED
  BY <1>2, SubSeqProperties

LEMMA WithoutReplyType ==
  ASSUME NEW c \in Conversation PROVE WithoutReply(c) \in Conversation
<1>1. c.messages \in Seq(Message) /\ c.title \in Titles
  BY DEF Conversation
<1>2. Len(c.messages) \in Nat
  BY <1>1, LenProperties
<1>3. SubSeq(c.messages, 1, Len(c.messages) - 1) \in Seq(Message)
  BY <1>1, <1>2, SubSeqType
<1>4. QED
  BY <1>1, <1>3 DEF WithoutReply, Conversation

LEMMA WithoutPairType ==
  ASSUME NEW c \in Conversation, NEW i \in DOMAIN c.messages
  PROVE  /\ WithoutPair(c, i) \in Conversation
         /\ Range(SubSeq(c.messages, i, i + PairAt(c, i) - 1)) \subseteq Message
<1> DEFINE s == c.messages
<1>1. s \in Seq(Message) /\ c.title \in Titles
  BY DEF Conversation
<1>2. Len(s) \in Nat /\ DOMAIN s = 1..Len(s)
  BY <1>1, LenProperties
<1>3. /\ i \in Nat \ {0} /\ i <= Len(s)
      /\ PairAt(c, i) \in {1, 2}
      /\ i + PairAt(c, i) - 1 <= Len(s)
  BY <1>2 DEF PairAt
<1>4. /\ SubSeq(s, 1, i - 1) \in Seq(Message)
      /\ SubSeq(s, i + PairAt(c, i), Len(s)) \in Seq(Message)
      /\ SubSeq(s, i, i + PairAt(c, i) - 1) \in Seq(Message)
  <2>1. /\ 1 \in Nat \ {0} /\ i - 1 \in Int /\ i - 1 <= Len(s)
        /\ i + PairAt(c, i) \in Nat \ {0} /\ Len(s) \in Int /\ Len(s) <= Len(s)
        /\ i + PairAt(c, i) - 1 \in Int
    BY <1>2, <1>3
  <2>2. SubSeq(s, 1, i - 1) \in Seq(Message)
    BY <1>1, <2>1, SubSeqType
  <2>3. SubSeq(s, i + PairAt(c, i), Len(s)) \in Seq(Message)
    BY <1>1, <2>1, SubSeqType
  <2>4. SubSeq(s, i, i + PairAt(c, i) - 1) \in Seq(Message)
    BY <1>1, <1>3, <2>1, SubSeqType
  <2>5. QED
    BY <2>2, <2>3, <2>4
<1>5. SubSeq(s, 1, i - 1) \o SubSeq(s, i + PairAt(c, i), Len(s)) \in Seq(Message)
  BY <1>4, ConcatProperties
<1>6. WithoutPair(c, i) \in Conversation
  BY <1>1, <1>5 DEF WithoutPair, Conversation
<1>7. \A t \in Seq(Message) : Range(t) \subseteq Message
  BY ElementOfSeq, LenProperties DEF Range
<1>8. QED
  BY <1>4, <1>6, <1>7

LEMMA WithAnswerType ==
  ASSUME NEW c \in Conversation, NEW r \in Requests
  PROVE  WithAnswer(r, c) \in Conversation
<1>1. Answer(r) \in Message
  BY DEF Answer, Message
<1>2. Append1(c, Answer(r)) \in Conversation
  BY <1>1, Append1Type
<1>3. TitleAfter(r, c) \in Titles
  BY DEF TitleAfter, Titles, Conversation
<1>4. QED
  BY <1>2, <1>3 DEF WithAnswer, Conversation

-----------------------------------------------------------------------------
(* The lock.  Every step leaves what is asked for, and who holds the lock  *)
(* is decided by where a caller is.                                        *)

LEMMA KindsStand ==
  ASSUME UNCHANGED kind
  PROVE  \A c \in Callers : Runs(c)' <=> Runs(c)
BY DEF Runs, IsPersister, Launches, Asks, IsRequest

(* Nobody but the holder moves, and the holder stays inside.               *)
LEMMA StaysInside ==
  ASSUME IInv, UNCHANGED <<line, inside, kind>>, NEW c \in Callers, NEW phase \in Phases,
         Go(c, phase), Holds(c), Holds(c)'
  PROVE  HolderLeads'
<1>1. pc \in [Callers -> Phases]
  BY DEF IInv, TypeOK
<1>2. \A d \in Callers : Holds(d)' <=> Holds(d)
  BY <1>1, KindsStand DEF Go, Holds
<1>3. QED
  BY <1>2 DEF IInv, HolderLeads

(* A caller without the lock moves, and has none afterwards.               *)
LEMMA StaysOutside ==
  ASSUME IInv, UNCHANGED <<inside, kind>>, NEW c \in Callers, NEW phase \in Phases,
         line' = line \/ Queue(c), Go(c, phase), ~Holds(c), ~Holds(c)'
  PROVE  HolderLeads'
<1>1. pc \in [Callers -> Phases] /\ line \in Seq(Callers)
  BY DEF IInv, TypeOK
<1>2. \A d \in Callers : Holds(d)' <=> Holds(d)
  BY <1>1, KindsStand DEF Go, Holds
<1>3. line # << >> => line' # << >> /\ Head(line') = Head(line)
  <2>1. CASE line' = line
    BY <2>1
  <2>2. CASE line' = Append(line, c)
    BY <1>1, <2>2, AppendProperties, LenProperties
  <2>3. QED
    BY <2>1, <2>2 DEF Queue
<1>4. QED
  BY <1>2, <1>3 DEF IInv, HolderLeads

(* The lock is let go by whoever held it, or by nobody.                    *)
LEMMA LetsGo ==
  ASSUME IInv, UNCHANGED kind, NEW c \in Callers, NEW phase \in Phases,
         Go(c, phase), Release(c), ~Holds(c)'
  PROVE  HolderLeads'
<1>1. pc \in [Callers -> Phases]
  BY DEF IInv, TypeOK
<1>2. \A d \in Callers : d # c => (Holds(d)' <=> Holds(d))
  BY <1>1, KindsStand DEF Go, Holds
<1>3. \A d \in Callers : d \in inside' <=> Holds(d)'
  BY <1>2 DEF IInv, HolderLeads, Release
<1>4. CASE c \in inside
  <2>1. inside' = {}
    BY <1>4 DEF IInv, HolderLeads, Release, TypeOK
  <2>2. QED
    BY <1>3, <2>1 DEF HolderLeads
<1>5. CASE c \notin inside
  BY <1>3, <1>5 DEF IInv, HolderLeads, Release
<1>6. QED
  BY <1>4, <1>5

(* At most one caller is inside.                                           *)
LEMMA OneHolder ==
  ASSUME IInv, NEW c \in Callers, NEW d \in Callers, Holds(c), Holds(d)
  PROVE  c = d
BY DEF IInv, HolderLeads

(* The phase an action leads to is one of Phases, and says whether its     *)
(* caller holds the lock.                                                  *)
LEMMA Moved ==
  ASSUME IInv, NEW c \in Callers, NEW phase \in Phases, Go(c, phase)
  PROVE  pc'[c] = phase /\ \A d \in Callers : d # c => pc'[d] = pc[d]
BY DEF IInv, TypeOK, Go

LEMMA CallersAre ==
  /\ \A c \in Callers : c[1] \in Requests
  /\ \A r \in Requests : R(r) \in Callers /\ P(r) \in Callers
  /\ \A r \in Requests : IsRequest(R(r)) /\ IsPersister(P(r))
  /\ \A c \in Callers : IsRequest(c) <=> ~IsPersister(c)
BY DEF Callers, R, P, IsRequest, IsPersister

LEMMA AbandonLetsGo ==
  ASSUME IInv, UNCHANGED kind, NEW c \in Callers, Abandon(c)
  PROVE  HolderLeads'
<1>1. PICK phase \in {"finishing", "refused"} : Go(c, phase)
  BY DEF Abandon
<1>2. phase \in Phases
  BY DEF Phases, Ready, Over
<1>3. ~Holds(c)'
  BY <1>1, <1>2, Moved DEF Holds, InsideLock
<1>4. QED
  BY <1>1, <1>2, <1>3, LetsGo DEF Abandon

LEMMA LockPreserved == IInv /\ [ServiceNext]_serviceVars => HolderLeads'
<1> SUFFICES ASSUME IInv, [ServiceNext]_serviceVars PROVE HolderLeads'
  OBVIOUS
<1> USE DEF Phases, Waiting, InsideLock, Ready, Over
<1>1. ASSUME NEW r \in Requests, Arrive(r) PROVE HolderLeads'
  <2>1. R(r) \in Callers /\ IsRequest(R(r))
    BY CallersAre
  <2>2. PICK phase \in {"listing", "queued"} : Go(R(r), phase) /\ (line' = line \/ Queue(R(r)))
    BY <1>1 DEF Arrive
  <2>3. pc[R(r)] = "idle" /\ pc'[R(r)] = phase
    BY <1>1, <2>1, <2>2, Moved DEF Arrive
  <2>4. ~Holds(R(r)) /\ ~Holds(R(r))'
    BY <2>3 DEF Holds
  <2>5. UNCHANGED <<inside, kind>>
    BY <1>1 DEF Arrive
  <2>6. QED
    BY <2>1, <2>2, <2>4, <2>5, StaysOutside
<1>2. ASSUME NEW r \in Requests, EndRun(r) PROVE HolderLeads'
  <2>1. P(r) \in Callers /\ pc[P(r)] = "watching"
    BY <1>2, CallersAre DEF EndRun, IInv, Followed
  <2>2. Go(P(r), "queued") /\ Queue(P(r)) /\ UNCHANGED <<inside, kind>>
    BY <1>2 DEF EndRun
  <2>3. pc'[P(r)] = "queued"
    BY <2>1, <2>2, Moved
  <2>4. ~Holds(P(r)) /\ ~Holds(P(r))'
    BY <2>1, <2>3 DEF Holds
  <2>5. QED
    BY <2>1, <2>2, <2>4, StaysOutside
<1>3. ASSUME NEW r \in Requests, Land(r) PROVE HolderLeads'
  BY <1>3 DEF Land, lines, IInv, HolderLeads, Holds, Runs, IsPersister, Launches, Asks, IsRequest
<1>4. ASSUME NEW c \in Callers, Step(c) PROVE HolderLeads'
  <2>1. CASE List(c)
    <3>1. Go(c, "rebuilding") /\ UNCHANGED <<line, inside, kind>> /\ pc[c] = "listing"
      BY <2>1 DEF List
    <3>2. ~Holds(c) /\ ~Holds(c)'
      BY <3>1, Moved DEF Holds
    <3>3. QED
      BY <3>1, <3>2, StaysOutside
  <2>2. CASE Enter(c)
    <3>1. PICK phase \in {"refusing", "unlinking", "reading"} : Go(c, phase)
      BY <2>2 DEF Enter
    <3>2. /\ pc[c] \in {"queued", "requeued"}
          /\ inside = {} /\ line # << >> /\ Head(line) = c
          /\ inside' = {c}
          /\ UNCHANGED <<line, kind>>
      BY <2>2 DEF Enter, MayEnter
    <3>3. pc'[c] = phase /\ \A d \in Callers : d # c => pc'[d] = pc[d]
      BY <3>1, Moved
    <3>4. Holds(c)' /\ \A d \in Callers : d # c => (Holds(d)' <=> Holds(d))
      BY <3>2, <3>3, KindsStand DEF Holds
    <3>5. QED
      BY <3>2, <3>4 DEF IInv, HolderLeads
  <2>3. CASE Refuse(c)
    <3>1. Abandon(c) /\ UNCHANGED kind
      BY <2>3 DEF Refuse
    <3>2. QED
      BY <3>1, AbandonLetsGo
  <2>4. CASE Load(c)
    <3>1. Go(c, "writing") /\ UNCHANGED <<line, inside, kind>> /\ pc[c] = "reading"
      BY <2>4 DEF Load, lines
    <3>2. Holds(c) /\ Holds(c)'
      BY <3>1, Moved DEF Holds
    <3>3. QED
      BY <3>1, <3>2, StaysInside
  <2>5. CASE WriteAndHold(c)
    <3>1. /\ Go(c, "indexing") /\ UNCHANGED <<line, inside, kind>> /\ pc[c] = "writing"
          /\ Runs(c)
      BY <2>5 DEF WriteAndHold, JoinIndex, Store, Runs, Launches, Asks
    <3>2. Holds(c) /\ Holds(c)'
      BY <3>1, Moved, KindsStand DEF Holds
    <3>3. QED
      BY <3>1, <3>2, StaysInside
  <2>6. CASE Rename(c)
    <3>1. Go(c, "indexing") /\ Release(c) /\ UNCHANGED kind /\ Asks(c, {"rename"})
      BY <2>6 DEF Rename, JoinIndex, Store
    <3>2. ~Runs(c)
      BY <3>1, CallersAre DEF Asks, Runs, Launches
    <3>3. ~Holds(c)'
      BY <3>1, <3>2, Moved, KindsStand DEF Holds
    <3>4. QED
      BY <3>1, <3>3, LetsGo
  <2>7. CASE DeletePair(c)
    <3>1. Go(c, "tidying") /\ Release(c) /\ UNCHANGED kind
      BY <2>7 DEF DeletePair, Store
    <3>2. ~Holds(c)'
      BY <3>1, Moved DEF Holds
    <3>3. QED
      BY <3>1, <3>2, LetsGo
  <2>8. CASE Tidy(c)
    <3>1. PICK phase \in {"requeued", "indexing"} :
              /\ Go(c, phase)
              /\ phase = "indexing" => line' = line
              /\ line' = line \/ Queue(c)
      BY <2>8 DEF Tidy, JoinIndex
    <3>2. pc[c] = "tidying" /\ UNCHANGED <<inside, kind>>
      BY <2>8 DEF Tidy
    <3>3. ~Runs(c)
      BY <3>2 DEF IInv, Followed
    <3>4. ~Holds(c) /\ ~Holds(c)'
      BY <3>1, <3>2, <3>3, Moved, KindsStand DEF Holds
    <3>5. QED
      BY <3>1, <3>2, <3>4, StaysOutside
  <2>9. CASE Unlink(c)
    <3>1. Go(c, "indexing") /\ Release(c) /\ UNCHANGED kind /\ pc[c] = "unlinking"
      BY <2>9 DEF Unlink, JoinIndex
    <3>2. ~Runs(c)
      BY <3>1 DEF IInv, Followed
    <3>3. ~Holds(c)'
      BY <3>1, <3>2, Moved, KindsStand DEF Holds
    <3>4. QED
      BY <3>1, <3>3, LetsGo
  <2>10. CASE MarkDirty(c)
    <3>1. Go(c, "marked") /\ UNCHANGED <<line, inside, kind>> /\ pc[c] = "indexing"
      BY <2>10 DEF MarkDirty, lines
    <3>2. Holds(c)' <=> Holds(c)
      BY <3>1, Moved, KindsStand DEF Holds
    <3>3. QED
      BY <3>1, <3>2, StaysInside, StaysOutside
  <2>11. CASE Scan(c)
    <3>1. Go(c, "marked") /\ UNCHANGED <<line, inside, kind>> /\ pc[c] = "rebuilding"
      BY <2>11 DEF Scan, lines
    <3>2. ~Runs(c)
      BY <3>1 DEF IInv, Followed
    <3>3. ~Holds(c) /\ ~Holds(c)'
      BY <3>1, <3>2, Moved, KindsStand DEF Holds
    <3>4. QED
      BY <3>1, <3>3, StaysOutside
  <2>12. CASE WriteIndex(c)
    <3>1. /\ Go(c, IF Runs(c) THEN "filing" ELSE "answered")
          /\ UNCHANGED <<line, inside, kind>> /\ pc[c] = "marked"
      BY <2>12 DEF WriteIndex
    <3>2. CASE Runs(c)
      <4>1. Go(c, "filing")
        BY <3>1, <3>2
      <4>2. Holds(c) /\ Holds(c)'
        BY <3>1, <3>2, <4>1, Moved DEF Holds
      <4>3. QED
        BY <3>1, <4>1, <4>2, StaysInside
    <3>3. CASE ~Runs(c)
      <4>1. Go(c, "answered")
        BY <3>1, <3>3
      <4>2. ~Holds(c) /\ ~Holds(c)'
        BY <3>1, <3>3, <4>1, Moved DEF Holds
      <4>3. QED
        BY <3>1, <4>1, <4>2, StaysOutside
    <3>4. QED
      BY <3>2, <3>3
  <2>13. CASE IndexFails(c)
    <3>1. Abandon(c) /\ UNCHANGED kind
      BY <2>13 DEF IndexFails
    <3>2. QED
      BY <3>1, AbandonLetsGo
  <2>14. CASE File(c)
    <3>1. PICK phase \in {"finishing", "launching"} : Go(c, phase)
      BY <2>14 DEF File
    <3>2. Release(c) /\ UNCHANGED kind
      BY <2>14 DEF File
    <3>3. ~Holds(c)'
      BY <3>1, Moved DEF Holds
    <3>4. QED
      BY <3>1, <3>2, <3>3, LetsGo
  <2>15. CASE FileFails(c)
    <3>1. Abandon(c) /\ UNCHANGED kind
      BY <2>15 DEF FileFails
    <3>2. QED
      BY <3>1, AbandonLetsGo
  <2>16. CASE Launch(c)
    <3>1. /\ pc[c] = "launching" /\ IsRequest(c) /\ c[1] \in Requests /\ P(c[1]) \in Callers
          /\ c = R(c[1])
      BY <2>16, CallersAre DEF Launch, IInv, Followed, Callers, R, IsRequest
    <3>2. pc[P(c[1])] = "idle"
      BY <3>1 DEF IInv, Followed
    <3>3. /\ pc' = [pc EXCEPT ![c] = "answered", ![P(c[1])] = "watching"]
          /\ UNCHANGED <<line, inside, kind>>
      BY <2>16 DEF Launch, lines
    <3>4. \A d \in Callers : pc'[d] = IF d = P(c[1]) THEN "watching"
                                      ELSE IF d = c THEN "answered" ELSE pc[d]
      BY <3>1, <3>3 DEF IInv, TypeOK
    <3>5. ASSUME NEW d \in Callers PROVE Holds(d)' <=> Holds(d)
      <4>1. Runs(d)' <=> Runs(d)
        BY <3>3, KindsStand
      <4>2. CASE d \in {c, P(c[1])}
        <5>1. pc[d] \in {"launching", "idle"} /\ pc'[d] \in {"answered", "watching"}
          BY <3>1, <3>2, <3>4, <4>2
        <5>2. QED
          BY <5>1 DEF Holds
      <4>3. CASE d \notin {c, P(c[1])}
        BY <3>4, <4>1, <4>3 DEF Holds
      <4>4. QED
        BY <4>2, <4>3
    <3>6. QED
      BY <3>3, <3>5 DEF IInv, HolderLeads
  <2>17. CASE Finish(c)
    <3>1. Go(c, "answered") /\ UNCHANGED <<line, inside, kind>> /\ pc[c] = "finishing"
      BY <2>17 DEF Finish, lines
    <3>2. ~Holds(c) /\ ~Holds(c)'
      BY <3>1, Moved DEF Holds
    <3>3. QED
      BY <3>1, <3>2, StaysOutside
  <2>18. QED
    BY <1>4, <2>1, <2>2, <2>3, <2>4, <2>5, <2>6, <2>7, <2>8, <2>9, <2>10, <2>11,
       <2>12, <2>13, <2>14, <2>15, <2>16, <2>17 DEF Step
<1>5. CASE UNCHANGED serviceVars
  BY <1>5 DEF serviceVars, lines, IInv, HolderLeads, Holds, Runs, IsPersister, Launches,
              Asks, IsRequest
<1>6. QED
  BY <1>1, <1>2, <1>3, <1>4, <1>5 DEF ServiceNext, Onward

-----------------------------------------------------------------------------
(* Runs and their persisters.                                              *)

Deleting == {"tidying", "requeued", "unlinking", "listing", "rebuilding"}

LEMMA CallerKinds ==
  /\ \A r, q \in Requests : P(r) # R(q) /\ (P(r) = P(q) => r = q) /\ (R(r) = R(q) => r = q)
  /\ \A c \in Callers : IsRequest(c) => c = R(c[1])
  /\ \A c \in Callers : IsPersister(c) => c = P(c[1])
BY DEF Callers, R, P, IsRequest, IsPersister

(* A step of one caller that is past its beginning.                        *)
LEMMA GoesOn ==
  ASSUME IInv, UNCHANGED <<run, kind>>, NEW c \in Callers, NEW phase \in Phases, Go(c, phase),
         pc[c] \notin {"answered", "watching"},
         pc[c] = "idle" => IsRequest(c),
         phase \notin {"idle", "watching"},
         phase = "launching" => IsRequest(c),
         phase \in Deleting => ~Runs(c)
  PROVE  Followed'
<1>1. pc'[c] = phase /\ \A d \in Callers : d # c => pc'[d] = pc[d]
  BY Moved
<1>2. ASSUME NEW r \in Requests
      PROVE  /\ run'[r] = "none" <=> pc'[P(r)] = "idle"
             /\ run'[r] = "running" <=> pc'[P(r)] = "watching"
             /\ pc'[P(r)] # "idle" => pc'[R(r)] = "answered"
  <2>1. P(r) \in Callers /\ R(r) \in Callers /\ P(r) # R(r) /\ ~IsRequest(P(r))
    BY CallersAre, CallerKinds
  <2>2. /\ run[r] = "none" <=> pc[P(r)] = "idle"
        /\ run[r] = "running" <=> pc[P(r)] = "watching"
        /\ pc[P(r)] # "idle" => pc[R(r)] = "answered"
    BY DEF IInv, Followed
  <2>3. CASE c = P(r)
    BY <1>1, <2>1, <2>2, <2>3
  <2>4. CASE c # P(r)
    BY <1>1, <2>1, <2>2, <2>4
  <2>5. QED
    BY <2>3, <2>4
<1>3. ASSUME NEW d \in Callers
      PROVE  /\ pc'[d] = "launching" => IsRequest(d)
             /\ pc'[d] \in Deleting => ~Runs(d)'
  <2>1. Runs(d)' <=> Runs(d)
    BY KindsStand
  <2>2. CASE d = c
    BY <1>1, <2>1, <2>2
  <2>3. CASE d # c
    <3>1. pc'[d] = pc[d]
      BY <1>1, <2>3
    <3>2. QED
      BY <2>1, <3>1 DEF IInv, Followed, Deleting
  <2>4. QED
    BY <2>2, <2>3
<1>4. QED
  BY <1>2, <1>3 DEF Followed, IsRequest, Deleting

LEMMA FollowedPreserved == IInv /\ [ServiceNext]_serviceVars => Followed'
<1> SUFFICES ASSUME IInv, [ServiceNext]_serviceVars PROVE Followed'
  OBVIOUS
<1> USE DEF Phases, Waiting, InsideLock, Ready, Over
<1>1. ASSUME NEW r \in Requests, Arrive(r) PROVE Followed'
  <2>1. R(r) \in Callers /\ IsRequest(R(r)) /\ R(r)[1] = r
    BY CallersAre DEF R
  <2>2. /\ \/ Go(R(r), "listing") /\ kind[r] = "list"
           \/ Go(R(r), "queued")
        /\ pc[R(r)] = "idle" /\ UNCHANGED <<run, kind>>
    BY <1>1 DEF Arrive, runs
  <2>3. kind[r] = "list" => ~Runs(R(r))
    BY <2>1, CallersAre DEF Runs, Launches, Asks
  <2>4. QED
    BY <2>1, <2>2, <2>3, GoesOn DEF Deleting
<1>2. ASSUME NEW r \in Requests, EndRun(r) PROVE Followed'
  <2>1. /\ run[r] = "running" /\ Go(P(r), "queued") /\ UNCHANGED kind
        /\ \E outcome \in {"completed", "stopped"} : run' = [run EXCEPT ![r] = outcome]
    BY <1>2 DEF EndRun
  <2>2. P(r) \in Callers /\ pc[P(r)] = "watching" /\ pc[R(r)] = "answered"
    BY <2>1, CallersAre DEF IInv, Followed
  <2>3. pc'[P(r)] = "queued" /\ \A d \in Callers : d # P(r) => pc'[d] = pc[d]
    BY <2>1, <2>2, Moved
  <2>4. run'[r] \in {"completed", "stopped"} /\ \A q \in Requests : q # r => run'[q] = run[q]
    BY <2>1 DEF IInv, TypeOK
  <2>5. ASSUME NEW q \in Requests
        PROVE  /\ run'[q] = "none" <=> pc'[P(q)] = "idle"
               /\ run'[q] = "running" <=> pc'[P(q)] = "watching"
               /\ pc'[P(q)] # "idle" => pc'[R(q)] = "answered"
    <3>1. P(q) \in Callers /\ R(q) \in Callers /\ P(r) # R(q) /\ (P(r) = P(q) => r = q)
      BY CallersAre, CallerKinds
    <3>2. CASE q = r
      BY <2>2, <2>3, <2>4, <3>1, <3>2
    <3>3. CASE q # r
      BY <2>3, <2>4, <3>1, <3>3 DEF IInv, Followed
    <3>4. QED
      BY <3>2, <3>3
  <2>6. ASSUME NEW d \in Callers
        PROVE  /\ pc'[d] = "launching" => IsRequest(d)
               /\ pc'[d] \in Deleting => ~Runs(d)'
    BY <2>1, <2>2, <2>3, KindsStand DEF IInv, Followed, Deleting
  <2>7. QED
    BY <2>5, <2>6 DEF Followed, IsRequest, Deleting
<1>3. ASSUME NEW r \in Requests, Land(r) PROVE Followed'
  BY <1>3 DEF Land, IInv, Followed, Runs, IsPersister, Launches, Asks, IsRequest
<1>4. ASSUME NEW c \in Callers, Step(c) PROVE Followed'
  <2>1. CASE Launch(c)
    <3>1. /\ pc[c] = "launching" /\ IsRequest(c) /\ c[1] \in Requests /\ P(c[1]) \in Callers
          /\ c = R(c[1]) /\ P(c[1]) # c
      <4>1. pc[c] = "launching" /\ IsRequest(c)
        BY <2>1 DEF Launch, IInv, Followed
      <4>2. c[1] \in Requests /\ P(c[1]) \in Callers
        BY CallersAre
      <4>3. c = R(c[1])
        BY <4>1 DEF Callers, R, IsRequest
      <4>4. P(c[1]) # c
        BY <4>2, <4>3, CallerKinds
      <4>5. QED
        BY <4>1, <4>2, <4>3, <4>4
    <3>2. pc[P(c[1])] = "idle"
      BY <3>1 DEF IInv, Followed
    <3>3. /\ pc' = [pc EXCEPT ![c] = "answered", ![P(c[1])] = "watching"]
          /\ run' = [run EXCEPT ![c[1]] = "running"]
          /\ UNCHANGED kind
      BY <2>1 DEF Launch
    <3>4. \A d \in Callers : pc'[d] = IF d = P(c[1]) THEN "watching"
                                      ELSE IF d = c THEN "answered" ELSE pc[d]
      BY <3>1, <3>3 DEF IInv, TypeOK
    <3>5. run'[c[1]] = "running" /\ \A q \in Requests : q # c[1] => run'[q] = run[q]
      BY <3>1, <3>3 DEF IInv, TypeOK
    <3>6. ASSUME NEW q \in Requests
          PROVE  /\ run'[q] = "none" <=> pc'[P(q)] = "idle"
                 /\ run'[q] = "running" <=> pc'[P(q)] = "watching"
                 /\ pc'[P(q)] # "idle" => pc'[R(q)] = "answered"
      <4>1. /\ P(q) \in Callers /\ R(q) \in Callers /\ P(q) # c /\ P(c[1]) # R(q)
            /\ (P(q) = P(c[1]) => q = c[1]) /\ (R(q) = c => q = c[1])
        BY <3>1, CallersAre, CallerKinds
      <4>2. CASE q = c[1]
        BY <3>1, <3>4, <3>5, <4>1, <4>2
      <4>3. CASE q # c[1]
        BY <3>4, <3>5, <4>1, <4>3 DEF IInv, Followed
      <4>4. QED
        BY <4>2, <4>3
    <3>7. ASSUME NEW d \in Callers
          PROVE  /\ pc'[d] = "launching" => IsRequest(d)
                 /\ pc'[d] \in Deleting => ~Runs(d)'
      <4>1. Runs(d)' <=> Runs(d)
        BY <3>3, KindsStand
      <4>2. CASE d \in {c, P(c[1])}
        <5>1. pc'[d] \in {"answered", "watching"}
          BY <3>4, <4>2
        <5>2. QED
          BY <5>1 DEF Deleting
      <4>3. CASE d \notin {c, P(c[1])}
        <5>1. pc'[d] = pc[d]
          BY <3>4, <4>3
        <5>2. QED
          BY <4>1, <5>1 DEF IInv, Followed, Deleting
      <4>4. QED
        BY <4>2, <4>3
    <3>8. QED
      BY <3>6, <3>7 DEF Followed, IsRequest, Deleting
  <2>2. CASE ~Launch(c)
    <3>1. UNCHANGED <<run, kind>>
      BY <1>4, <2>2 DEF Step, List, Enter, Refuse, Load, WriteAndHold, Rename, DeletePair, Tidy,
         Unlink, MarkDirty, Scan, WriteIndex, IndexFails, File, FileFails, Finish, Store, runs
    <3>2. pc[c] \notin {"answered", "watching", "idle"}
      BY <1>4, <2>2 DEF Step, List, Enter, Refuse, Load, WriteAndHold, Rename, DeletePair, Tidy,
         Unlink, MarkDirty, Scan, WriteIndex, IndexFails, File, FileFails, Finish
    <3>3. PICK phase \in Phases : Go(c, phase) /\ phase \notin {"idle", "watching"}
                                /\ (phase = "launching" => IsRequest(c))
                                /\ (phase \in Deleting => ~Runs(c))
      <4>1. IsRequest(c) <=> ~IsPersister(c)
        BY CallersAre
      <4>2. CASE List(c)
        BY <4>2 DEF List, IInv, Followed, Deleting
      <4>3. CASE Enter(c)
        <5>1. CASE Launches(c) /\ active # None
          BY <4>3, <5>1 DEF Enter, Deleting
        <5>2. CASE ~(Launches(c) /\ active # None) /\ (pc[c] = "requeued" \/ Asks(c, {"deleteConversation"}))
          <6>1. ~Runs(c)
            BY <4>1, <5>2 DEF IInv, Followed, Runs, Launches, Asks
          <6>2. Go(c, "unlinking")
            BY <4>3, <5>2 DEF Enter
          <6>3. QED
            BY <6>1, <6>2
        <5>3. CASE ~(Launches(c) /\ active # None) /\ ~(pc[c] = "requeued" \/ Asks(c, {"deleteConversation"}))
          <6>1. Go(c, "reading")
            BY <4>3, <5>3 DEF Enter
          <6>2. QED
            BY <6>1 DEF Deleting
        <5>4. QED
          BY <5>1, <5>2, <5>3
      <4>4. CASE Abandon(c)
        BY <4>4 DEF Abandon, Deleting
      <4>5. CASE Load(c)
        BY <4>5 DEF Load, Deleting
      <4>6. CASE WriteAndHold(c) \/ Rename(c) \/ Unlink(c)
        BY <4>6 DEF WriteAndHold, Rename, Unlink, JoinIndex, Deleting
      <4>7. CASE DeletePair(c)
        BY <4>1, <4>7 DEF DeletePair, Deleting, Runs, Launches, Asks
      <4>8. CASE Tidy(c)
        BY <4>8 DEF Tidy, JoinIndex, IInv, Followed, Deleting
      <4>9. CASE MarkDirty(c) \/ Scan(c)
        BY <4>9 DEF MarkDirty, Scan, Deleting
      <4>10. CASE WriteIndex(c)
        BY <4>10 DEF WriteIndex, Deleting
      <4>11. CASE File(c)
        BY <4>1, <4>11 DEF File, Deleting
      <4>12. CASE Finish(c)
        BY <4>12 DEF Finish, Deleting
      <4>13. Refuse(c) \/ IndexFails(c) \/ FileFails(c) => Abandon(c)
        BY DEF Refuse, IndexFails, FileFails
      <4>14. QED
        BY <1>4, <2>2, <4>2, <4>3, <4>4, <4>5, <4>6, <4>7, <4>8, <4>9, <4>10, <4>11, <4>12,
           <4>13 DEF Step
    <3>4. QED
      BY <3>1, <3>2, <3>3, GoesOn
  <2>3. QED
    BY <2>1, <2>2
<1>5. CASE UNCHANGED serviceVars
  BY <1>5 DEF serviceVars, runs, IInv, Followed, Runs, IsPersister, Launches, Asks, IsRequest
<1>6. QED
  BY <1>1, <1>2, <1>3, <1>4, <1>5 DEF ServiceNext, Onward

-----------------------------------------------------------------------------
(* Nobody but the holder changes the file, and it does not write twice.    *)

LEMMA StillCurrent ==
  ASSUME IInv, NEW c \in Callers, NEW phase \in Phases, Go(c, phase), phase # "writing",
         \A d \in Callers : d # c => copy'[d] = copy[d],
         Holds(c) \/ file' = file
  PROVE  WritersAreCurrent'
<1> SUFFICES ASSUME NEW d \in Callers, pc'[d] = "writing"
             PROVE  copy'[d] = file' /\ file' # None
  BY DEF WritersAreCurrent
<1>1. d # c /\ pc[d] = "writing"
  BY Moved
<1>2. copy[d] = file /\ file # None /\ copy'[d] = copy[d]
  BY <1>1 DEF IInv, WritersAreCurrent
<1>3. Holds(d)
  BY <1>1 DEF Holds, InsideLock
<1>4. file' = file
  BY <1>1, <1>3, OneHolder
<1>5. QED
  BY <1>2, <1>4

LEMMA WritersPreserved == IInv /\ [ServiceNext]_serviceVars => WritersAreCurrent'
<1> SUFFICES ASSUME IInv, [ServiceNext]_serviceVars PROVE WritersAreCurrent'
  OBVIOUS
<1> USE DEF Phases, Waiting, InsideLock, Ready, Over
<1>1. ASSUME NEW r \in Requests, Arrive(r) PROVE WritersAreCurrent'
  <2>1. R(r) \in Callers /\ UNCHANGED <<file, copy>>
    BY <1>1, CallersAre DEF Arrive, disk
  <2>2. PICK phase \in {"listing", "queued"} : Go(R(r), phase)
    BY <1>1 DEF Arrive
  <2>3. QED
    BY <2>1, <2>2, StillCurrent
<1>2. ASSUME NEW r \in Requests, EndRun(r) PROVE WritersAreCurrent'
  <2>1. P(r) \in Callers /\ UNCHANGED <<file, copy>> /\ Go(P(r), "queued")
    BY <1>2, CallersAre DEF EndRun, disk
  <2>2. QED
    BY <2>1, StillCurrent
<1>3. ASSUME NEW r \in Requests, Land(r) PROVE WritersAreCurrent'
  BY <1>3 DEF Land, IInv, WritersAreCurrent
<1>4. ASSUME NEW c \in Callers, Step(c) PROVE WritersAreCurrent'
  <2>0. copy \in [Callers -> Conversation \union {None}] /\ pc \in [Callers -> Phases]
    BY DEF IInv, TypeOK
  <2>1. CASE Load(c)
    <3>1. /\ file # None /\ copy' = [copy EXCEPT ![c] = file] /\ file' = file
          /\ Go(c, "writing")
      BY <2>1 DEF Load, disk
    <3>2. copy'[c] = file /\ \A d \in Callers : d # c => copy'[d] = copy[d]
      BY <2>0, <3>1
    <3>3. \A d \in Callers : d # c => pc'[d] = pc[d]
      BY <3>1, Moved
    <3>4. QED
      BY <3>1, <3>2, <3>3 DEF IInv, WritersAreCurrent
  <2>2. CASE Launch(c)
    <3>1. /\ pc' = [pc EXCEPT ![c] = "answered", ![P(c[1])] = "watching"]
          /\ UNCHANGED <<file, copy>>
      BY <2>2 DEF Launch, disk
    <3>2. \A d \in Callers : pc'[d] \in {pc[d], "answered", "watching"}
      BY <2>0, <3>1
    <3>3. QED
      BY <3>1, <3>2 DEF IInv, WritersAreCurrent
  <2>3. CASE ~Load(c) /\ ~Launch(c)
    <3>1. PICK phase \in Phases : Go(c, phase) /\ phase # "writing"
      BY <1>4, <2>3 DEF Step, List, Enter, Refuse, WriteAndHold, Rename, DeletePair, Tidy,
         Unlink, MarkDirty, Scan, WriteIndex, IndexFails, File, FileFails, Finish, Abandon,
         JoinIndex
    <3>2. \A d \in Callers : d # c => copy'[d] = copy[d]
      BY <1>4, <2>0, <2>3 DEF Step, List, Enter, Refuse, WriteAndHold, Rename, DeletePair, Tidy,
         Unlink, MarkDirty, Scan, WriteIndex, IndexFails, File, FileFails, Finish, Abandon,
         Store
    <3>3. pc[c] \in {"writing", "unlinking"} \/ file' = file
      BY <1>4, <2>3 DEF Step, List, Enter, Refuse, WriteAndHold, Rename, DeletePair, Tidy,
         Unlink, MarkDirty, Scan, WriteIndex, IndexFails, File, FileFails, Finish, disk
    <3>4. Holds(c) \/ file' = file
      BY <3>3 DEF Holds
    <3>5. QED
      BY <3>1, <3>2, <3>4, StillCurrent
  <2>4. QED
    BY <2>1, <2>2, <2>3
<1>5. CASE UNCHANGED serviceVars
  BY <1>5 DEF serviceVars, disk, IInv, WritersAreCurrent
<1>6. QED
  BY <1>1, <1>2, <1>3, <1>4, <1>5 DEF ServiceNext, Onward

-----------------------------------------------------------------------------
(* The index queue.                                                        *)

LEMMA MarkedPreserved == IInv /\ [ServiceNext]_serviceVars => MarkedLeads'
<1> SUFFICES ASSUME IInv, [ServiceNext]_serviceVars PROVE MarkedLeads'
  OBVIOUS
<1> USE DEF Phases, Waiting, InsideLock, Ready, Over
<1>0. /\ indexLine \in Seq(Callers) /\ pc \in [Callers -> Phases]
      /\ \A c \in Callers : pc[c] = "marked" => indexLine # << >> /\ Head(indexLine) = c
  BY DEF IInv, TypeOK, MarkedLeads
<1>1. ASSUME NEW c \in Callers, indexLine' = Append(indexLine, c)
      PROVE  indexLine # << >> => indexLine' # << >> /\ Head(indexLine') = Head(indexLine)
  BY <1>0, <1>1, AppendProperties, LenProperties
<1>2. ASSUME NEW r \in Requests, Arrive(r) \/ EndRun(r) \/ Land(r) PROVE MarkedLeads'
  <2>1. UNCHANGED indexLine /\ \A d \in Callers : pc'[d] \in {pc[d], "listing", "queued"}
    BY <1>0, <1>2 DEF Arrive, EndRun, Land, Go, lines
  <2>2. QED
    BY <1>0, <2>1 DEF MarkedLeads
<1>3. ASSUME NEW c \in Callers, Step(c) PROVE MarkedLeads'
  <2>1. CASE MarkDirty(c) \/ Scan(c)
    <3>1. /\ indexLine # << >> /\ Head(indexLine) = c /\ UNCHANGED indexLine
          /\ Go(c, "marked")
      BY <2>1 DEF MarkDirty, Scan, AtIndex, lines
    <3>2. \A d \in Callers : d # c => pc'[d] = pc[d]
      BY <3>1, Moved
    <3>3. QED
      BY <1>0, <3>1, <3>2 DEF MarkedLeads
  <2>2. CASE WriteIndex(c) \/ IndexFails(c)
    <3>1. indexLine # << >> /\ Head(indexLine) = c
      BY <1>0, <2>2 DEF WriteIndex, IndexFails, AtIndex
    <3>2. PICK phase \in {"filing", "answered", "finishing", "refused"} : Go(c, phase)
      BY <2>2 DEF WriteIndex, IndexFails, Abandon
    <3>3. \A d \in Callers : pc'[d] = "marked" => d # c /\ pc[d] = "marked"
      BY <3>2, Moved
    <3>4. QED
      BY <1>0, <3>1, <3>3 DEF MarkedLeads
  <2>3. CASE Launch(c)
    <3>1. UNCHANGED indexLine /\ \A d \in Callers : pc'[d] \in {pc[d], "answered", "watching"}
      BY <1>0, <2>3 DEF Launch, lines
    <3>2. QED
      BY <1>0, <3>1 DEF MarkedLeads
  <2>4. CASE ~(MarkDirty(c) \/ Scan(c) \/ WriteIndex(c) \/ IndexFails(c) \/ Launch(c))
    <3>1. UNCHANGED indexLine \/ indexLine' = Append(indexLine, c)
      BY <1>3, <2>4 DEF Step, List, Enter, Refuse, Load, WriteAndHold, Rename, DeletePair, Tidy,
         Unlink, File, FileFails, Finish, JoinIndex, lines
    <3>2. PICK phase \in Phases : Go(c, phase) /\ phase # "marked"
      BY <1>3, <2>4 DEF Step, List, Enter, Refuse, Load, WriteAndHold, Rename, DeletePair, Tidy,
         Unlink, File, FileFails, Finish, JoinIndex, Abandon
    <3>3. \A d \in Callers : pc'[d] = "marked" => pc[d] = "marked"
      BY <3>2, Moved
    <3>4. QED
      BY <1>0, <1>1, <3>1, <3>3 DEF MarkedLeads
  <2>5. QED
    BY <2>1, <2>2, <2>3, <2>4
<1>4. CASE UNCHANGED serviceVars
  BY <1>0, <1>4 DEF serviceVars, lines, MarkedLeads
<1>5. QED
  BY <1>2, <1>3, <1>4 DEF ServiceNext, Onward

-----------------------------------------------------------------------------
(* Types.                                                                  *)

LEMMA LineType ==
  ASSUME IInv, NEW c \in Callers, line' = line \/ Queue(c) \/ Release(c)
  PROVE  line' \in Seq(Callers)
<1>1. line \in Seq(Callers)
  BY DEF IInv, TypeOK
<1>2. Append(line, c) \in Seq(Callers)
  BY <1>1, AppendProperties
<1>3. c \in inside => Tail(line) \in Seq(Callers)
  BY <1>1, HeadTailProperties DEF IInv, HolderLeads
<1>4. QED
  BY <1>1, <1>2, <1>3 DEF Queue, Release

LEMMA IndexLineType ==
  ASSUME IInv, NEW c \in Callers
  PROVE  /\ Append(indexLine, c) \in Seq(Callers)
         /\ indexLine # << >> => Tail(indexLine) \in Seq(Callers)
BY AppendProperties, HeadTailProperties DEF IInv, TypeOK

(* The part of TypeOK that is about callers, for a step of one of them.    *)
CallersOK ==
    /\ line \in Seq(Callers)
    /\ inside \subseteq Callers
    /\ pc \in [Callers -> Phases]

LEMMA CallersType ==
  ASSUME IInv, NEW c \in Callers, NEW phase \in Phases, Go(c, phase),
         line' = line \/ Queue(c) \/ Release(c),
         inside' = inside \/ Release(c)
  PROVE  CallersOK'
<1>1. line' \in Seq(Callers)
  BY LineType
<1>2. inside' \subseteq Callers
  BY DEF IInv, TypeOK, Release
<1>3. pc' \in [Callers -> Phases]
  BY DEF IInv, TypeOK, Go
<1>4. QED
  BY <1>1, <1>2, <1>3 DEF CallersOK

LEMMA MessagesAre ==
  \A r \in Requests : Question(r) \in Message /\ Answer(r) \in Message
BY DEF Question, Answer, Message

(* What a caller stores in the file is a conversation.                     *)
LEMMA StoreType ==
  ASSUME IInv, NEW c \in Callers, NEW next \in Conversation, Store(c, next)
  PROVE  /\ file' \in Conversation \union {None}
         /\ copy' \in [Callers -> Conversation \union {None}]
         /\ skewed' \in BOOLEAN
         /\ UNCHANGED <<index, checkpoint, active, run, chain, hadDefault, kind, swept>>
<1>1. /\ file' = next /\ copy' = [copy EXCEPT ![c] = next]
      /\ UNCHANGED <<index, checkpoint, active, run, chain, hadDefault, kind, swept>>
  BY DEF Store, runs
<1>2. copy' \in [Callers -> Conversation \union {None}]
  BY <1>1 DEF IInv, TypeOK
<1>3. skewed' \in BOOLEAN
  BY Zenon DEF Store
<1>4. QED
  BY <1>1, <1>2, <1>3

LEMMA AbandonType ==
  ASSUME IInv, NEW c \in Callers, Abandon(c)
  PROVE  CallersOK' /\ copy' \in [Callers -> Conversation \union {None}]
<1>1. PICK phase \in {"finishing", "refused"} : Go(c, phase)
  BY DEF Abandon
<1>2. phase \in Phases
  BY DEF Phases, Ready, Over
<1>3. CallersOK'
  BY <1>1, <1>2, CallersType DEF Abandon
<1>4. QED
  BY <1>3 DEF Abandon, IInv, TypeOK

LEMMA TypePreserved == IInv /\ [ServiceNext]_serviceVars => TypeOK'
<1> SUFFICES ASSUME IInv, [ServiceNext]_serviceVars PROVE TypeOK'
  OBVIOUS
<1> USE DEF Phases, Waiting, InsideLock, Ready, Over
<1>0. TypeOK
  BY DEF IInv
<1>1. ASSUME NEW r \in Requests, Arrive(r) PROVE TypeOK'
  <2>1. R(r) \in Callers
    BY CallersAre
  <2>2. PICK phase \in {"listing", "queued"} : Go(R(r), phase) /\ (line' = line \/ Queue(R(r)))
    BY <1>1 DEF Arrive
  <2>3. UNCHANGED <<disk, inside, indexLine, runs, kind, copy, history>>
    BY <1>1 DEF Arrive
  <2>4. CallersOK'
    BY <2>1, <2>2, <2>3, CallersType
  <2>5. QED
    BY <1>0, <2>3, <2>4 DEF TypeOK, CallersOK, disk, runs, history
<1>2. ASSUME NEW r \in Requests, EndRun(r) PROVE TypeOK'
  <2>1. P(r) \in Callers
    BY CallersAre
  <2>2. /\ Go(P(r), "queued") /\ Queue(P(r))
        /\ chain' = [chain EXCEPT ![r] = Append(@, "terminal")]
        /\ \E outcome \in {"completed", "stopped"} : run' = [run EXCEPT ![r] = outcome]
        /\ UNCHANGED <<disk, inside, indexLine, active, hadDefault, kind, copy, history>>
    BY <1>2 DEF EndRun
  <2>3. CallersOK'
    BY <2>1, <2>2, CallersType
  <2>4. Append(chain[r], "terminal") \in Seq({"live", "terminal"})
    BY <1>0, AppendProperties DEF TypeOK
  <2>5. chain' \in [Requests -> Seq({"live", "terminal"})]
    BY <1>0, <2>2, <2>4 DEF TypeOK
  <2>6. run' \in [Requests -> {"none", "running", "completed", "stopped", "killed"}]
    BY <1>0, <2>2 DEF TypeOK
  <2>7. QED
    BY <1>0, <2>2, <2>3, <2>5, <2>6 DEF TypeOK, CallersOK, disk, history
<1>3. ASSUME NEW r \in Requests, Land(r) PROVE TypeOK'
  <2>1. /\ chain[r] # << >>
        /\ checkpoint' \in {checkpoint, [checkpoint EXCEPT ![r] = Head(chain[r])]}
        /\ chain' = [chain EXCEPT ![r] = Tail(@)]
        /\ UNCHANGED <<file, index, lines, active, run, hadDefault, kind, pc, copy, history>>
    BY <1>3 DEF Land
  <2>2. Head(chain[r]) \in {"live", "terminal"} /\ Tail(chain[r]) \in Seq({"live", "terminal"})
    BY <1>0, <2>1, HeadTailProperties DEF TypeOK
  <2>3. chain' \in [Requests -> Seq({"live", "terminal"})]
    BY <1>0, <2>1, <2>2 DEF TypeOK
  <2>4. checkpoint' \in [Requests -> {None, "live", "terminal"}]
    BY <1>0, <2>1, <2>2 DEF TypeOK
  <2>5. QED
    BY <1>0, <2>1, <2>3, <2>4 DEF TypeOK, lines, history
<1>4. ASSUME NEW c \in Callers, Step(c) PROVE TypeOK'
  <2>0. c[1] \in Requests
    BY CallersAre
  <2>1. CASE List(c)
    <3>1. /\ Go(c, "rebuilding") /\ indexLine' = Append(indexLine, c)
          /\ UNCHANGED <<disk, line, inside, runs, kind, copy, history>>
      BY <2>1 DEF List
    <3>2. CallersOK' /\ indexLine' \in Seq(Callers)
      BY <3>1, CallersType, IndexLineType
    <3>3. QED
      BY <1>0, <3>1, <3>2 DEF TypeOK, CallersOK, disk, runs, history
  <2>2. CASE Enter(c)
    <3>1. PICK phase \in {"refusing", "unlinking", "reading"} : Go(c, phase)
      BY <2>2 DEF Enter
    <3>2. inside' = inside \union {c} /\ UNCHANGED <<disk, line, indexLine, runs, kind, copy, history>>
      BY <2>2 DEF Enter
    <3>3. pc' \in [Callers -> Phases]
      BY <1>0, <3>1 DEF TypeOK, Go
    <3>4. QED
      BY <1>0, <3>2, <3>3 DEF TypeOK, disk, runs, history
  <2>3. CASE Refuse(c)
    <3>1. /\ Abandon(c) /\ UNCHANGED <<disk, indexLine, runs, kind, removed, swept>>
          /\ skewed' \in BOOLEAN
      <4>1. Abandon(c) /\ UNCHANGED <<disk, indexLine, runs, kind, removed, swept>>
        BY <2>3 DEF Refuse
      <4>2. skewed' \in BOOLEAN
        BY <2>3, Zenon DEF Refuse
      <4>3. QED
        BY <4>1, <4>2
    <3>2. CallersOK' /\ copy' \in [Callers -> Conversation \union {None}]
      BY <3>1, AbandonType
    <3>3. QED
      BY <1>0, <3>1, <3>2 DEF TypeOK, CallersOK, disk, runs
  <2>4. CASE Load(c)
    <3>1. /\ copy' = [copy EXCEPT ![c] = file] /\ Go(c, "writing")
          /\ UNCHANGED <<disk, lines, runs, kind, history>>
      BY <2>4 DEF Load
    <3>2. CallersOK'
      BY <3>1, CallersType DEF lines
    <3>3. copy' \in [Callers -> Conversation \union {None}]
      BY <1>0, <3>1 DEF TypeOK
    <3>4. QED
      BY <1>0, <3>1, <3>2, <3>3 DEF TypeOK, CallersOK, disk, lines, runs, history
  <2>5. CASE pc[c] = "writing" /\ (WriteAndHold(c) \/ Rename(c) \/ DeletePair(c))
    <3>0. copy[c] \in Conversation
      BY <1>0, <2>5 DEF IInv, WritersAreCurrent, TypeOK
    <3>1. PICK next \in Conversation : Store(c, next)
      <4>1. CASE WriteAndHold(c)
        <5>1. /\ Append1(copy[c], Question(c[1])) \in Conversation
              /\ WithoutReply(copy[c]) \in Conversation
              /\ WithAnswer(c[1], copy[c]) \in Conversation
          BY <2>0, <3>0, MessagesAre, Append1Type, WithoutReplyType, WithAnswerType
        <5>2. QED
          BY <4>1, <5>1 DEF WriteAndHold
      <4>2. CASE Rename(c)
        <5>1. [copy[c] EXCEPT !.title = "renamed"] \in Conversation
          BY <3>0 DEF Conversation, Titles
        <5>2. QED
          BY <4>2, <5>1 DEF Rename
      <4>3. CASE DeletePair(c)
        BY <3>0, <4>3, WithoutPairType DEF DeletePair
      <4>4. QED
        BY <2>5, <4>1, <4>2, <4>3
    <3>2. /\ file' \in Conversation \union {None}
          /\ copy' \in [Callers -> Conversation \union {None}]
          /\ skewed' \in BOOLEAN
          /\ UNCHANGED <<index, checkpoint, active, run, chain, hadDefault, kind, swept>>
      BY <3>1, StoreType
    <3>3. removed' \subseteq Message
      <4>1. CASE WriteAndHold(c)
        <5>1. removed' = removed \/ removed' = removed \union (MessagesIn(copy[c]) \ MessagesIn(file'))
          BY <4>1 DEF WriteAndHold
        <5>2. MessagesIn(copy[c]) \subseteq Message
          BY <3>0, MessagesInType
        <5>3. QED
          BY <1>0, <5>1, <5>2 DEF TypeOK
      <4>2. CASE Rename(c)
        BY <1>0, <4>2 DEF Rename, TypeOK
      <4>3. CASE DeletePair(c)
        <5>1. PICK i \in DOMAIN copy[c].messages :
                  removed' = removed \union
                      Range(SubSeq(copy[c].messages, i, i + PairAt(copy[c], i) - 1))
          BY <4>3 DEF DeletePair
        <5>2. Range(SubSeq(copy[c].messages, i, i + PairAt(copy[c], i) - 1)) \subseteq Message
          BY <3>0, WithoutPairType
        <5>3. QED
          BY <1>0, <5>1, <5>2 DEF TypeOK
      <4>4. QED
        BY <2>5, <4>1, <4>2, <4>3
    <3>4. CallersOK' /\ indexLine' \in Seq(Callers)
      <4>1. PICK phase \in {"indexing", "tidying"} : Go(c, phase)
        BY <2>5 DEF WriteAndHold, Rename, DeletePair, JoinIndex
      <4>2. indexLine' = indexLine \/ indexLine' = Append(indexLine, c)
        BY <2>5 DEF WriteAndHold, Rename, DeletePair, JoinIndex
      <4>3. UNCHANGED <<line, inside>> \/ Release(c)
        BY <2>5 DEF WriteAndHold, Rename, DeletePair
      <4>4. CallersOK'
        BY <4>1, <4>3, CallersType
      <4>5. QED
        BY <1>0, <4>2, <4>4, IndexLineType DEF TypeOK
    <3>5. QED
      BY <1>0, <3>2, <3>3, <3>4 DEF TypeOK, CallersOK
  <2>6. CASE Tidy(c)
    <3>1. PICK phase \in {"requeued", "indexing"} :
              Go(c, phase) /\ (line' = line \/ Queue(c))
      BY <2>6 DEF Tidy, JoinIndex
    <3>2. /\ UNCHANGED <<disk, inside, runs, kind, copy, history>>
          /\ indexLine' = indexLine \/ indexLine' = Append(indexLine, c)
      BY <2>6 DEF Tidy, JoinIndex
    <3>3. CallersOK' /\ indexLine' \in Seq(Callers)
      BY <1>0, <3>1, <3>2, CallersType, IndexLineType DEF TypeOK
    <3>4. QED
      BY <1>0, <3>2, <3>3 DEF TypeOK, CallersOK, disk, runs, history
  <2>7. CASE Unlink(c)
    <3>1. /\ file' = None /\ copy' = [copy EXCEPT ![c] = None]
          /\ removed' = removed \/ removed' = removed \union MessagesIn(file)
          /\ Release(c) /\ JoinIndex(c) /\ UNCHANGED <<index, checkpoint, runs, kind>>
      BY <2>7 DEF Unlink
    <3>2. swept' \in BOOLEAN /\ skewed' \in BOOLEAN
      BY <2>7, Zenon DEF Unlink
    <3>3. CallersOK' /\ indexLine' \in Seq(Callers)
      BY <3>1, CallersType, IndexLineType DEF JoinIndex
    <3>4. copy' \in [Callers -> Conversation \union {None}]
      BY <1>0, <3>1 DEF TypeOK
    <3>5. removed' \subseteq Message
      BY <1>0, <3>1, MessagesInType DEF TypeOK
    <3>6. QED
      BY <1>0, <3>1, <3>2, <3>3, <3>4, <3>5 DEF TypeOK, CallersOK, runs
  <2>8. CASE MarkDirty(c)
    <3>1. /\ Go(c, "marked")
          /\ index' = [dirty |-> TRUE, entry |-> IF index.dirty THEN Summary(file) ELSE index.entry]
          /\ UNCHANGED <<file, checkpoint, lines, runs, kind, copy, history>>
      BY <2>8 DEF MarkDirty
    <3>2. CallersOK'
      BY <3>1, CallersType DEF lines
    <3>3. Summary(file) \in [title : Titles, count : Nat] \union {None}
      BY <1>0, SummaryType DEF TypeOK
    <3>4. QED
      BY <1>0, <3>1, <3>2, <3>3 DEF TypeOK, CallersOK, lines, runs, history
  <2>9. CASE Scan(c)
    <3>1. /\ copy' = [copy EXCEPT ![c] = file] /\ Go(c, "marked")
          /\ UNCHANGED <<disk, lines, runs, kind, history>>
      BY <2>9 DEF Scan
    <3>2. CallersOK'
      BY <3>1, CallersType DEF lines
    <3>3. copy' \in [Callers -> Conversation \union {None}]
      BY <1>0, <3>1 DEF TypeOK
    <3>4. QED
      BY <1>0, <3>1, <3>2, <3>3 DEF TypeOK, CallersOK, disk, lines, runs, history
  <2>10. CASE WriteIndex(c)
    <3>1. /\ index' = [dirty |-> FALSE, entry |-> Summary(copy[c])]
          /\ indexLine' = Tail(indexLine)
          /\ copy' = copy \/ copy' = [copy EXCEPT ![c] = None]
          /\ UNCHANGED <<file, checkpoint, line, inside, runs, kind, history>>
      BY <2>10 DEF WriteIndex
    <3>2. PICK phase \in {"filing", "answered"} : Go(c, phase)
      BY <2>10 DEF WriteIndex
    <3>3. CallersOK'
      BY <3>1, <3>2, CallersType
    <3>4. Summary(copy[c]) \in [title : Titles, count : Nat] \union {None}
      BY <1>0, SummaryType DEF TypeOK
    <3>5. copy' \in [Callers -> Conversation \union {None}]
      BY <1>0, <3>1 DEF TypeOK
    <3>6. indexLine' \in Seq(Callers)
      <4>1. indexLine # << >>
        BY <2>10 DEF WriteIndex, IInv, MarkedLeads
      <4>2. QED
        BY <3>1, <4>1, IndexLineType
    <3>7. QED
      BY <1>0, <3>1, <3>3, <3>4, <3>5, <3>6 DEF TypeOK, CallersOK, runs, history
  <2>11. CASE IndexFails(c)
    <3>1. /\ Abandon(c) /\ UNCHANGED <<disk, runs, kind, removed, swept>>
          /\ indexLine # << >> /\ indexLine' = Tail(indexLine)
      BY <2>11 DEF IndexFails, AtIndex
    <3>2. skewed' \in BOOLEAN
      BY <2>11, Zenon DEF IndexFails
    <3>3. CallersOK' /\ copy' \in [Callers -> Conversation \union {None}]
      BY <3>1, AbandonType
    <3>4. indexLine' \in Seq(Callers)
      BY <3>1, IndexLineType
    <3>5. QED
      BY <1>0, <3>1, <3>2, <3>3, <3>4 DEF TypeOK, CallersOK, disk, runs
  <2>12. CASE File(c)
    <3>1. PICK phase \in {"finishing", "launching"} : Go(c, phase)
      BY <2>12 DEF File
    <3>2. /\ Release(c) /\ copy' = [copy EXCEPT ![c] = None]
          /\ checkpoint' = checkpoint \/ checkpoint' = [checkpoint EXCEPT ![c[1]] = None]
          /\ hadDefault' = hadDefault \/ hadDefault' = hadDefault \union {c[1]}
          /\ UNCHANGED <<file, index, indexLine, active, run, chain, kind, history>>
      BY <2>12 DEF File
    <3>3. CallersOK'
      BY <3>1, <3>2, CallersType
    <3>4. copy' \in [Callers -> Conversation \union {None}]
      BY <1>0, <3>2 DEF TypeOK
    <3>5. checkpoint' \in [Requests -> {None, "live", "terminal"}] /\ hadDefault' \subseteq Requests
      BY <1>0, <2>0, <3>2 DEF TypeOK
    <3>6. QED
      BY <1>0, <3>2, <3>3, <3>4, <3>5 DEF TypeOK, CallersOK, history
  <2>13. CASE FileFails(c)
    <3>1. Abandon(c) /\ UNCHANGED <<disk, indexLine, runs, kind, history>>
      BY <2>13 DEF FileFails
    <3>2. CallersOK' /\ copy' \in [Callers -> Conversation \union {None}]
      BY <3>1, AbandonType
    <3>3. QED
      BY <1>0, <3>1, <3>2 DEF TypeOK, CallersOK, disk, runs, history
  <2>14. CASE Launch(c)
    <3>1. /\ active' = c[1]
          /\ run' = [run EXCEPT ![c[1]] = "running"]
          /\ chain' = [chain EXCEPT ![c[1]] = <<"live">>]
          /\ pc' = [pc EXCEPT ![c] = "answered", ![P(c[1])] = "watching"]
          /\ UNCHANGED <<disk, lines, hadDefault, kind, copy, history>>
      BY <2>14 DEF Launch
    <3>2. pc' \in [Callers -> Phases]
      BY <1>0, <3>1 DEF TypeOK
    <3>3. <<"live">> \in Seq({"live", "terminal"})
      OBVIOUS
    <3>4. chain' \in [Requests -> Seq({"live", "terminal"})]
      BY <1>0, <3>1, <3>3 DEF TypeOK
    <3>5. run' \in [Requests -> {"none", "running", "completed", "stopped", "killed"}]
      BY <1>0, <3>1 DEF TypeOK
    <3>6. QED
      BY <1>0, <2>0, <3>1, <3>2, <3>4, <3>5 DEF TypeOK, disk, lines, history
  <2>15. CASE Finish(c)
    <3>1. /\ Go(c, "answered") /\ active' \in {None, active}
          /\ UNCHANGED <<disk, lines, run, chain, hadDefault, kind, copy, history>>
      BY <2>15 DEF Finish
    <3>2. CallersOK'
      BY <3>1, CallersType DEF lines
    <3>3. QED
      BY <1>0, <3>1, <3>2 DEF TypeOK, CallersOK, disk, lines, history
  <2>16. WriteAndHold(c) \/ Rename(c) \/ DeletePair(c) => pc[c] = "writing"
    BY DEF WriteAndHold, Rename, DeletePair
  <2>17. QED
    BY <1>4, <2>1, <2>2, <2>3, <2>4, <2>5, <2>6, <2>7, <2>8, <2>9, <2>10, <2>11, <2>12,
       <2>13, <2>14, <2>15, <2>16 DEF Step
<1>5. CASE UNCHANGED serviceVars
  BY <1>0, <1>5 DEF serviceVars, disk, lines, runs, history, TypeOK
<1>6. QED
  BY <1>1, <1>2, <1>3, <1>4, <1>5 DEF ServiceNext, Onward

-----------------------------------------------------------------------------
LEMMA InitEstablishes == Init => IInv
<1> SUFFICES ASSUME Init PROVE IInv
  OBVIOUS
<1> USE DEF Phases, Waiting, InsideLock, Ready, Over
<1>1. \A c \in Callers : pc[c] = "idle"
  BY DEF Init
<1>2. /\ [title |-> "default", messages |-> << >>] \in Conversation
      /\ [title |-> "auto", messages |-> <<Question(Old), Answer(Old)>>] \in Conversation
  <2>1. Question(Old) \in Message /\ Answer(Old) \in Message
    BY DEF Question, Answer, Message
  <2>2. <<Question(Old), Answer(Old)>> \in Seq(Message) /\ << >> \in Seq(Message)
    BY <2>1
  <2>3. QED
    BY <2>2 DEF Conversation, Titles
<1>3. file \in Conversation \union {None}
  BY <1>2 DEF Init
<1>4. index.dirty \in BOOLEAN /\ index.entry \in [title : Titles, count : Nat] \union {None}
  BY <1>3, SummaryType DEF Init
<1>5. chain \in [Requests -> Seq({"live", "terminal"})]
  BY DEF Init
<1>6. TypeOK
  <2>1. line \in Seq(Callers) /\ indexLine \in Seq(Callers)
    BY DEF Init
  <2>2. /\ checkpoint \in [Requests -> {None, "live", "terminal"}]
        /\ run \in [Requests -> {"none", "running", "completed", "stopped", "killed"}]
        /\ kind \in [Requests -> Kinds]
        /\ pc \in [Callers -> Phases]
        /\ copy \in [Callers -> Conversation \union {None}]
    BY DEF Init
  <2>3. /\ inside \subseteq Callers /\ hadDefault \subseteq Requests /\ removed \subseteq Message
        /\ active \in Requests \union {None}
        /\ swept \in BOOLEAN /\ skewed \in BOOLEAN
    BY DEF Init
  <2>4. QED
    BY <1>3, <1>4, <1>5, <2>1, <2>2, <2>3 DEF TypeOK
<1>7. HolderLeads
  BY <1>1 DEF Init, HolderLeads, Holds
<1>8. MarkedLeads /\ WritersAreCurrent
  BY <1>1 DEF MarkedLeads, WritersAreCurrent
<1>9. Followed
  BY <1>1, CallersAre DEF Init, Followed
<1>10. QED
  BY <1>6, <1>7, <1>8, <1>9 DEF IInv

(* The invariant that carries the others: the holder of the lock is known  *)
(* by where it is and leads the line, and so for the index queue.          *)
THEOREM Orderly == Spec => []IInv
<1>1. Init => IInv
  BY InitEstablishes
<1>2. IInv /\ [ServiceNext]_serviceVars => IInv'
  BY TypePreserved, LockPreserved, MarkedPreserved, FollowedPreserved, WritersPreserved DEF IInv
<1>3. QED
  BY <1>1, <1>2, PTL DEF Spec

(* Every variable of the service keeps its type.                           *)
THEOREM TypeCorrect == Spec => []TypeOK
<1>1. IInv => TypeOK
  BY DEF IInv
<1>2. QED
  BY <1>1, Orderly, PTL

(* Whoever is about to write holds what the file still says: however many  *)
(* requests and persisters meet at the conversation, no change is lost     *)
(* between the read and the write of another (conversations.ts:198-203).   *)
THEOREM NoLostUpdate == Spec => []CopyIsCurrent
<1>1. IInv => CopyIsCurrent
  BY DEF IInv, WritersAreCurrent, CopyIsCurrent
<1>2. QED
  BY <1>1, Orderly, PTL

(* Only somebody who has just found the file replaces it.                  *)
LEMMA StaysDeleted ==
  ASSUME IInv, [ServiceNext]_serviceVars, file = None
  PROVE  file' = None
<1>1. \A c \in Callers : pc[c] # "writing"
  BY DEF IInv, WritersAreCurrent
<1>2. ASSUME NEW r \in Requests, Arrive(r) \/ EndRun(r) \/ Land(r) PROVE file' = None
  BY <1>2 DEF Arrive, EndRun, Land, disk
<1>3. ASSUME NEW c \in Callers, Step(c) PROVE file' = None
  BY <1>1, <1>3 DEF Step, List, Enter, Refuse, Load, WriteAndHold, Rename, DeletePair, Tidy,
     Unlink, MarkDirty, Scan, WriteIndex, IndexFails, File, FileFails, Launch, Finish, disk
<1>4. CASE UNCHANGED serviceVars
  BY <1>4 DEF serviceVars, disk
<1>5. QED
  BY <1>2, <1>3, <1>4 DEF ServiceNext, Onward

(* A deleted conversation does not come back, for any callers whatever.    *)
THEOREM NoResurrection == Spec => DeletedStaysDeleted
<1>1. IInv /\ [ServiceNext]_serviceVars => [file = None => file' = None]_file
  BY StaysDeleted
<1>2. QED
  BY <1>1, Orderly, PTL DEF Spec, DeletedStaysDeleted

(* Once renamed by a reader, a conversation keeps the name through every   *)
(* interleaving of sends, replies, edits and deletions: the automatic      *)
(* title is decided on a copy that is still what the file says.            *)
THEOREM RenameStands == Spec => RenameIsFinal
<1>1. IInv /\ [ServiceNext]_serviceVars
         => [file # None /\ file' # None /\ file.title = "renamed" => file'.title = "renamed"]_file
  <2> SUFFICES ASSUME IInv, [ServiceNext]_serviceVars, file # None, file' # None,
                      file.title = "renamed"
               PROVE  file'.title = "renamed" \/ UNCHANGED file
    OBVIOUS
  <2>1. ASSUME NEW c \in Callers, WriteAndHold(c) \/ Rename(c) \/ DeletePair(c)
        PROVE  file'.title = "renamed"
    <3>1. pc[c] = "writing" /\ copy[c] = file /\ file \in Conversation
      BY <2>1 DEF WriteAndHold, Rename, DeletePair, IInv, WritersAreCurrent, TypeOK
    <3>2. \A m : Append1(file, m).title = "renamed"
      BY <3>1 DEF Append1, Conversation
    <3>3. \A r : WithAnswer(r, file).title = "renamed"
      <4>1. \A r : TitleAfter(r, file) = "renamed"
        BY DEF TitleAfter
      <4>2. \A r : WithAnswer(r, file).title = TitleAfter(r, file)
        BY <3>1 DEF WithAnswer, Append1, Conversation
      <4>3. QED
        BY <4>1, <4>2
    <3>4. WithoutReply(file).title = "renamed"
      BY <3>1 DEF WithoutReply, Conversation
    <3>5. \A i : WithoutPair(file, i).title = "renamed"
      BY <3>1 DEF WithoutPair, Conversation
    <3>6. [file EXCEPT !.title = "renamed"].title = "renamed"
      BY <3>1 DEF Conversation
    <3>7. CASE WriteAndHold(c)
      BY <3>1, <3>2, <3>3, <3>4, <3>7 DEF WriteAndHold, Store
    <3>8. CASE Rename(c)
      BY <3>1, <3>6, <3>8 DEF Rename, Store
    <3>9. CASE DeletePair(c)
      BY <3>1, <3>5, <3>9 DEF DeletePair, Store
    <3>10. QED
      BY <2>1, <3>7, <3>8, <3>9
  <2>2. ASSUME NEW r \in Requests, Arrive(r) \/ EndRun(r) \/ Land(r) PROVE UNCHANGED file
    BY <2>2 DEF Arrive, EndRun, Land, disk
  <2>3. ASSUME NEW c \in Callers, Step(c), ~(WriteAndHold(c) \/ Rename(c) \/ DeletePair(c))
        PROVE  UNCHANGED file
    BY <2>3 DEF Step, List, Enter, Refuse, Load, Tidy, Unlink, MarkDirty, Scan, WriteIndex,
       IndexFails, File, FileFails, Launch, Finish, disk
  <2>4. CASE UNCHANGED serviceVars
    BY <2>4 DEF serviceVars, disk
  <2>5. QED
    BY <2>1, <2>2, <2>3, <2>4 DEF ServiceNext, Onward
<1>2. QED
  BY <1>1, Orderly, PTL DEF Spec, RenameIsFinal

-----------------------------------------------------------------------------
(* Sequences without repetition.                                           *)

LEMMA AppendFresh ==
  ASSUME NEW S, NEW s \in Seq(S), NEW e \in S
  PROVE  /\ Range(Append(s, e)) = Range(s) \union {e}
         /\ IsInjective(s) /\ e \notin Range(s) => IsInjective(Append(s, e))
<1> DEFINE t == Append(s, e)
<1>1. /\ Len(s) \in Nat /\ DOMAIN s = 1..Len(s)
      /\ t \in Seq(S) /\ Len(t) = Len(s) + 1
      /\ \A i \in 1..Len(s) : t[i] = s[i]
      /\ t[Len(s) + 1] = e
  BY LenProperties, AppendProperties
<1>2. DOMAIN t = 1..(Len(s) + 1)
  BY <1>1, LenProperties
<1> HIDE DEF t
<1>3. \A i \in DOMAIN t : i \in DOMAIN s \/ i = Len(s) + 1
  BY <1>1, <1>2
<1>4. Range(t) = Range(s) \union {e}
  BY <1>1, <1>2, <1>3 DEF Range
<1>5. IsInjective(s) /\ e \notin Range(s) => IsInjective(t)
  BY <1>1, <1>2, <1>3 DEF IsInjective, Range
<1>6. QED
  BY <1>4, <1>5 DEF t

LEMMA TailLeaves ==
  ASSUME NEW S, NEW s \in Seq(S), s # << >>, IsInjective(s)
  PROVE  IsInjective(Tail(s)) /\ Range(Tail(s)) = Range(s) \ {Head(s)}
<1> DEFINE t == Tail(s)
<1>1. /\ Len(s) \in Nat \ {0} /\ DOMAIN s = 1..Len(s) /\ Head(s) = s[1]
      /\ t \in Seq(S) /\ Len(t) = Len(s) - 1
      /\ \A i \in 1..Len(t) : t[i] = s[i + 1]
  BY LenProperties, EmptySeq, HeadTailProperties
<1>2. DOMAIN t = 1..(Len(s) - 1)
  BY <1>1, LenProperties
<1> HIDE DEF t
<1>3. \A i \in DOMAIN t : i + 1 \in DOMAIN s /\ i + 1 # 1 /\ t[i] = s[i + 1]
  BY <1>1, <1>2
<1>4. \A i \in DOMAIN s : i = 1 \/ (i - 1 \in DOMAIN t /\ t[i - 1] = s[i])
  BY <1>1, <1>2
<1>5. IsInjective(t)
  <2> SUFFICES ASSUME NEW i \in DOMAIN t, NEW j \in DOMAIN t, t[i] = t[j] PROVE i = j
    BY DEF IsInjective
  <2>1. i + 1 = j + 1
    BY <1>3 DEF IsInjective
  <2>2. QED
    BY <1>1, <1>2, <2>1
<1>6. Range(t) = Range(s) \ {Head(s)}
  <2>1. 1 \in DOMAIN s
    BY <1>1
  <2>2. \A i \in DOMAIN t : t[i] \in Range(s) \ {s[1]}
    BY <1>3, <2>1 DEF Range, IsInjective
  <2>3. \A i \in DOMAIN s : s[i] # s[1] => s[i] \in Range(t)
    BY <1>4 DEF Range
  <2>4. QED
    BY <1>1, <2>2, <2>3 DEF Range
<1>7. QED
  BY <1>5, <1>6 DEF t

(* Cutting a piece out of a sequence loses that piece and nothing else.    *)
LEMMA CutOut ==
  ASSUME NEW S, NEW s \in Seq(S), NEW i \in Nat \ {0}, NEW n \in Nat, i + n - 1 <= Len(s)
  PROVE  LET t == SubSeq(s, 1, i - 1) \o SubSeq(s, i + n, Len(s))
         IN /\ Range(t) \subseteq Range(s)
            /\ Range(s) \subseteq Range(t) \union Range(SubSeq(s, i, i + n - 1))
            /\ IsInjective(s) => IsInjective(t)
<1> DEFINE head == SubSeq(s, 1, i - 1)
           tail == SubSeq(s, i + n, Len(s))
           piece == SubSeq(s, i, i + n - 1)
           t == head \o tail
<1>1. Len(s) \in Nat /\ DOMAIN s = 1..Len(s) /\ \A k \in 1..Len(s) : s[k] \in S
  BY LenProperties, ElementOfSeq
<1>2. /\ head \in Seq(S) /\ Len(head) = i - 1
      /\ \A k \in 1..(i - 1) : head[k] = s[k]
  <2>1. 1 \in Int /\ i - 1 \in Int /\ \A k \in 1..(i - 1) : s[k] \in S
    BY <1>1
  <2>2. /\ head \in Seq(S) /\ Len(head) = IF 1 <= i - 1 THEN (i - 1) - 1 + 1 ELSE 0
        /\ \A k \in 1..((i - 1) - 1 + 1) : head[k] = s[1 + k - 1]
    BY <2>1, SubSeqProperties
  <2> HIDE DEF head
  <2>3. QED
    BY <2>2
<1>3. /\ tail \in Seq(S) /\ Len(tail) = Len(s) - (i + n) + 1
      /\ \A k \in 1..(Len(s) - (i + n) + 1) : tail[k] = s[i + n + k - 1]
  <2>1. i + n \in Int /\ Len(s) \in Int /\ \A k \in (i + n)..Len(s) : s[k] \in S
    BY <1>1
  <2>2. /\ tail \in Seq(S) /\ Len(tail) = IF i + n <= Len(s) THEN Len(s) - (i + n) + 1 ELSE 0
        /\ \A k \in 1..(Len(s) - (i + n) + 1) : tail[k] = s[i + n + k - 1]
    BY <2>1, SubSeqProperties
  <2> HIDE DEF tail
  <2>3. QED
    BY <1>1, <2>2
<1>4. /\ DOMAIN piece = 1..n
      /\ \A k \in 1..n : piece[k] = s[i + k - 1]
  <2>1. i \in Int /\ i + n - 1 \in Int /\ \A k \in i..(i + n - 1) : s[k] \in S
    BY <1>1
  <2>2. /\ piece \in Seq(S) /\ Len(piece) = IF i <= i + n - 1 THEN (i + n - 1) - i + 1 ELSE 0
        /\ \A k \in 1..((i + n - 1) - i + 1) : piece[k] = s[i + k - 1]
    BY <2>1, SubSeqProperties
  <2>3. DOMAIN piece = 1..Len(piece)
    BY <2>2, LenProperties
  <2> HIDE DEF piece
  <2>4. QED
    BY <2>2, <2>3
<1>5. /\ t \in Seq(S) /\ Len(t) = Len(head) + Len(tail)
      /\ \A k \in 1..(Len(head) + Len(tail)) :
             t[k] = IF k <= Len(head) THEN head[k] ELSE tail[k - Len(head)]
  BY <1>2, <1>3, ConcatProperties
<1>6. DOMAIN t = 1..Len(t)
  BY <1>5, LenProperties
<1> HIDE DEF head, tail, piece, t
<1> DEFINE from(k) == IF k < i THEN k ELSE k + n      \* where t[k] was
<1>7. ASSUME NEW k \in DOMAIN t PROVE from(k) \in DOMAIN s /\ t[k] = s[from(k)]
  <2>1. k \in 1..(Len(s) - n) /\ k \in Nat /\ Len(s) \in Nat /\ i \in Nat /\ n \in Nat
    <3>1. Len(t) = Len(s) - n
      <4>1. Len(head) = i - 1 /\ Len(tail) = Len(s) - (i + n) + 1 /\ Len(s) \in Nat
        BY <1>1, <1>2, <1>3
      <4>2. QED
        BY <4>1, <1>5
    <3>2. Len(s) \in Nat /\ k \in 1..Len(t)
      BY <1>1, <1>6
    <3>3. QED
      BY <3>1, <3>2
  <2>2. t[k] = IF k <= i - 1 THEN head[k] ELSE tail[k - (i - 1)]
    <3>1. /\ Len(head) = i - 1 /\ Len(tail) = Len(s) - (i + n) + 1
          /\ k \in 1..(Len(head) + Len(tail))
      BY <1>2, <1>3, <2>1
    <3>2. t[k] = IF k <= Len(head) THEN head[k] ELSE tail[k - Len(head)]
      BY <1>5, <3>1
    <3>3. QED
      BY <3>1, <3>2
  <2>3. CASE k < i
    <3>1. k \in 1..(i - 1) /\ k <= i - 1 /\ from(k) = k /\ k \in 1..Len(s)
      BY <2>1, <2>3
    <3>2. QED
      BY <1>1, <1>2, <2>2, <3>1
  <2>4. CASE k >= i
    <3>1. /\ k - (i - 1) \in 1..(Len(s) - (i + n) + 1)
          /\ ~(k <= i - 1)
          /\ i + n + (k - (i - 1)) - 1 = k + n
          /\ from(k) = k + n
          /\ k + n \in 1..Len(s)
      BY <2>1, <2>4
    <3>2. tail[k - (i - 1)] = s[i + n + (k - (i - 1)) - 1]
      BY <1>3, <3>1
    <3>3. QED
      BY <1>1, <2>2, <3>1, <3>2
  <2>5. k < i \/ k >= i
    BY <2>1
  <2> HIDE DEF from
  <2>6. QED
    BY <2>3, <2>4, <2>5
<1>8. ASSUME NEW k \in DOMAIN s
      PROVE  \/ \E m \in DOMAIN t : t[m] = s[k]
             \/ \E m \in 1..n : piece[m] = s[k]
  <2>1. k \in 1..Len(s) /\ DOMAIN t = 1..(Len(s) - n)
    BY <1>1, <1>2, <1>3, <1>5, <1>6
  <2>2. CASE k < i
    <3>1. k \in DOMAIN t /\ from(k) = k
      BY <1>1, <2>1, <2>2
    <3>2. QED
      BY <1>7, <3>1
  <2>3. CASE k >= i /\ k <= i + n - 1
    <3>1. k - i + 1 \in 1..n /\ i + (k - i + 1) - 1 = k
      BY <1>1, <2>1, <2>3
    <3>2. QED
      BY <1>4, <3>1
  <2>4. CASE k >= i + n
    <3>1. k - n \in DOMAIN t /\ from(k - n) = k
      BY <1>1, <2>1, <2>4
    <3>2. QED
      BY <1>7, <3>1
  <2>5. QED
    BY <2>1, <2>2, <2>3, <2>4
<1>9. \A k, m \in DOMAIN t : from(k) = from(m) => k = m
  BY <1>2, <1>5, <1>6
<1> HIDE DEF from
<1>10. Range(t) \subseteq Range(s)
  BY <1>7 DEF Range
<1>11. Range(s) \subseteq Range(t) \union Range(piece)
  BY <1>4, <1>8 DEF Range
<1>12. IsInjective(s) => IsInjective(t)
  BY <1>7, <1>9 DEF IsInjective
<1>13. QED
  BY <1>10, <1>11, <1>12 DEF t, head, tail, piece

-----------------------------------------------------------------------------
(* Where a step may take a caller.                                         *)

(* Which callers get to which places.                                      *)
Roles ==
    \A c \in Callers :
        /\ pc[c] \in {"tidying", "requeued"} => Asks(c, {"deleteMessage"})
        /\ pc[c] = "unlinking" => Asks(c, {"deleteMessage", "deleteConversation"})
        /\ pc[c] \in {"listing", "rebuilding"} => Asks(c, {"list"})
        /\ Asks(c, {"list"}) => pc[c] \in {"idle", "listing", "rebuilding", "marked"} \union Over
        /\ pc[c] = "finishing" => IsPersister(c)

Onwards(c) ==
    \/ pc[c] = "idle" /\ pc'[c] = "listing" /\ Asks(c, {"list"})
    \/ pc[c] = "idle" /\ pc'[c] = "queued" /\ IsRequest(c) /\ ~Asks(c, {"list"})
    \/ pc[c] = "idle" /\ pc'[c] = "watching" /\ IsPersister(c)
    \/ pc[c] = "watching" /\ pc'[c] = "queued" /\ IsPersister(c)
    \/ pc[c] = "listing" /\ pc'[c] = "rebuilding"
    \/ pc[c] = "queued" /\ pc'[c] \in {"reading", "refusing"}
    \/ pc[c] = "queued" /\ pc'[c] = "unlinking" /\ Asks(c, {"deleteConversation"})
    \/ pc[c] = "requeued" /\ pc'[c] = "unlinking"
    \/ pc[c] = "reading" /\ pc'[c] = "writing"
    \/ pc[c] = "writing" /\ pc'[c] = "indexing" /\ (WriteAndHold(c) \/ Rename(c))
    \/ pc[c] = "writing" /\ pc'[c] = "tidying" /\ DeletePair(c)
    \/ pc[c] = "tidying" /\ pc'[c] \in {"requeued", "indexing"}
    \/ pc[c] = "unlinking" /\ pc'[c] = "indexing"
    \/ pc[c] \in {"indexing", "rebuilding"} /\ pc'[c] = "marked"
    \/ pc[c] = "marked" /\ pc'[c] = "filing" /\ Runs(c)
    \/ pc[c] = "marked" /\ pc'[c] = "answered" /\ ~Runs(c)
    \/ pc[c] = "filing" /\ pc'[c] = "launching" /\ IsRequest(c)
    \/ pc[c] = "filing" /\ pc'[c] = "finishing" /\ IsPersister(c)
    \/ pc[c] \in Ready /\ pc'[c] = "answered"

(* ... or out, from where something can fail.                              *)
GivesUp(c) ==
    /\ pc[c] \in {"refusing", "reading", "writing", "tidying", "unlinking",
                  "indexing", "rebuilding", "marked", "filing"}
    /\ \/ IsPersister(c) /\ pc'[c] = "finishing"
       \/ IsRequest(c) /\ pc'[c] = "refused"
    /\ Refuse(c) \/ IndexFails(c) \/ FileFails(c)

LEMMA KindFixed == [ServiceNext]_serviceVars => UNCHANGED kind
BY DEF ServiceNext, Onward, Step, serviceVars, Arrive, EndRun, Land, List, Enter, Refuse, Load,
   WriteAndHold, Rename, DeletePair, Tidy, Unlink, MarkDirty, Scan, WriteIndex, IndexFails,
   File, FileFails, Launch, Finish, Store

(* A caller that is alone in moving.                                       *)
LEMMA OneMoves ==
  ASSUME IInv, NEW c \in Callers, NEW phase \in Phases, Go(c, phase),
         pc'[c] = phase => Onwards(c) \/ GivesUp(c) \/ pc'[c] = pc[c]
  PROVE  \A d \in Callers : pc'[d] = pc[d] \/ Onwards(d) \/ GivesUp(d)
BY Moved

LEMMA AbandonGivesUp ==
  ASSUME IInv, NEW c \in Callers, Abandon(c),
         Refuse(c) \/ IndexFails(c) \/ FileFails(c),
         pc[c] \in {"refusing", "reading", "writing", "tidying", "unlinking",
                   "indexing", "rebuilding", "marked", "filing"}
  PROVE  \A d \in Callers : pc'[d] = pc[d] \/ Onwards(d) \/ GivesUp(d)
<1> DEFINE phase == IF IsPersister(c) THEN "finishing" ELSE "refused"
<1>1. Go(c, phase)
  BY DEF Abandon
<1>2. phase \in Phases
  BY DEF Phases, Ready, Over
<1>3. pc'[c] = phase /\ \A d \in Callers : d # c => pc'[d] = pc[d]
  BY <1>1, <1>2, Moved
<1>4. GivesUp(c)
  BY <1>3, CallersAre DEF GivesUp
<1>5. QED
  BY <1>3, <1>4

LEMMA Turns ==
  ASSUME IInv, Roles, [ServiceNext]_serviceVars
  PROVE  \A d \in Callers : pc'[d] = pc[d] \/ Onwards(d) \/ GivesUp(d)
<1> DEFINE Moves == \A d \in Callers : pc'[d] = pc[d] \/ Onwards(d) \/ GivesUp(d)
<1> USE DEF Phases, Waiting, InsideLock, Ready, Over
<1> SUFFICES Moves
  OBVIOUS
<1>1. ASSUME NEW r \in Requests, Arrive(r) PROVE Moves
  <2>1. PICK phase \in {"listing", "queued"} :
            /\ Go(R(r), phase)
            /\ phase = "listing" <=> kind[r] = "list"
    BY <1>1 DEF Arrive
  <2>2. R(r) \in Callers /\ R(r)[1] = r /\ IsRequest(R(r)) /\ pc[R(r)] = "idle"
    BY <1>1 DEF Arrive, R, Callers, IsRequest
  <2>3. Asks(R(r), {"list"}) <=> kind[r] = "list"
    BY <2>2 DEF Asks
  <2>4. pc'[R(r)] = phase /\ \A d \in Callers : d # R(r) => pc'[d] = pc[d]
    BY <2>1, <2>2, Moved
  <2>5. Onwards(R(r))
    BY <2>1, <2>2, <2>3, <2>4 DEF Onwards
  <2>6. QED
    BY <2>4, <2>5
<1>2. ASSUME NEW r \in Requests, EndRun(r) PROVE Moves
  <2>1. P(r) \in Callers /\ IsPersister(P(r)) /\ Go(P(r), "queued") /\ pc[P(r)] = "watching"
    BY <1>2, CallersAre DEF EndRun, IInv, Followed
  <2>2. pc'[P(r)] = "queued" => Onwards(P(r))
    BY <2>1 DEF Onwards
  <2>3. QED
    BY <2>1, <2>2, OneMoves
<1>3. ASSUME NEW r \in Requests, Land(r) PROVE Moves
  BY <1>3 DEF Land
<1>4. ASSUME NEW c \in Callers, Step(c) PROVE Moves
  <2>1. CASE List(c)
    <3>1. Go(c, "rebuilding") /\ (pc'[c] = "rebuilding" => Onwards(c))
      BY <2>1 DEF List, Onwards
    <3>2. QED
      BY <3>1, OneMoves
  <2>2. CASE Enter(c)
    <3>1. PICK phase \in {"refusing", "unlinking", "reading"} :
              /\ Go(c, phase)
              /\ phase = "refusing" => Launches(c)
              /\ phase = "unlinking" => pc[c] = "requeued" \/ Asks(c, {"deleteConversation"})
              /\ phase = "reading" => pc[c] # "requeued"
      BY <2>2 DEF Enter
    <3>2. pc[c] \in {"queued", "requeued"} /\ (pc[c] = "requeued" => ~Launches(c))
      BY <2>2 DEF Enter, Roles, Asks, Launches
    <3>3. pc'[c] = phase => Onwards(c)
      BY <3>1, <3>2 DEF Onwards
    <3>4. QED
      BY <3>1, <3>3, OneMoves
  <2>3. CASE Refuse(c)
    BY <2>3, AbandonGivesUp DEF Refuse
  <2>4. CASE Load(c)
    <3>1. Go(c, "writing") /\ (pc'[c] = "writing" => Onwards(c))
      BY <2>4 DEF Load, Onwards
    <3>2. QED
      BY <3>1, OneMoves
  <2>5. CASE WriteAndHold(c) \/ Rename(c)
    <3>1. Go(c, "indexing") /\ pc[c] = "writing"
      BY <2>5 DEF WriteAndHold, Rename, JoinIndex
    <3>2. pc'[c] = "indexing" => Onwards(c)
      BY <2>5, <3>1 DEF Onwards
    <3>3. QED
      BY <3>1, <3>2, OneMoves
  <2>6. CASE DeletePair(c)
    <3>1. Go(c, "tidying") /\ pc[c] = "writing"
      BY <2>6 DEF DeletePair
    <3>2. pc'[c] = "tidying" => Onwards(c)
      BY <2>6, <3>1 DEF Onwards
    <3>3. QED
      BY <3>1, <3>2, OneMoves
  <2>7. CASE Tidy(c)
    <3>1. PICK phase \in {"requeued", "indexing"} : Go(c, phase)
      BY <2>7 DEF Tidy, JoinIndex
    <3>2. pc'[c] = phase => Onwards(c)
      BY <2>7, <3>1 DEF Onwards, Tidy
    <3>3. QED
      BY <3>1, <3>2, OneMoves
  <2>8. CASE Unlink(c)
    <3>1. Go(c, "indexing") /\ (pc'[c] = "indexing" => Onwards(c))
      BY <2>8 DEF Unlink, JoinIndex, Onwards
    <3>2. QED
      BY <3>1, OneMoves
  <2>9. CASE MarkDirty(c) \/ Scan(c)
    <3>1. Go(c, "marked") /\ (pc'[c] = "marked" => Onwards(c))
      BY <2>9 DEF MarkDirty, Scan, Onwards
    <3>2. QED
      BY <3>1, OneMoves
  <2>10. CASE WriteIndex(c)
    <3>1. PICK phase \in {"filing", "answered"} :
              Go(c, phase) /\ (phase = "filing" <=> Runs(c)) /\ pc[c] = "marked"
      BY <2>10 DEF WriteIndex
    <3>2. pc'[c] = phase => Onwards(c)
      BY <3>1 DEF Onwards
    <3>3. QED
      BY <3>1, <3>2, OneMoves
  <2>11. CASE IndexFails(c)
    BY <2>11, AbandonGivesUp DEF IndexFails
  <2>12. CASE File(c)
    <3>1. PICK phase \in {"finishing", "launching"} :
              Go(c, phase) /\ (phase = "finishing" <=> IsPersister(c)) /\ pc[c] = "filing"
      BY <2>12 DEF File
    <3>2. pc'[c] = phase => Onwards(c)
      BY <3>1, CallersAre DEF Onwards
    <3>3. QED
      BY <3>1, <3>2, OneMoves
  <2>13. CASE FileFails(c)
    BY <2>13, AbandonGivesUp DEF FileFails
  <2>14. CASE Launch(c)
    <3>1. /\ pc[c] = "launching" /\ IsRequest(c) /\ c[1] \in Requests
          /\ P(c[1]) \in Callers /\ IsPersister(P(c[1])) /\ c = R(c[1])
      BY <2>14, CallersAre, CallerKinds DEF Launch, IInv, Followed
    <3>2. pc[P(c[1])] = "idle"
      BY <3>1 DEF IInv, Followed
    <3>3. pc' = [pc EXCEPT ![c] = "answered", ![P(c[1])] = "watching"] /\ P(c[1]) # c
      BY <2>14, <3>1, CallerKinds DEF Launch
    <3>4. /\ pc'[c] = "answered" /\ pc'[P(c[1])] = "watching"
          /\ \A d \in Callers : d # c /\ d # P(c[1]) => pc'[d] = pc[d]
      BY <3>1, <3>3 DEF IInv, TypeOK
    <3>5. Onwards(c) /\ Onwards(P(c[1]))
      BY <3>1, <3>2, <3>4 DEF Onwards
    <3>6. QED
      BY <3>4, <3>5
  <2>15. CASE Finish(c)
    <3>1. Go(c, "answered") /\ (pc'[c] = "answered" => Onwards(c))
      BY <2>15 DEF Finish, Onwards
    <3>2. QED
      BY <3>1, OneMoves
  <2>16. QED
    BY <1>4, <2>1, <2>2, <2>3, <2>4, <2>5, <2>6, <2>7, <2>8, <2>9, <2>10, <2>11, <2>12,
       <2>13, <2>14, <2>15 DEF Step
<1>5. CASE UNCHANGED serviceVars
  BY <1>5 DEF serviceVars
<1>6. QED
  BY <1>1, <1>2, <1>3, <1>4, <1>5 DEF ServiceNext, Onward

LEMMA AsksStands ==
  ASSUME UNCHANGED kind, NEW c \in Callers, NEW kinds
  PROVE  (Asks(c, kinds)' <=> Asks(c, kinds)) /\ (Runs(c)' <=> Runs(c))
BY DEF Asks, IsRequest, Runs, Launches, IsPersister

LEMMA RolesPreserved == IInv /\ Roles /\ [ServiceNext]_serviceVars => Roles'
<1> SUFFICES ASSUME IInv, Roles, [ServiceNext]_serviceVars, NEW c \in Callers
             PROVE  /\ pc'[c] \in {"tidying", "requeued"} => Asks(c, {"deleteMessage"})
                    /\ pc'[c] = "unlinking" => Asks(c, {"deleteMessage", "deleteConversation"})
                    /\ pc'[c] \in {"listing", "rebuilding"} => Asks(c, {"list"})
                    /\ Asks(c, {"list"}) =>
                          pc'[c] \in {"idle", "listing", "rebuilding", "marked"} \union Over
                    /\ pc'[c] = "finishing" => IsPersister(c)
  BY KindFixed, AsksStands DEF Roles
<1>1. /\ Asks(c, {"list"}) => ~Runs(c) /\ ~IsPersister(c)
      /\ \A a \in {"deleteMessage", "deleteConversation"} :
             Asks(c, {a}) => ~Asks(c, {"list"}) /\ Asks(c, {"deleteMessage", "deleteConversation"})
      /\ Asks(c, {"deleteMessage", "deleteConversation"}) => ~Asks(c, {"list"})
  BY CallersAre DEF Asks, Runs, Launches
<1>2. CASE pc'[c] = pc[c]
  BY <1>2 DEF Roles
<1>3. CASE Onwards(c)
  <2>1. pc[c] = "writing" => ~Asks(c, {"list"})
    BY DEF Roles, Over
  <2>2. DeletePair(c) => Asks(c, {"deleteMessage"})
    BY DEF DeletePair
  <2>3. QED
    BY <1>1, <1>3, <2>1, <2>2 DEF Roles, Onwards, Over, Ready
<1>4. CASE GivesUp(c)
  BY <1>1, <1>4 DEF GivesUp, Over
<1>5. QED
  BY <1>2, <1>3, <1>4, Turns

-----------------------------------------------------------------------------
(* What the file holds.                                                    *)

Asking == {"idle", "queued", "reading", "writing", "refusing"}
Sent == {"indexing", "marked", "filing", "launching", "answered"}

(* From the write on a question is in the file, unless somebody was rid of *)
(* it; QuestionKept asks this of answered sends only.                      *)
QuestionFollowed ==
    \A r \in Requests :
        kind[r] = "send" /\ pc[R(r)] \in Sent
            => Question(r) \in MessagesIn(file) \union removed \/ swept

(* No message is there before its author has written it, so that nobody    *)
(* writes one twice.                                                       *)
Authored ==
    \A r \in Requests :
        /\ Question(r) \in MessagesIn(file) => kind[r] = "send" /\ pc[R(r)] \notin Asking
        /\ Answer(r) \in MessagesIn(file) =>
               /\ run[r] \notin {"none", "running"}
               /\ pc[P(r)] \notin {"queued", "reading", "writing"}
Once == file # None => IsInjective(file.messages)

Content == Roles /\ QuestionFollowed /\ Authored /\ Once

(* The messages a writer brings: one of its own, or none.                  *)
Brought(c) ==
    IF Asks(c, {"send"}) THEN {Question(c[1])}
    ELSE IF IsPersister(c) THEN {Answer(c[1])} ELSE {}

LEMMA MessagesOf ==
  ASSUME NEW c \in Conversation
  PROVE  /\ c.messages \in Seq(Message) /\ Len(c.messages) \in Nat
         /\ DOMAIN c.messages = 1..Len(c.messages)
         /\ c # None /\ MessagesIn(c) = Range(c.messages)
<1>1. c # None
  BY NoneAssumption
<1>2. QED
  BY <1>1, LenProperties DEF Conversation, MessagesIn

LEMMA WriterHasTheFile ==
  ASSUME NEW c \in Callers, IInv, pc[c] = "writing"
  PROVE  copy[c] = file /\ file \in Conversation
BY DEF IInv, WritersAreCurrent, TypeOK

LEMMA AppendBrings ==
  ASSUME NEW c \in Conversation, NEW m \in Message
  PROVE  /\ MessagesIn(Append1(c, m)) = MessagesIn(c) \union {m}
         /\ IsInjective(c.messages) /\ m \notin MessagesIn(c)
               => IsInjective(Append1(c, m).messages)
<1>1. Append1(c, m) \in Conversation /\ Append1(c, m).messages = Append(c.messages, m)
  BY Append1Type DEF Append1, Conversation
<1>2. c.messages \in Seq(Message)
  BY MessagesOf
<1>3. /\ MessagesIn(c) = Range(c.messages)
      /\ MessagesIn(Append1(c, m)) = Range(Append(c.messages, m))
  BY <1>1, MessagesOf
<1>4. QED
  BY <1>1, <1>2, <1>3, AppendFresh

LEMMA WithoutReplyLoses ==
  ASSUME NEW c \in Conversation
  PROVE  /\ MessagesIn(WithoutReply(c)) \subseteq MessagesIn(c)
         /\ IsInjective(c.messages) => IsInjective(WithoutReply(c).messages)
<1> DEFINE s == c.messages
           t == SubSeq(s, 1, Len(s) - 1)
<1>1. s \in Seq(Message) /\ Len(s) \in Nat /\ DOMAIN s = 1..Len(s)
  BY MessagesOf
<1>2. CASE LastType(c) = "assistant" /\ s # << >>
  <2>1. Len(s) \in Nat \ {0} /\ \A k \in 1..(Len(s) - 1) : s[k] \in Message
    BY <1>1, <1>2, EmptySeq, ElementOfSeq
  <2>2. /\ t \in Seq(Message)
        /\ Len(t) = IF 1 <= Len(s) - 1 THEN (Len(s) - 1) - 1 + 1 ELSE 0
        /\ \A k \in 1..((Len(s) - 1) - 1 + 1) : t[k] = s[1 + k - 1]
    BY <2>1, SubSeqProperties
  <2>3. DOMAIN t = 1..Len(t)
    BY <2>2, LenProperties
  <2> HIDE DEF t
  <2>4. \A k \in DOMAIN t : k \in DOMAIN s /\ t[k] = s[k]
    BY <1>1, <2>1, <2>2, <2>3
  <2>5. Range(t) \subseteq Range(s) /\ (IsInjective(s) => IsInjective(t))
    BY <2>4 DEF Range, IsInjective
  <2>6. WithoutReply(c) \in Conversation /\ WithoutReply(c).messages = t
    BY <1>2, WithoutReplyType DEF WithoutReply, Conversation, t
  <2>7. QED
    BY <2>5, <2>6, MessagesOf
<1>3. CASE ~(LastType(c) = "assistant" /\ s # << >>)
  <2>1. WithoutReply(c) = c
    <3>1. CASE s = << >>
      <4>1. Len(s) = 0
        BY <3>1
      <4>2. SubSeq(s, 1, Len(s) - 1) = << >>
        BY <4>1, SubSeqEmpty
      <4>3. [c EXCEPT !.messages = SubSeq(@, 1, Len(@) - 1)] = c
        BY <3>1, <4>2 DEF Conversation
      <4>4. QED
        BY <4>3 DEF WithoutReply
    <3>2. CASE LastType(c) # "assistant"
      BY <3>2 DEF WithoutReply
    <3>3. QED
      BY <1>3, <3>1, <3>2
  <2>2. QED
    BY <2>1
<1>4. QED
  BY <1>2, <1>3

LEMMA WithoutPairLoses ==
  ASSUME NEW c \in Conversation, NEW i \in DOMAIN c.messages
  PROVE  /\ MessagesIn(WithoutPair(c, i)) \subseteq MessagesIn(c)
         /\ MessagesIn(c) \subseteq MessagesIn(WithoutPair(c, i))
                \union Range(SubSeq(c.messages, i, i + PairAt(c, i) - 1))
         /\ IsInjective(c.messages) => IsInjective(WithoutPair(c, i).messages)
<1> DEFINE s == c.messages
           n == PairAt(c, i)
           t == SubSeq(s, 1, i - 1) \o SubSeq(s, i + n, Len(s))
<1>1. s \in Seq(Message) /\ Len(s) \in Nat /\ DOMAIN s = 1..Len(s)
  BY MessagesOf
<1>2. i \in Nat \ {0} /\ n \in Nat /\ i + n - 1 <= Len(s)
  <2>1. i \in Nat \ {0} /\ i <= Len(s) /\ n \in {1, 2} /\ i + n - 1 <= Len(s)
    BY <1>1 DEF PairAt
  <2>2. QED
    BY <2>1
<1>3. WithoutPair(c, i) \in Conversation /\ WithoutPair(c, i).messages = t
  BY WithoutPairType DEF WithoutPair, Conversation
<1> HIDE DEF n
<1>4. /\ Range(t) \subseteq Range(s)
      /\ Range(s) \subseteq Range(t) \union Range(SubSeq(s, i, i + n - 1))
      /\ IsInjective(s) => IsInjective(t)
  BY <1>1, <1>2, CutOut
<1> HIDE DEF s, t
<1>5. QED
  BY <1>3, <1>4, MessagesOf DEF s, n

(* One write: what goes is counted as removed, what comes is its own.      *)
LEMMA Writing ==
  ASSUME IInv, NEW c \in Callers, WriteAndHold(c) \/ Rename(c) \/ DeletePair(c)
  PROVE  /\ pc[c] = "writing" /\ file \in Conversation /\ file' \in Conversation
         /\ MessagesIn(file) \union removed \subseteq MessagesIn(file') \union removed'
         /\ MessagesIn(file') \subseteq MessagesIn(file) \union Brought(c)
         /\ Asks(c, {"send"}) => Question(c[1]) \in MessagesIn(file')
         /\ IsInjective(file.messages) /\ MessagesIn(file) \intersect Brought(c) = {}
               => IsInjective(file'.messages)
         /\ UNCHANGED <<swept, run>>
<1>1. pc[c] = "writing" /\ copy[c] = file /\ file \in Conversation /\ c[1] \in Requests
  BY WriterHasTheFile, CallersAre DEF WriteAndHold, Rename, DeletePair
<1>2. UNCHANGED <<swept, run>>
  BY DEF WriteAndHold, Rename, DeletePair, Store, runs
<1>3. Question(c[1]) \in Message /\ Answer(c[1]) \in Message
  BY <1>1, MessagesAre
<1>4. CASE WriteAndHold(c) /\ Asks(c, {"send"})
  <2>1. file' = Append1(file, Question(c[1])) /\ removed' = removed
    BY <1>1, <1>4, CallersAre DEF WriteAndHold, Store, Asks
  <2>2. QED
    BY <1>1, <1>2, <1>3, <1>4, <2>1, Append1Type, AppendBrings DEF Brought
<1>5. CASE WriteAndHold(c) /\ Asks(c, {"regenerate"})
  <2>1. /\ file' = WithoutReply(file)
        /\ removed' = removed \union (MessagesIn(file) \ MessagesIn(file'))
        /\ ~Asks(c, {"send"})
    BY <1>1, <1>5, CallersAre DEF WriteAndHold, Store, Asks
  <2>2. QED
    BY <1>1, <1>2, <2>1, WithoutReplyType, WithoutReplyLoses
<1>6. CASE WriteAndHold(c) /\ IsPersister(c)
  <2>1. file' = WithAnswer(c[1], file) /\ removed' = removed /\ ~Asks(c, {"send"})
    BY <1>1, <1>6, CallersAre DEF WriteAndHold, Store, Asks
  <2>2. /\ file' \in Conversation
        /\ file'.messages = Append1(file, Answer(c[1])).messages
        /\ Append1(file, Answer(c[1])) \in Conversation
    <3>1. Append1(file, Answer(c[1])) \in Conversation
      BY <1>1, <1>3, Append1Type
    <3>2. QED
      BY <1>1, <2>1, <3>1, WithAnswerType DEF WithAnswer, Conversation
  <2>3. MessagesIn(file') = MessagesIn(Append1(file, Answer(c[1])))
    BY <2>2, MessagesOf
  <2>4. QED
    BY <1>1, <1>2, <1>3, <1>6, <2>1, <2>2, <2>3, AppendBrings DEF Brought
<1>7. CASE Rename(c)
  <2>1. file' = [file EXCEPT !.title = "renamed"] /\ removed' = removed /\ ~Asks(c, {"send"})
    BY <1>1, <1>7 DEF Rename, Store, Asks
  <2>2. file' \in Conversation /\ file'.messages = file.messages
    BY <1>1, <2>1 DEF Conversation, Titles
  <2>3. MessagesIn(file') = MessagesIn(file)
    BY <1>1, <2>2, MessagesOf
  <2>4. QED
    BY <1>1, <1>2, <2>1, <2>2, <2>3
<1>8. CASE DeletePair(c)
  <2>1. PICK i \in DOMAIN file.messages :
            /\ file' = WithoutPair(file, i)
            /\ removed' = removed \union Range(SubSeq(file.messages, i, i + PairAt(file, i) - 1))
    BY <1>1, <1>8 DEF DeletePair, Store
  <2>2. ~Asks(c, {"send"})
    BY <1>8 DEF DeletePair, Asks
  <2>3. QED
    BY <1>1, <1>2, <2>1, <2>2, WithoutPairType, WithoutPairLoses
<1>9. QED
  BY <1>4, <1>5, <1>6, <1>7, <1>8 DEF WriteAndHold

(* Nothing else changes the file, but for its deletion.                    *)
LEMMA FileSteps ==
  ASSUME [ServiceNext]_serviceVars
  PROVE  \/ UNCHANGED <<file, removed, swept>>
         \/ \E c \in Callers : WriteAndHold(c) \/ Rename(c) \/ DeletePair(c)
         \/ \E c \in Callers : Unlink(c)
BY DEF ServiceNext, Onward, Step, serviceVars, disk, history, Arrive, EndRun, Land, List, Enter,
   Refuse, Load, Tidy, MarkDirty, Scan, WriteIndex, IndexFails, File, FileFails, Launch, Finish

LEMMA OncePreserved == IInv /\ Content /\ [ServiceNext]_serviceVars => Once'
<1> SUFFICES ASSUME IInv, Content, [ServiceNext]_serviceVars PROVE Once'
  OBVIOUS
<1>1. CASE UNCHANGED file
  BY <1>1 DEF Content, Once
<1>2. ASSUME NEW c \in Callers, WriteAndHold(c) \/ Rename(c) \/ DeletePair(c) PROVE Once'
  <2>1. pc[c] = "writing" /\ file \in Conversation /\ file # None
    BY <1>2, Writing, MessagesOf
  <2>2. Asks(c, {"send"}) => c = R(c[1]) /\ kind[c[1]] = "send" /\ c[1] \in Requests
    BY CallersAre, CallerKinds DEF Asks
  <2>3. IsPersister(c) => c = P(c[1]) /\ c[1] \in Requests
    BY CallersAre, CallerKinds
  <2>4. MessagesIn(file) \intersect Brought(c) = {}
    BY <2>1, <2>2, <2>3 DEF Brought, Content, Authored, Asking
  <2>5. QED
    BY <1>2, <2>1, <2>4, Writing DEF Content, Once
<1>3. ASSUME NEW c \in Callers, Unlink(c) PROVE Once'
  BY <1>3 DEF Unlink, Once
<1>4. QED
  BY <1>1, <1>2, <1>3, FileSteps

LEMMA RunsEnd ==
  ASSUME IInv, [ServiceNext]_serviceVars, NEW r \in Requests, run[r] \notin {"none", "running"}
  PROVE  run'[r] \notin {"none", "running"}
<1>1. ASSUME NEW q \in Requests, EndRun(q) PROVE run'[r] = run[r]
  BY <1>1 DEF EndRun, IInv, TypeOK
<1>2. ASSUME NEW c \in Callers, Launch(c) PROVE run'[r] = run[r]
  <2>1. c[1] \in Requests /\ c = R(c[1]) /\ pc[c] = "launching"
    BY <1>2, CallersAre, CallerKinds DEF Launch, IInv, Followed
  <2>2. run[c[1]] = "none"
    BY <2>1 DEF IInv, Followed
  <2>3. QED
    BY <1>2, <2>1, <2>2 DEF Launch, IInv, TypeOK
<1>3. ASSUME NEW c \in Callers, Step(c), ~Launch(c) PROVE run' = run
  BY <1>3 DEF Step, List, Enter, Refuse, Load, WriteAndHold, Rename, DeletePair, Tidy, Unlink,
     MarkDirty, Scan, WriteIndex, IndexFails, File, FileFails, Finish, Store, runs
<1>4. ASSUME NEW q \in Requests, Arrive(q) \/ Land(q) PROVE run' = run
  BY <1>4 DEF Arrive, Land, runs
<1>5. CASE UNCHANGED serviceVars
  BY <1>5 DEF serviceVars, runs
<1>6. QED
  BY <1>1, <1>2, <1>3, <1>4, <1>5 DEF ServiceNext, Onward

(* Nobody who has asked or answered gets back to where it has not.         *)
LEMMA NotBefore ==
  ASSUME IInv, Roles, [ServiceNext]_serviceVars, NEW r \in Requests
  PROVE  /\ kind[r] = "send" /\ pc[R(r)] \notin Asking => pc'[R(r)] \notin Asking
         /\ /\ pc[P(r)] \notin {"idle", "watching", "queued", "reading", "writing"}
            => pc'[P(r)] \notin {"queued", "reading", "writing"}
<1>1. R(r) \in Callers /\ P(r) \in Callers /\ R(r)[1] = r /\ ~IsPersister(R(r))
  BY CallersAre DEF R
<1>2. kind[r] = "send" => ~Asks(R(r), {"deleteMessage"})
  BY <1>1 DEF Asks
<1>3. \A c \in Callers : pc'[c] = pc[c] \/ Onwards(c) \/ GivesUp(c)
  BY Turns
<1>4. kind[r] = "send" /\ pc[R(r)] \notin Asking => pc'[R(r)] \notin Asking
  BY <1>1, <1>2, <1>3 DEF Onwards, GivesUp, Asking, Roles, Ready
<1>5. pc[P(r)] \notin {"idle", "watching", "queued", "reading", "writing"}
         => pc'[P(r)] \notin {"queued", "reading", "writing"}
  BY <1>1, <1>3 DEF Onwards, GivesUp, Ready
<1>6. QED
  BY <1>4, <1>5

LEMMA AuthoredPreserved == IInv /\ IInv' /\ Content /\ [ServiceNext]_serviceVars => Authored'
<1> SUFFICES ASSUME IInv, IInv', Content, [ServiceNext]_serviceVars, NEW r \in Requests
             PROVE  /\ Question(r) \in MessagesIn(file') =>
                           kind'[r] = "send" /\ pc'[R(r)] \notin Asking
                    /\ Answer(r) \in MessagesIn(file') =>
                           /\ run'[r] \notin {"none", "running"}
                           /\ pc'[P(r)] \notin {"queued", "reading", "writing"}
  BY DEF Authored, MessagesIn
<1> DEFINE Goal == /\ Question(r) \in MessagesIn(file') =>
                          kind'[r] = "send" /\ pc'[R(r)] \notin Asking
                   /\ Answer(r) \in MessagesIn(file') =>
                          /\ run'[r] \notin {"none", "running"}
                          /\ pc'[P(r)] \notin {"queued", "reading", "writing"}
<1>1. /\ Question(r) \in MessagesIn(file) => kind[r] = "send" /\ pc[R(r)] \notin Asking
      /\ Answer(r) \in MessagesIn(file) =>
             /\ run[r] \notin {"none", "running"}
             /\ pc[P(r)] \notin {"idle", "watching", "queued", "reading", "writing"}
  <2>1. Authored
    BY DEF Content
  <2>2. QED
    BY <2>1 DEF Authored, IInv, Followed
<1>2. kind' = kind
  BY KindFixed
<1>3. MessagesIn(file') \subseteq MessagesIn(file) => Goal
  BY <1>1, <1>2, NotBefore, RunsEnd DEF Content
<1>4. CASE UNCHANGED file
  <2>1. MessagesIn(file') = MessagesIn(file)
    BY <1>4
  <2>2. QED
    BY <1>3, <2>1
<1>5. ASSUME NEW c \in Callers, WriteAndHold(c) \/ Rename(c) \/ DeletePair(c) PROVE Goal
  <2>1. /\ MessagesIn(file') \subseteq MessagesIn(file) \union Brought(c)
        /\ pc[c] = "writing" /\ run' = run
    BY <1>5, Writing
  <2>2. CASE Question(r) \in Brought(c)
    <3>1. Asks(c, {"send"}) /\ c[1] = r
      BY <2>2 DEF Brought, Question, Answer
    <3>2. c = R(r) /\ kind[r] = "send" /\ WriteAndHold(c)
      BY <1>5, <3>1, CallerKinds DEF Asks, Rename, DeletePair
    <3>3. pc'[c] = "indexing"
      BY <3>2 DEF WriteAndHold, JoinIndex, Go, IInv, TypeOK
    <3>4. Answer(r) \notin Brought(c)
      BY <3>1 DEF Brought, Question, Answer
    <3>5. QED
      BY <1>1, <1>2, <2>1, <3>2, <3>3, <3>4, NotBefore, RunsEnd DEF Content, Asking
  <2>3. CASE Answer(r) \in Brought(c)
    <3>1. IsPersister(c) /\ c[1] = r
      BY <2>3 DEF Brought, Question, Answer
    <3>2. c = P(r) /\ WriteAndHold(c)
      BY <1>5, <3>1, CallersAre, CallerKinds DEF Asks, Rename, DeletePair
    <3>3. pc'[c] = "indexing" /\ run[r] \notin {"none", "running"}
      BY <2>1, <3>2 DEF WriteAndHold, JoinIndex, Go, IInv, TypeOK, Followed
    <3>4. Question(r) \notin Brought(c)
      BY <2>3, <3>1 DEF Brought, Question, Answer
    <3>5. QED
      BY <1>1, <1>2, <2>1, <3>2, <3>3, <3>4, NotBefore DEF Content
  <2>4. CASE Question(r) \notin Brought(c) /\ Answer(r) \notin Brought(c)
    BY <1>1, <1>2, <2>1, <2>4, NotBefore, RunsEnd DEF Content
  <2>5. QED
    BY <2>2, <2>3, <2>4
<1>6. ASSUME NEW c \in Callers, Unlink(c) PROVE Goal
  <2>1. MessagesIn(file') = {}
    BY <1>6 DEF Unlink, MessagesIn
  <2>2. QED
    BY <2>1
<1>7. QED
  BY <1>4, <1>5, <1>6, FileSteps

(* Whatever is in the file stays there, or is counted as removed; except   *)
(* for what the second half of a deleteMessage takes along.                *)
LEMMA NothingVanishes ==
  ASSUME IInv, Roles, [ServiceNext]_serviceVars
  PROVE  \/ swept'
         \/ ~swept /\ MessagesIn(file) \union removed \subseteq MessagesIn(file') \union removed'
<1> DEFINE Goal == \/ swept'
                   \/ /\ ~swept
                      /\ MessagesIn(file) \union removed \subseteq MessagesIn(file') \union removed'
<1>1. CASE UNCHANGED <<file, removed, swept>>
  <2>1. MessagesIn(file') = MessagesIn(file)
    BY <1>1
  <2>2. QED
    BY <1>1, <2>1
<1>2. ASSUME NEW c \in Callers, WriteAndHold(c) \/ Rename(c) \/ DeletePair(c) PROVE Goal
  BY <1>2, Writing
<1>3. ASSUME NEW c \in Callers, Unlink(c) PROVE Goal
  <2>1. CASE Asks(c, {"deleteConversation"})
    <3>1. removed' = removed \union MessagesIn(file) /\ (swept => swept')
      BY <1>3, <2>1 DEF Unlink
    <3>2. QED
      BY <3>1
  <2>2. CASE ~Asks(c, {"deleteConversation"})
    <3>1. Asks(c, {"deleteMessage"}) /\ removed' = removed /\ file \in Conversation
      BY <1>3, <2>2 DEF Unlink, Roles, Asks, IInv, TypeOK
    <3>2. file.messages = << >> => MessagesIn(file) = {}
      <4>1. ASSUME file.messages = << >> PROVE DOMAIN file.messages = {}
        BY <3>1, <4>1, MessagesOf
      <4>2. QED
        BY <3>1, <4>1, MessagesOf DEF Range
    <3>3. swept' \/ (~swept /\ file.messages = << >>)
      BY <1>3, <3>1 DEF Unlink
    <3>4. QED
      BY <3>1, <3>2, <3>3
  <2>3. QED
    BY <2>1, <2>2
<1>4. QED
  BY <1>1, <1>2, <1>3, FileSteps

LEMMA QuestionsPreserved == IInv /\ Content /\ [ServiceNext]_serviceVars => QuestionFollowed'
<1> SUFFICES ASSUME IInv, Content, [ServiceNext]_serviceVars, NEW r \in Requests,
                    kind'[r] = "send", pc'[R(r)] \in Sent
             PROVE  Question(r) \in MessagesIn(file') \union removed' \/ swept'
  BY DEF QuestionFollowed, MessagesIn
<1>1. /\ R(r) \in Callers /\ kind[r] = "send" /\ R(r)[1] = r /\ IsRequest(R(r))
      /\ Asks(R(r), {"send"})
      /\ \A k \in Kinds \ {"send"} : ~Asks(R(r), {k})
      /\ ~Asks(R(r), {"deleteMessage", "deleteConversation"})
      /\ Roles
  BY CallersAre, KindFixed DEF R, Asks, Content
<1>2. CASE pc[R(r)] \in Sent
  BY <1>1, <1>2, NothingVanishes DEF Content, QuestionFollowed
<1>3. CASE pc[R(r)] \notin Sent
  <2>1. pc'[R(r)] # pc[R(r)]
    BY <1>3
  <2>2. Onwards(R(r)) \/ GivesUp(R(r))
    BY <1>1, <2>1, Turns
  <2>3. ~GivesUp(R(r))
    BY <1>1, CallersAre DEF GivesUp, Sent
  <2>4. Onwards(R(r))
    BY <2>2, <2>3
  <2>5. WriteAndHold(R(r)) \/ Rename(R(r))
    BY <1>1, <1>3, <2>4, CallersAre DEF Onwards, Sent, Roles, Ready, Kinds
  <2>6. QED
    BY <1>1, <2>5, Writing
<1>4. QED
  BY <1>2, <1>3

LEMMA ContentStarts == Init => Content
<1> SUFFICES ASSUME Init PROVE Content
  OBVIOUS
<1> USE DEF Phases, Waiting, InsideLock, Ready, Over
<1>1. \A c \in Callers : pc[c] = "idle"
  BY DEF Init
<1>2. Roles
  BY <1>1 DEF Roles
<1>3. QuestionFollowed
  BY <1>1, CallersAre DEF QuestionFollowed, Sent
<1>4. /\ file \in Conversation
      /\ file.messages = << >> \/ file.messages = <<Question(Old), Answer(Old)>>
  <2>1. file \in Conversation \union {None}
    BY InitEstablishes DEF IInv, TypeOK
  <2>2. /\ [title |-> "default", messages |-> << >>] \in Conversation
        /\ [title |-> "auto", messages |-> <<Question(Old), Answer(Old)>>] \in Conversation
    <3>1. Question(Old) \in Message /\ Answer(Old) \in Message
      BY DEF Question, Answer, Message
    <3>2. <<Question(Old), Answer(Old)>> \in Seq(Message) /\ << >> \in Seq(Message)
      BY <3>1
    <3>3. QED
      BY <3>2 DEF Conversation, Titles
  <2>3. QED
    BY <2>2 DEF Init
<1>5. Once
  <2>1. Question(Old) # Answer(Old)
    BY DEF Question, Answer
  <2>2. QED
    BY <1>4, <2>1 DEF Once, IsInjective
<1>6. Authored
  <2>1. \A r \in Requests : Question(r) \notin MessagesIn(file) /\ Answer(r) \notin MessagesIn(file)
    <3>1. MessagesIn(file) \subseteq {Question(Old), Answer(Old)}
      <4>1. MessagesIn(file) = Range(file.messages)
        BY <1>4, MessagesOf
      <4>2. QED
        BY <1>4, <4>1 DEF Range
    <3>2. \A r \in Requests : r # Old
      BY DistinctAssumption
    <3>3. QED
      BY <3>1, <3>2 DEF Question, Answer
  <2>2. QED
    BY <2>1 DEF Authored
<1>7. QED
  BY <1>2, <1>3, <1>5, <1>6 DEF Content

LEMMA ContentPreserved == IInv /\ IInv' /\ Content /\ [ServiceNext]_serviceVars => Content'
BY RolesPreserved, QuestionsPreserved, AuthoredPreserved, OncePreserved DEF Content

LEMMA ContentSays == IInv /\ Content => QuestionKept /\ AnswersOnce
<1> SUFFICES ASSUME IInv, Content PROVE QuestionKept /\ AnswersOnce
  OBVIOUS
<1>1. QuestionKept
  BY DEF Content, QuestionFollowed, QuestionKept, AcknowledgedQuestionKept, Sent
<1>2. ASSUME file # None, NEW i \in DOMAIN file.messages
      PROVE  LET m == file.messages[i]
             IN /\ \A j \in DOMAIN file.messages : file.messages[j] = m => i = j
                /\ m.type = "assistant" /\ m.of # Old => run[m.of] \notin {"none", "running"}
  <2> DEFINE m == file.messages[i]
  <2>1. m \in MessagesIn(file) /\ m \in Message
    <3>1. file \in Conversation
      BY <1>2 DEF IInv, TypeOK
    <3>2. m \in MessagesIn(file)
      BY <1>2 DEF MessagesIn, Range
    <3>3. QED
      BY <3>1, <3>2, MessagesInType
  <2>2. IsInjective(file.messages)
    BY <1>2 DEF Content, Once
  <2>3. ASSUME m.type = "assistant", m.of # Old PROVE run[m.of] \notin {"none", "running"}
    <3>1. m.of \in Requests /\ m = Answer(m.of)
      BY <2>1, <2>3 DEF Message, Answer
    <3>2. QED
      BY <2>1, <3>1 DEF Content, Authored
  <2>4. QED
    BY <1>2, <2>2, <2>3 DEF IsInjective
<1>3. AnswersOnce
  BY <1>2 DEF AnswersOnce
<1>4. QED
  BY <1>1, <1>3

(* Every message in the file has the author it names, no message is there  *)
(* twice, and a question stays from the write on.                          *)
THEOREM Accounted == Spec => []Content
<1>1. Init => Content
  BY ContentStarts
<1>2. IInv /\ IInv' /\ Content /\ [ServiceNext]_serviceVars => Content'
  BY ContentPreserved
<1>3. QED
  BY <1>1, <1>2, Orderly, PTL DEF Spec

(* A question whose send was answered is in the file until a reader is rid *)
(* of it, or a deleteMessage that had emptied the conversation takes what  *)
(* others wrote there since (INV-08), for any number of requests.          *)
THEOREM QuestionsStay == Spec => []QuestionKept
<1>1. IInv /\ Content => QuestionKept
  BY ContentSays
<1>2. QED
  BY <1>1, Orderly, Accounted, PTL

(* However many runs and deletions there are, the persister writes the     *)
(* reply of a run once, and after its end (INV-07).                        *)
THEOREM AnsweredOnce == Spec => []AnswersOnce
<1>1. IInv /\ Content => AnswersOnce
  BY ContentSays
<1>2. QED
  BY <1>1, Orderly, Accounted, PTL

-----------------------------------------------------------------------------
(* What the index says.                                                    *)

Lists(c) == Asks(c, {"list"})
InQueue(c) == pc[c] \in {"indexing", "rebuilding", "marked"}

(* The index queue holds those that are at the index, each once.           *)
QueueIsWho ==
    /\ IsInjective(indexLine)
    /\ \A c \in Callers : InQueue(c) <=> c \in Range(indexLine)

MarkedIsDirty == \A c \in Callers : pc[c] = "marked" /\ ~Lists(c) => index.dirty

(* What a deleteMessage wrote is still there when it gets to the index.    *)
GapIsCurrent == ~skewed => \A c \in Callers : pc[c] = "tidying" => copy[c] = file

(* Some deleteMessage has written and is not in the queue yet.             *)
Owed ==
    \E c \in Callers :
        Asks(c, {"deleteMessage"}) /\ pc[c] \in {"tidying", "requeued", "unlinking"}

LastUpdate(i) ==
    ~Lists(indexLine[i]) /\ \A j \in DOMAIN indexLine : j > i => Lists(indexLine[j])
OnlyLists == \A i \in DOMAIN indexLine : Lists(indexLine[i])

(* The file and the index meet in the queue: the last update in it brings  *)
(* what the file says, and when none is left the index says so already, or *)
(* is dirty; a rebuild in progress has then read no less.                  *)
Told ==
    ~skewed /\ (Owed => file = None) =>
        /\ \A i \in DOMAIN indexLine : LastUpdate(i) => copy[indexLine[i]] = file
        /\ OnlyLists => /\ index.dirty \/ index.entry = Summary(file)
                        /\ \A c \in Callers : pc[c] = "marked" => copy[c] = file

Indexed == QueueIsWho /\ MarkedIsDirty /\ GapIsCurrent /\ Told

LEMMA ListsStands ==
  ASSUME UNCHANGED kind
  PROVE  \A c \in Callers : Lists(c)' <=> Lists(c)
BY AsksStands DEF Lists

LEMMA IndexLineIs ==
  ASSUME IInv
  PROVE  /\ indexLine \in Seq(Callers) /\ Len(indexLine) \in Nat
         /\ DOMAIN indexLine = 1..Len(indexLine)
         /\ \A i \in DOMAIN indexLine : indexLine[i] \in Callers
<1>1. indexLine \in Seq(Callers)
  BY DEF IInv, TypeOK
<1>2. QED
  BY <1>1, LenProperties, ElementOfSeq

LEMMA JoiningIs ==
  ASSUME IInv, NEW c \in Callers, indexLine' = Append(indexLine, c)
  PROVE  /\ DOMAIN indexLine' = 1..(Len(indexLine) + 1)
         /\ \A i \in DOMAIN indexLine : i \in DOMAIN indexLine' /\ indexLine'[i] = indexLine[i]
         /\ indexLine'[Len(indexLine) + 1] = c
         /\ \A i \in DOMAIN indexLine' : i \in DOMAIN indexLine \/ i = Len(indexLine) + 1
<1>1. /\ indexLine \in Seq(Callers) /\ Len(indexLine) \in Nat
      /\ DOMAIN indexLine = 1..Len(indexLine)
  BY IndexLineIs
<1>2. /\ indexLine' \in Seq(Callers) /\ Len(indexLine') = Len(indexLine) + 1
      /\ \A i \in 1..Len(indexLine) : indexLine'[i] = indexLine[i]
      /\ indexLine'[Len(indexLine) + 1] = c
  BY <1>1, AppendProperties
<1>3. DOMAIN indexLine' = 1..(Len(indexLine) + 1)
  BY <1>2, LenProperties
<1>4. QED
  BY <1>1, <1>2, <1>3

LEMMA LeavingIs ==
  ASSUME IInv, NEW c \in Callers, AtIndex(c), indexLine' = Tail(indexLine)
  PROVE  /\ 1 \in DOMAIN indexLine /\ indexLine[1] = c
         /\ \A i \in DOMAIN indexLine' :
                /\ i \in Nat /\ i + 1 \in DOMAIN indexLine /\ i + 1 # 1
                /\ indexLine'[i] = indexLine[i + 1]
         /\ \A i \in DOMAIN indexLine :
                /\ i \in Nat
                /\ i = 1 \/ (i - 1 \in DOMAIN indexLine' /\ indexLine'[i - 1] = indexLine[i])
<1>1. /\ indexLine \in Seq(Callers) /\ indexLine # << >> /\ Head(indexLine) = c
      /\ DOMAIN indexLine = 1..Len(indexLine)
  BY IndexLineIs DEF AtIndex
<1>2. /\ Len(indexLine) \in Nat \ {0} /\ Head(indexLine) = indexLine[1]
      /\ indexLine' \in Seq(Callers) /\ Len(indexLine') = Len(indexLine) - 1
      /\ \A i \in 1..Len(indexLine') : indexLine'[i] = indexLine[i + 1]
  BY <1>1, EmptySeq, HeadTailProperties
<1>3. DOMAIN indexLine' = 1..(Len(indexLine) - 1)
  BY <1>2, LenProperties
<1>4. QED
  BY <1>1, <1>2, <1>3

-----------------------------------------------------------------------------
(* The four ways in which a step can touch the queue.                      *)

OthersStay(c) == \A d \in Callers : d # c => pc'[d] = pc[d]
Joins(c) ==
    /\ indexLine' = Append(indexLine, c)
    /\ ~InQueue(c) /\ InQueue(c)' /\ pc'[c] # "marked"
    /\ OthersStay(c)
Queues(c) == List(c) \/ WriteAndHold(c) \/ Rename(c) \/ Tidy(c) \/ Unlink(c)
Begins(c) ==
    /\ AtIndex(c) /\ UNCHANGED indexLine
    /\ InQueue(c) /\ pc[c] # "marked" /\ pc'[c] = "marked"
    /\ OthersStay(c)
Leaves(c) ==
    /\ AtIndex(c) /\ indexLine' = Tail(indexLine)
    /\ InQueue(c) /\ ~InQueue(c)'
    /\ OthersStay(c)
NobodyMoves ==
    /\ UNCHANGED <<indexLine, index>>
    /\ \A d \in Callers : (InQueue(d)' <=> InQueue(d)) /\ (InQueue(d) => pc'[d] = pc[d])

(* A caller that moves elsewhere.                                          *)
LEMMA Elsewhere ==
  ASSUME IInv, NEW c \in Callers, NEW phase \in Phases \ {"indexing", "rebuilding", "marked"},
         Go(c, phase), ~InQueue(c), UNCHANGED <<indexLine, index>>
  PROVE  NobodyMoves
BY Moved DEF NobodyMoves, InQueue

LEMMA QueueSteps ==
  ASSUME IInv, Roles, [ServiceNext]_serviceVars
  PROVE  \/ NobodyMoves
         \/ \E c \in Callers :
               \/ Joins(c) /\ Queues(c) /\ UNCHANGED index
               \/ Begins(c) /\ (MarkDirty(c) \/ Scan(c))
               \/ Leaves(c) /\ (WriteIndex(c) \/ IndexFails(c))
<1> DEFINE Goal == \/ NobodyMoves
                   \/ \E c \in Callers :
                         \/ Joins(c) /\ Queues(c) /\ UNCHANGED index
                         \/ Begins(c) /\ (MarkDirty(c) \/ Scan(c))
                         \/ Leaves(c) /\ (WriteIndex(c) \/ IndexFails(c))
<1> USE DEF Phases, Waiting, InsideLock, Ready, Over
<1> SUFFICES Goal
  OBVIOUS
<1>1. ASSUME NEW r \in Requests, Arrive(r) PROVE NobodyMoves
  <2>1. R(r) \in Callers /\ ~InQueue(R(r)) /\ UNCHANGED <<indexLine, index>>
    BY <1>1, CallersAre DEF Arrive, InQueue, disk
  <2>2. PICK phase \in {"listing", "queued"} : Go(R(r), phase)
    BY <1>1 DEF Arrive
  <2>3. QED
    BY <2>1, <2>2, Elsewhere
<1>2. ASSUME NEW r \in Requests, EndRun(r) PROVE NobodyMoves
  <2>1. P(r) \in Callers /\ ~InQueue(P(r))
    BY <1>2, CallersAre DEF EndRun, IInv, Followed, InQueue
  <2>2. Go(P(r), "queued") /\ UNCHANGED <<indexLine, index>>
    BY <1>2 DEF EndRun, disk
  <2>3. QED
    BY <2>1, <2>2, Elsewhere
<1>3. ASSUME NEW r \in Requests, Land(r) PROVE NobodyMoves
  BY <1>3 DEF Land, lines, NobodyMoves, InQueue
<1>4. ASSUME NEW c \in Callers, Step(c) PROVE Goal
  <2>1. ASSUME NEW phase \in {"indexing", "rebuilding"}, Go(c, phase), ~InQueue(c),
               indexLine' = Append(indexLine, c), UNCHANGED index, Queues(c)
        PROVE  Goal
    <3>1. pc'[c] = phase /\ OthersStay(c)
      BY <2>1, Moved DEF OthersStay
    <3>2. Joins(c)
      BY <2>1, <3>1 DEF Joins, InQueue
    <3>3. QED
      BY <2>1, <3>2
  <2>2. CASE List(c)
    BY <2>1, <2>2 DEF List, InQueue, disk, Queues
  <2>3. CASE WriteAndHold(c) \/ Rename(c)
    BY <2>1, <2>3 DEF WriteAndHold, Rename, JoinIndex, Store, InQueue, Queues
  <2>4. CASE Tidy(c) /\ copy[c].messages # << >>
    BY <2>1, <2>4 DEF Tidy, JoinIndex, InQueue, disk, Queues
  <2>5. CASE Unlink(c)
    BY <2>1, <2>5 DEF Unlink, JoinIndex, InQueue, Queues
  <2>6. CASE MarkDirty(c) \/ Scan(c)
    <3>1. Go(c, "marked") /\ AtIndex(c) /\ UNCHANGED indexLine /\ pc[c] \in {"indexing", "rebuilding"}
      BY <2>6 DEF MarkDirty, Scan, lines
    <3>2. pc'[c] = "marked" /\ OthersStay(c)
      BY <3>1, Moved DEF OthersStay
    <3>3. Begins(c)
      BY <3>1, <3>2 DEF Begins, InQueue
    <3>4. QED
      BY <2>6, <3>3
  <2>7. CASE WriteIndex(c)
    <3>1. PICK phase \in {"filing", "answered"} : Go(c, phase)
      BY <2>7 DEF WriteIndex
    <3>2. pc[c] = "marked" /\ AtIndex(c) /\ indexLine' = Tail(indexLine)
      BY <2>7 DEF WriteIndex, AtIndex, IInv, MarkedLeads
    <3>3. pc'[c] = phase /\ OthersStay(c)
      BY <3>1, Moved DEF OthersStay
    <3>4. Leaves(c)
      BY <3>2, <3>3 DEF Leaves, InQueue
    <3>5. QED
      BY <2>7, <3>4
  <2>8. CASE IndexFails(c)
    <3>1. PICK phase \in {"finishing", "refused"} : Go(c, phase)
      BY <2>8 DEF IndexFails, Abandon
    <3>2. AtIndex(c) /\ indexLine' = Tail(indexLine) /\ InQueue(c)
      BY <2>8 DEF IndexFails, InQueue
    <3>3. pc'[c] = phase /\ OthersStay(c)
      BY <3>1, Moved DEF OthersStay
    <3>4. Leaves(c)
      BY <3>2, <3>3 DEF Leaves, InQueue
    <3>5. QED
      BY <2>8, <3>4
  <2>9. CASE Refuse(c) \/ FileFails(c)
    <3>1. PICK phase \in {"finishing", "refused"} : Go(c, phase)
      BY <2>9 DEF Refuse, FileFails, Abandon
    <3>2. ~InQueue(c) /\ UNCHANGED <<indexLine, index>>
      BY <2>9 DEF Refuse, FileFails, InQueue, disk
    <3>3. QED
      BY <3>1, <3>2, Elsewhere
  <2>10. CASE Enter(c)
    <3>1. PICK phase \in {"refusing", "unlinking", "reading"} : Go(c, phase)
      BY <2>10 DEF Enter
    <3>2. ~InQueue(c) /\ UNCHANGED <<indexLine, index>>
      BY <2>10 DEF Enter, InQueue, disk
    <3>3. QED
      BY <3>1, <3>2, Elsewhere
  <2>11. CASE Load(c)
    <3>1. Go(c, "writing") /\ ~InQueue(c) /\ UNCHANGED <<indexLine, index>>
      BY <2>11 DEF Load, InQueue, disk, lines
    <3>2. QED
      BY <3>1, Elsewhere
  <2>12. CASE DeletePair(c)
    <3>1. Go(c, "tidying") /\ ~InQueue(c) /\ UNCHANGED <<indexLine, index>>
      BY <2>12 DEF DeletePair, Store, InQueue
    <3>2. QED
      BY <3>1, Elsewhere
  <2>13. CASE Tidy(c) /\ copy[c].messages = << >>
    <3>1. Go(c, "requeued") /\ ~InQueue(c) /\ UNCHANGED <<indexLine, index>>
      BY <2>13 DEF Tidy, InQueue, disk
    <3>2. QED
      BY <3>1, Elsewhere
  <2>14. CASE File(c)
    <3>1. PICK phase \in {"finishing", "launching"} : Go(c, phase)
      BY <2>14 DEF File
    <3>2. ~InQueue(c) /\ UNCHANGED <<indexLine, index>>
      BY <2>14 DEF File, InQueue
    <3>3. QED
      BY <3>1, <3>2, Elsewhere
  <2>15. CASE Launch(c)
    <3>1. /\ pc[c] = "launching" /\ c[1] \in Requests
          /\ P(c[1]) \in Callers /\ c = R(c[1]) /\ P(c[1]) # c
      BY <2>15, CallersAre, CallerKinds DEF Launch, IInv, Followed
    <3>2. pc[P(c[1])] = "idle"
      BY <3>1 DEF IInv, Followed
    <3>3. /\ pc' = [pc EXCEPT ![c] = "answered", ![P(c[1])] = "watching"]
          /\ UNCHANGED <<indexLine, index>>
      BY <2>15 DEF Launch, lines, disk
    <3>4. /\ pc'[c] = "answered" /\ pc'[P(c[1])] = "watching"
          /\ \A d \in Callers : d # c /\ d # P(c[1]) => pc'[d] = pc[d]
      BY <3>1, <3>3 DEF IInv, TypeOK
    <3>5. NobodyMoves
      BY <3>1, <3>2, <3>3, <3>4 DEF NobodyMoves, InQueue
    <3>6. QED
      BY <3>5
  <2>16. CASE Finish(c)
    <3>1. Go(c, "answered") /\ ~InQueue(c) /\ UNCHANGED <<indexLine, index>>
      BY <2>16 DEF Finish, InQueue, disk, lines
    <3>2. QED
      BY <3>1, Elsewhere
  <2>17. QED
    BY <1>4, <2>2, <2>3, <2>4, <2>5, <2>6, <2>7, <2>8, <2>9, <2>10, <2>11, <2>12, <2>13,
       <2>14, <2>15, <2>16 DEF Step
<1>5. CASE UNCHANGED serviceVars
  BY <1>5 DEF serviceVars, lines, disk, NobodyMoves, InQueue
<1>6. QED
  BY <1>1, <1>2, <1>3, <1>4, <1>5 DEF ServiceNext, Onward

LEMMA QueuePreserved == IInv /\ Roles /\ QueueIsWho /\ [ServiceNext]_serviceVars => QueueIsWho'
<1> SUFFICES ASSUME IInv, Roles, QueueIsWho, [ServiceNext]_serviceVars PROVE QueueIsWho'
  OBVIOUS
<1>1. indexLine \in Seq(Callers)
  BY IndexLineIs
<1>2. CASE NobodyMoves
  BY <1>2 DEF NobodyMoves, QueueIsWho
<1>3. ASSUME NEW c \in Callers, Joins(c) PROVE QueueIsWho'
  <2>1. c \notin Range(indexLine)
    BY <1>3 DEF Joins, QueueIsWho
  <2>2. Range(indexLine') = Range(indexLine) \union {c} /\ IsInjective(indexLine')
    BY <1>1, <1>3, <2>1, AppendFresh DEF Joins, QueueIsWho
  <2>3. QED
    BY <1>3, <2>2 DEF Joins, QueueIsWho, InQueue, OthersStay
<1>4. ASSUME NEW c \in Callers, Begins(c) PROVE QueueIsWho'
  BY <1>4 DEF Begins, QueueIsWho, InQueue, OthersStay
<1>5. ASSUME NEW c \in Callers, Leaves(c) PROVE QueueIsWho'
  <2>1. Range(indexLine') = Range(indexLine) \ {c} /\ IsInjective(indexLine')
    BY <1>1, <1>5, TailLeaves DEF Leaves, QueueIsWho, AtIndex
  <2>2. QED
    BY <1>5, <2>1 DEF Leaves, QueueIsWho, InQueue, OthersStay
<1>6. QED
  BY <1>2, <1>3, <1>4, <1>5, QueueSteps

LEMMA DirtyPreserved == IInv /\ Roles /\ MarkedIsDirty /\ [ServiceNext]_serviceVars => MarkedIsDirty'
<1> SUFFICES ASSUME IInv, Roles, MarkedIsDirty, [ServiceNext]_serviceVars,
                    NEW d \in Callers, pc'[d] = "marked", ~Lists(d)
             PROVE  index'.dirty
  BY KindFixed, ListsStands DEF MarkedIsDirty
<1>1. CASE NobodyMoves
  BY <1>1 DEF NobodyMoves, InQueue, MarkedIsDirty
<1>2. ASSUME NEW c \in Callers, Joins(c), UNCHANGED index PROVE index'.dirty
  BY <1>2 DEF Joins, OthersStay, MarkedIsDirty
<1>3. ASSUME NEW c \in Callers, Begins(c), MarkDirty(c) \/ Scan(c) PROVE index'.dirty
  <2>1. d = c
    BY <1>3 DEF Begins, OthersStay, AtIndex, IInv, MarkedLeads
  <2>2. MarkDirty(c)
    BY <1>3, <2>1 DEF Scan, Roles, Lists
  <2>3. QED
    BY <2>2 DEF MarkDirty
<1>4. ASSUME NEW c \in Callers, Leaves(c) PROVE FALSE
  BY <1>4 DEF Leaves, OthersStay, InQueue, AtIndex, IInv, MarkedLeads
<1>5. QED
  BY <1>1, <1>2, <1>3, <1>4, QueueSteps

-----------------------------------------------------------------------------
(* Copies, and updates that are overtaken.                                 *)

LEMMA OwnCopy ==
  ASSUME IInv, [ServiceNext]_serviceVars, NEW d \in Callers, pc'[d] = pc[d]
  PROVE  copy'[d] = copy[d]
<1> USE DEF Phases, Waiting, InsideLock, Ready, Over
<1>1. ASSUME NEW c \in Callers, NEW phase \in Phases, Go(c, phase), phase # pc[c],
             NEW x, copy' = [copy EXCEPT ![c] = x]
      PROVE  copy'[d] = copy[d]
  BY <1>1, Moved DEF IInv, TypeOK
<1>2. ASSUME NEW c \in Callers, Abandon(c), pc[c] \notin {"finishing", "refused"}
      PROVE  copy'[d] = copy[d]
  <2>1. PICK phase \in {"finishing", "refused"} : Go(c, phase)
    BY <1>2 DEF Abandon
  <2>2. QED
    BY <1>1, <1>2, <2>1 DEF Abandon
<1>3. ASSUME NEW c \in Callers, Refuse(c) \/ IndexFails(c) \/ FileFails(c) PROVE copy'[d] = copy[d]
  BY <1>2, <1>3 DEF Refuse, IndexFails, FileFails
<1>4. ASSUME NEW c \in Callers, Load(c) PROVE copy'[d] = copy[d]
  BY <1>1, <1>4 DEF Load
<1>5. ASSUME NEW c \in Callers, WriteAndHold(c) \/ Rename(c) PROVE copy'[d] = copy[d]
  BY <1>1, <1>5 DEF WriteAndHold, Rename, Store, JoinIndex
<1>6. ASSUME NEW c \in Callers, DeletePair(c) PROVE copy'[d] = copy[d]
  BY <1>1, <1>6 DEF DeletePair, Store
<1>7. ASSUME NEW c \in Callers, Unlink(c) PROVE copy'[d] = copy[d]
  BY <1>1, <1>7 DEF Unlink, JoinIndex
<1>8. ASSUME NEW c \in Callers, Scan(c) PROVE copy'[d] = copy[d]
  BY <1>1, <1>8 DEF Scan
<1>9. ASSUME NEW c \in Callers, WriteIndex(c) PROVE copy'[d] = copy[d]
  BY <1>1, <1>9 DEF WriteIndex
<1>10. ASSUME NEW c \in Callers, File(c) PROVE copy'[d] = copy[d]
  BY <1>1, <1>10 DEF File
<1>11. ASSUME NEW c \in Callers,
              List(c) \/ Enter(c) \/ Tidy(c) \/ MarkDirty(c) \/ Launch(c) \/ Finish(c)
       PROVE  copy'[d] = copy[d]
  BY <1>11 DEF List, Enter, Tidy, MarkDirty, Launch, Finish
<1>12. ASSUME NEW r \in Requests, Arrive(r) \/ EndRun(r) \/ Land(r) PROVE copy'[d] = copy[d]
  BY <1>12 DEF Arrive, EndRun, Land
<1>13. CASE UNCHANGED serviceVars
  BY <1>13 DEF serviceVars
<1>14. QED
  BY <1>3, <1>4, <1>5, <1>6, <1>7, <1>8, <1>9, <1>10, <1>11, <1>12, <1>13
     DEF ServiceNext, Onward, Step

LEMMA SkewedStays == [ServiceNext]_serviceVars /\ skewed => skewed'
BY DEF ServiceNext, Onward, Step, serviceVars, history, Arrive, EndRun, Land, List, Enter, Refuse,
   Load, WriteAndHold, Rename, DeletePair, Tidy, Unlink, MarkDirty, Scan, WriteIndex, IndexFails,
   File, FileFails, Launch, Finish, Store

LEMMA Overtaken ==
  ASSUME NEW c \in Callers, WriteAndHold(c) \/ Rename(c) \/ DeletePair(c) \/ Unlink(c), ~skewed'
  PROVE  \A d \in Callers : d # c => ~InTheGap(d)
BY DEF WriteAndHold, Rename, DeletePair, Unlink, Store

LEMMA GapPreserved == IInv /\ Roles /\ GapIsCurrent /\ [ServiceNext]_serviceVars => GapIsCurrent'
<1> SUFFICES ASSUME IInv, Roles, GapIsCurrent, [ServiceNext]_serviceVars, ~skewed',
                    NEW d \in Callers, pc'[d] = "tidying"
             PROVE  copy'[d] = file'
  BY DEF GapIsCurrent
<1>1. ~skewed
  BY SkewedStays
<1>2. CASE pc[d] = "tidying"
  <2>1. copy'[d] = copy[d] /\ copy[d] = file
    BY <1>1, <1>2, OwnCopy DEF GapIsCurrent
  <2>2. InTheGap(d)
    BY <1>2 DEF InTheGap, Roles
  <2>3. ASSUME NEW c \in Callers, WriteAndHold(c) \/ Rename(c) \/ DeletePair(c) \/ Unlink(c)
        PROVE  FALSE
    <3>1. c # d
      BY <1>2, <2>3 DEF WriteAndHold, Rename, DeletePair, Unlink
    <3>2. QED
      BY <2>2, <2>3, <3>1, Overtaken
  <2>4. file' = file
    BY <2>3, FileSteps
  <2>5. QED
    BY <2>1, <2>4
<1>3. CASE pc[d] # "tidying"
  <2>1. DeletePair(d)
    BY <1>3, Turns DEF Onwards, GivesUp, Ready
  <2>2. QED
    BY <2>1 DEF DeletePair, Store, IInv, TypeOK
<1>4. QED
  BY <1>2, <1>3

-----------------------------------------------------------------------------
(* Told, step by step.                                                     *)

LEMMA OwedStands ==
  ASSUME UNCHANGED kind, NEW c \in Callers, OthersStay(c),
         pc[c] \notin {"tidying", "requeued", "unlinking"},
         pc'[c] \notin {"tidying", "requeued", "unlinking"}
  PROVE  Owed' <=> Owed
BY AsksStands DEF Owed, OthersStay

(* Whoever owes an update goes on owing it, or gives up without a trace    *)
(* only when there is no file to speak of.                                 *)
LEMMA OwedOn ==
  ASSUME IInv, Roles, [ServiceNext]_serviceVars, NobodyMoves, file' = file, ~skewed', Owed
  PROVE  Owed' \/ file = None
<1>1. PICK c \in Callers :
          Asks(c, {"deleteMessage"}) /\ pc[c] \in {"tidying", "requeued", "unlinking"}
  BY DEF Owed
<1>2. Asks(c, {"deleteMessage"})'
  BY <1>1, KindFixed, AsksStands
<1>3. CASE pc'[c] = pc[c]
  BY <1>1, <1>2, <1>3 DEF Owed
<1>4. CASE Onwards(c)
  <2>1. pc'[c] # "indexing"
    BY <1>1 DEF NobodyMoves, InQueue
  <2>2. pc'[c] \in {"requeued", "unlinking"}
    BY <1>1, <1>4, <2>1 DEF Onwards, Ready
  <2>3. QED
    BY <1>2, <2>2 DEF Owed
<1>5. CASE GivesUp(c)
  <2>1. Refuse(c)
    BY <1>1, <1>5 DEF GivesUp, IndexFails, FileFails
  <2>2. pc[c] \in {"tidying", "unlinking"}
    BY <1>1, <2>1 DEF Refuse
  <2>3. file = None
    BY <1>1, <2>1, <2>2 DEF Refuse
  <2>4. QED
    BY <2>3
<1>6. QED
  BY <1>3, <1>4, <1>5, Turns

(* Nobody touches the queue: the file stands too, or a deleteMessage has   *)
(* just written and owes the index its update.                             *)
LEMMA ToldUntouched ==
  ASSUME IInv, Roles, QueueIsWho, Told, [ServiceNext]_serviceVars, NobodyMoves
  PROVE  Told'
<1> SUFFICES ASSUME ~skewed', Owed' => file' = None
             PROVE  /\ \A i \in DOMAIN indexLine' :
                           LastUpdate(i)' => copy'[indexLine'[i]] = file'
                    /\ OnlyLists' =>
                           /\ index'.dirty \/ index'.entry = Summary(file')
                           /\ \A c \in Callers : pc'[c] = "marked" => copy'[c] = file'
  BY DEF Told, Summary
<1>1. UNCHANGED <<indexLine, index, kind>> /\ ~skewed
  BY KindFixed, SkewedStays DEF NobodyMoves
<1>2. \A c \in Callers : InQueue(c) => pc'[c] = pc[c] /\ copy'[c] = copy[c]
  BY OwnCopy DEF NobodyMoves
<1>3. file' = file
  <2>1. ASSUME NEW c \in Callers, WriteAndHold(c) \/ Rename(c) \/ Unlink(c) PROVE FALSE
    <3>1. indexLine' = Append(indexLine, c)
      BY <2>1 DEF WriteAndHold, Rename, Unlink, JoinIndex
    <3>2. DOMAIN indexLine' = 1..(Len(indexLine) + 1) /\ DOMAIN indexLine = 1..Len(indexLine)
          /\ Len(indexLine) \in Nat
      BY <3>1, JoiningIs, IndexLineIs
    <3>3. QED
      BY <1>1, <3>2
  <2>2. ASSUME NEW c \in Callers, DeletePair(c) PROVE FALSE
    <3>1. Asks(c, {"deleteMessage"})' /\ file' \in Conversation /\ pc'[c] = "tidying"
      BY <1>1, <2>2, AsksStands, Writing DEF DeletePair, Go, IInv, TypeOK
    <3>2. file' # None /\ Owed'
      BY <3>1, MessagesOf DEF Owed
    <3>3. QED
      BY <3>2
  <2>3. QED
    BY <2>1, <2>2, FileSteps
<1>4. Owed => file = None
  BY <1>3, OwedOn
<1>5. /\ \A i \in DOMAIN indexLine : LastUpdate(i) => copy[indexLine[i]] = file
      /\ OnlyLists => /\ index.dirty \/ index.entry = Summary(file)
                      /\ \A c \in Callers : pc[c] = "marked" => copy[c] = file
  BY <1>1, <1>4 DEF Told
<1>6. /\ \A i \in DOMAIN indexLine : indexLine[i] \in Callers /\ (LastUpdate(i)' <=> LastUpdate(i))
      /\ OnlyLists' <=> OnlyLists
  BY <1>1, IndexLineIs, ListsStands DEF LastUpdate, OnlyLists
<1>7. \A i \in DOMAIN indexLine : InQueue(indexLine[i])
  BY <1>6 DEF QueueIsWho, Range
<1>8. \A i \in DOMAIN indexLine' : LastUpdate(i)' => copy'[indexLine'[i]] = file'
  BY <1>1, <1>2, <1>3, <1>5, <1>6, <1>7
<1>9. \A c \in Callers : pc'[c] = "marked" => pc[c] = "marked" /\ copy'[c] = copy[c]
  BY <1>2 DEF NobodyMoves, InQueue
<1>10. QED
  BY <1>1, <1>3, <1>5, <1>6, <1>8, <1>9

(* An update joins, with what the file says: it is the last one.           *)
LEMMA ToldByUpdate ==
  ASSUME IInv, NEW c \in Callers, indexLine' = Append(indexLine, c), UNCHANGED kind, ~Lists(c),
         ~skewed' => copy'[c] = file'
  PROVE  Told'
<1> SUFFICES ASSUME ~skewed'
             PROVE  /\ \A i \in DOMAIN indexLine' :
                           LastUpdate(i)' => copy'[indexLine'[i]] = file'
                    /\ ~OnlyLists'
  BY DEF Told
<1>1. /\ Len(indexLine) + 1 \in DOMAIN indexLine' /\ indexLine'[Len(indexLine) + 1] = c
      /\ \A i \in DOMAIN indexLine' : i = Len(indexLine) + 1 \/ Len(indexLine) + 1 > i
  <2>1. DOMAIN indexLine' = 1..(Len(indexLine) + 1) /\ Len(indexLine) \in Nat
    BY JoiningIs, IndexLineIs
  <2>2. indexLine'[Len(indexLine) + 1] = c
    BY JoiningIs
  <2>3. QED
    BY <2>1, <2>2
<1>2. ~Lists(c)'
  BY ListsStands
<1>3. ~OnlyLists'
  BY <1>1, <1>2 DEF OnlyLists
<1>4. ASSUME NEW i \in DOMAIN indexLine', LastUpdate(i)' PROVE i = Len(indexLine) + 1
  BY <1>1, <1>2, <1>4 DEF LastUpdate
<1>5. QED
  BY <1>1, <1>3, <1>4

LEMMA ToldByJoin ==
  ASSUME IInv, Roles, QueueIsWho, GapIsCurrent, Told, [ServiceNext]_serviceVars,
         NEW c \in Callers, Joins(c), Queues(c), UNCHANGED index
  PROVE  Told'
<1>1. indexLine' = Append(indexLine, c) /\ UNCHANGED kind
  BY KindFixed DEF Joins
<1>2. CASE WriteAndHold(c) \/ Rename(c) \/ Unlink(c)
  <2>1. ~Lists(c)
    BY <1>2 DEF WriteAndHold, Rename, Unlink, Roles, Lists, Over
  <2>2. copy'[c] = file'
    BY <1>2 DEF WriteAndHold, Rename, Unlink, Store, IInv, TypeOK
  <2>3. QED
    BY <1>1, <2>1, <2>2, ToldByUpdate
<1>3. CASE Tidy(c)
  <2>1. pc[c] = "tidying" /\ UNCHANGED <<file, copy, skewed>>
    BY <1>3 DEF Tidy, disk, history
  <2>2. ~Lists(c)
    BY <2>1 DEF Roles, Lists, Over
  <2>3. ~skewed' => copy'[c] = file'
    BY <2>1 DEF GapIsCurrent
  <2>4. QED
    BY <1>1, <2>2, <2>3, ToldByUpdate
<1>4. CASE List(c)
  <2>1. /\ pc[c] = "listing" /\ pc'[c] = "rebuilding" /\ UNCHANGED <<file, copy, skewed>>
        /\ OthersStay(c)
    BY <1>4 DEF List, disk, history, Go, IInv, TypeOK, Joins
  <2>2. Lists(c) /\ Lists(c)' /\ (Owed' <=> Owed)
    BY <1>1, <2>1, ListsStands, OwedStands DEF Roles, Lists
  <2>3. /\ Len(indexLine) \in Nat /\ DOMAIN indexLine = 1..Len(indexLine)
        /\ indexLine'[Len(indexLine) + 1] = c
        /\ \A i \in DOMAIN indexLine : /\ i \in DOMAIN indexLine'
                                       /\ indexLine'[i] = indexLine[i]
                                       /\ indexLine[i] \in Callers
        /\ \A i \in DOMAIN indexLine' : i \in DOMAIN indexLine \/ i = Len(indexLine) + 1
    BY <1>1, IndexLineIs, JoiningIs
  <2>4. \A i \in DOMAIN indexLine : Lists(indexLine[i])' <=> Lists(indexLine[i])
    BY <1>1, <2>3 DEF Lists, Asks, IsRequest
  <2>5. \A i \in DOMAIN indexLine' : LastUpdate(i)' => i \in DOMAIN indexLine /\ LastUpdate(i)
    BY <2>2, <2>3, <2>4 DEF LastUpdate
  <2>6. OnlyLists' => OnlyLists
    BY <2>3, <2>4 DEF OnlyLists
  <2>7. \A d \in Callers : pc'[d] = "marked" => pc[d] = "marked"
    BY <2>1 DEF OthersStay
  <2> SUFFICES ASSUME ~skewed', Owed' => file' = None
               PROVE  /\ \A i \in DOMAIN indexLine' :
                             LastUpdate(i)' => copy'[indexLine'[i]] = file'
                      /\ OnlyLists' =>
                             /\ index'.dirty \/ index'.entry = Summary(file')
                             /\ \A d \in Callers : pc'[d] = "marked" => copy'[d] = file'
    BY DEF Told, Summary
  <2>8. /\ \A i \in DOMAIN indexLine : LastUpdate(i) => copy[indexLine[i]] = file
        /\ OnlyLists => /\ index.dirty \/ index.entry = Summary(file)
                        /\ \A d \in Callers : pc[d] = "marked" => copy[d] = file
    BY <2>1, <2>2 DEF Told
  <2>9. QED
    BY <2>1, <2>3, <2>5, <2>6, <2>7, <2>8
<1>5. QED
  BY <1>2, <1>3, <1>4 DEF Queues

(* The head of the queue sets about it.                                    *)
LEMMA ToldByBeginning ==
  ASSUME IInv, Roles, QueueIsWho, Told, [ServiceNext]_serviceVars,
         NEW c \in Callers, Begins(c), MarkDirty(c) \/ Scan(c)
  PROVE  Told'
<1>1. /\ UNCHANGED <<indexLine, file, skewed, kind>> /\ OthersStay(c) /\ pc'[c] = "marked"
      /\ pc[c] \in {"indexing", "rebuilding"}
      /\ indexLine # << >> /\ Head(indexLine) = c
  BY KindFixed DEF Begins, MarkDirty, Scan, disk, history, AtIndex
<1>2. Owed' <=> Owed
  BY <1>1, OwedStands
<1>3. \A d \in Callers : pc'[d] = "marked" => d = c
  BY <1>1 DEF OthersStay, IInv, MarkedLeads
<1>4. /\ \A i \in DOMAIN indexLine : indexLine[i] \in Callers /\ (LastUpdate(i)' <=> LastUpdate(i))
      /\ OnlyLists' <=> OnlyLists
      /\ 1 \in DOMAIN indexLine /\ indexLine[1] = c
  <2>1. 1 \in DOMAIN indexLine /\ indexLine[1] = c
    BY <1>1, IndexLineIs, EmptySeq
  <2>2. QED
    BY <1>1, <2>1, IndexLineIs, ListsStands DEF LastUpdate, OnlyLists
<1> SUFFICES ASSUME ~skewed', Owed' => file' = None
             PROVE  /\ \A i \in DOMAIN indexLine' :
                           LastUpdate(i)' => copy'[indexLine'[i]] = file'
                    /\ OnlyLists' =>
                           /\ index'.dirty \/ index'.entry = Summary(file')
                           /\ \A d \in Callers : pc'[d] = "marked" => copy'[d] = file'
  BY DEF Told, Summary
<1>5. /\ \A i \in DOMAIN indexLine : LastUpdate(i) => copy[indexLine[i]] = file
      /\ OnlyLists => index.dirty \/ index.entry = Summary(file)
  BY <1>1, <1>2 DEF Told
<1>6. CASE MarkDirty(c)
  <2>1. ~Lists(c) /\ UNCHANGED copy
    BY <1>6 DEF MarkDirty, Roles, Lists, Over
  <2>2. ~OnlyLists
    BY <1>4, <2>1 DEF OnlyLists
  <2>3. QED
    BY <1>1, <1>4, <1>5, <2>1, <2>2
<1>7. CASE Scan(c)
  <2>1. Lists(c) /\ UNCHANGED index /\ copy' = [copy EXCEPT ![c] = file]
    BY <1>7 DEF Scan, Roles, Lists, disk
  <2>2. copy'[c] = file /\ \A d \in Callers : d # c => copy'[d] = copy[d]
    BY <2>1 DEF IInv, TypeOK
  <2>3. \A i \in DOMAIN indexLine : LastUpdate(i) => indexLine[i] # c
    BY <2>1 DEF LastUpdate
  <2>4. QED
    BY <1>1, <1>3, <1>4, <1>5, <2>1, <2>2, <2>3
<1>8. QED
  BY <1>6, <1>7

(* The head of the queue is done: if it was the last update, or a rebuild  *)
(* with none behind it, it brought what the file says.                     *)
LEMMA ToldByLeaving ==
  ASSUME IInv, Roles, QueueIsWho, MarkedIsDirty, Told, [ServiceNext]_serviceVars,
         NEW c \in Callers, Leaves(c), WriteIndex(c) \/ IndexFails(c)
  PROVE  Told'
<1> SUFFICES ASSUME ~skewed', Owed' => file' = None
             PROVE  /\ \A i \in DOMAIN indexLine' :
                           LastUpdate(i)' => copy'[indexLine'[i]] = file'
                    /\ OnlyLists' =>
                           /\ index'.dirty \/ index'.entry = Summary(file')
                           /\ \A d \in Callers : pc'[d] = "marked" => copy'[d] = file'
  BY DEF Told, Summary
<1>1. /\ UNCHANGED <<file, kind>> /\ ~skewed /\ OthersStay(c)
      /\ InQueue(c) /\ ~InQueue(c)' /\ AtIndex(c) /\ indexLine' = Tail(indexLine)
  BY KindFixed, SkewedStays DEF Leaves, WriteIndex, IndexFails, disk
<1>2. Owed' <=> Owed
  <2>1. pc'[c] \in {"filing", "answered", "finishing", "refused"}
    <3>1. PICK phase \in {"filing", "answered", "finishing", "refused"} : Go(c, phase)
      BY DEF WriteIndex, IndexFails, Abandon
    <3>2. QED
      BY <3>1 DEF Go, IInv, TypeOK
  <2>2. QED
    BY <1>1, <2>1, OwedStands DEF InQueue
<1>3. /\ \A i \in DOMAIN indexLine : LastUpdate(i) => copy[indexLine[i]] = file
      /\ OnlyLists => /\ index.dirty \/ index.entry = Summary(file)
                      /\ \A d \in Callers : pc[d] = "marked" => copy[d] = file
  BY <1>1, <1>2 DEF Told
<1>4. /\ 1 \in DOMAIN indexLine /\ indexLine[1] = c
      /\ \A i \in DOMAIN indexLine' :
             /\ i \in Nat /\ i + 1 \in DOMAIN indexLine /\ i + 1 # 1
             /\ indexLine'[i] = indexLine[i + 1] /\ indexLine[i + 1] \in Callers
      /\ \A i \in DOMAIN indexLine :
             /\ i \in Nat
             /\ i = 1 \/ (i - 1 \in DOMAIN indexLine' /\ indexLine'[i - 1] = indexLine[i])
  BY <1>1, LeavingIs, IndexLineIs
<1>5. \A i \in DOMAIN indexLine' : Lists(indexLine[i])' <=> Lists(indexLine[i + 1])
  BY <1>1, <1>4 DEF Lists, Asks, IsRequest
<1>6. ASSUME NEW i \in DOMAIN indexLine', LastUpdate(i)'
      PROVE  copy'[indexLine'[i]] = file'
  <2>1. ~Lists(indexLine[i + 1])
    BY <1>5, <1>6 DEF LastUpdate
  <2>2. ASSUME NEW j \in DOMAIN indexLine, j > i + 1 PROVE Lists(indexLine[j])
    <3>1. j - 1 \in DOMAIN indexLine' /\ j - 1 > i /\ (j - 1) + 1 = j
      BY <1>4, <2>2
    <3>2. Lists(indexLine[j - 1])'
      BY <1>6, <3>1 DEF LastUpdate
    <3>3. QED
      BY <1>5, <3>1, <3>2
  <2>3. copy[indexLine[i + 1]] = file
    BY <1>3, <1>4, <2>1, <2>2 DEF LastUpdate
  <2>4. indexLine[i + 1] # c
    BY <1>4 DEF QueueIsWho, IsInjective
  <2>5. copy'[indexLine[i + 1]] = copy[indexLine[i + 1]]
    BY <1>1, <1>4, <2>4, OwnCopy DEF OthersStay
  <2>6. QED
    BY <1>1, <1>4, <2>3, <2>5
<1>7. \A d \in Callers : pc'[d] # "marked"
  BY <1>1 DEF OthersStay, InQueue, AtIndex, IInv, MarkedLeads
<1>8. ASSUME OnlyLists' PROVE \A j \in DOMAIN indexLine : j > 1 => Lists(indexLine[j])
  <2>1. SUFFICES ASSUME NEW j \in DOMAIN indexLine, j > 1 PROVE Lists(indexLine[j])
    OBVIOUS
  <2>2. j - 1 \in DOMAIN indexLine' /\ (j - 1) + 1 = j
    BY <1>4, <2>1
  <2>3. QED
    BY <1>5, <1>8, <2>2 DEF OnlyLists
<1>9. ASSUME OnlyLists' PROVE index'.dirty \/ index'.entry = Summary(file')
  <2>1. CASE WriteIndex(c)
    <3>1. pc[c] = "marked" /\ index'.entry = Summary(copy[c])
      BY <2>1 DEF WriteIndex
    <3>2. CASE Lists(c)
      <4>1. OnlyLists
        BY <1>4, <1>8, <1>9, <3>2 DEF OnlyLists
      <4>2. QED
        BY <1>1, <1>3, <3>1, <4>1
    <3>3. CASE ~Lists(c)
      <4>1. LastUpdate(1)
        BY <1>4, <1>8, <1>9, <3>3 DEF LastUpdate
      <4>2. QED
        BY <1>1, <1>3, <1>4, <3>1, <4>1
    <3>4. QED
      BY <3>2, <3>3
  <2>2. CASE IndexFails(c)
    <3>1. UNCHANGED index /\ pc[c] # "indexing" /\ InQueue(c)
      BY <1>1, <2>2 DEF IndexFails, disk
    <3>2. CASE Lists(c)
      <4>1. OnlyLists
        BY <1>4, <1>8, <1>9, <3>2 DEF OnlyLists
      <4>2. QED
        BY <1>1, <1>3, <3>1, <4>1
    <3>3. CASE ~Lists(c)
      <4>1. pc[c] = "marked"
        BY <3>1, <3>3 DEF InQueue, Roles, Lists
      <4>2. QED
        BY <3>1, <3>3, <4>1 DEF MarkedIsDirty
    <3>4. QED
      BY <3>2, <3>3
  <2>3. QED
    BY <2>1, <2>2
<1>10. QED
  BY <1>6, <1>7, <1>9

LEMMA IndexedPreserved == IInv /\ Roles /\ Indexed /\ [ServiceNext]_serviceVars => Indexed'
<1> SUFFICES ASSUME IInv, Roles, Indexed, [ServiceNext]_serviceVars PROVE Indexed'
  OBVIOUS
<1>1. QueueIsWho /\ MarkedIsDirty /\ GapIsCurrent /\ Told
  BY DEF Indexed
<1>2. Told'
  BY <1>1, QueueSteps, ToldUntouched, ToldByJoin, ToldByBeginning, ToldByLeaving
<1>3. QED
  BY <1>1, <1>2, QueuePreserved, DirtyPreserved, GapPreserved DEF Indexed

LEMMA IndexedStarts == Init => Indexed
<1> SUFFICES ASSUME Init PROVE Indexed
  OBVIOUS
<1>1. /\ \A c \in Callers : pc[c] = "idle"
      /\ indexLine = << >> /\ index.entry = Summary(file)
  BY DEF Init
<1>2. DOMAIN indexLine = {}
  BY <1>1
<1>3. QED
  BY <1>1, <1>2 DEF Indexed, QueueIsWho, MarkedIsDirty, GapIsCurrent, Told, InQueue, Range,
     IsInjective

LEMMA IndexedSays == IInv /\ Indexed => IndexFollowsTheFile
<1> SUFFICES ASSUME IInv, Indexed, Quiet, ~skewed
             PROVE  index.dirty \/ index.entry = Summary(file)
  BY DEF IndexFollowsTheFile
<1>1. \A c \in Callers : ~InQueue(c) /\ pc[c] \notin {"tidying", "requeued", "unlinking"}
  BY DEF Quiet, InQueue, Over
<1>2. ~Owed
  BY <1>1 DEF Owed
<1>3. DOMAIN indexLine = {}
  BY <1>1, IndexLineIs DEF Indexed, QueueIsWho, Range
<1>4. QED
  BY <1>2, <1>3 DEF Indexed, Told, OnlyLists

(* The file and the index meet in the queue, whoever writes and lists.     *)
THEOREM MeetInTheQueue == Spec => []Indexed
<1>1. Init => Indexed
  BY IndexedStarts
<1>2. IInv /\ Content /\ Indexed /\ [ServiceNext]_serviceVars => Indexed'
  BY IndexedPreserved DEF Content
<1>3. QED
  BY <1>1, <1>2, Orderly, Accounted, PTL DEF Spec

(* When every caller is done the index says what the file says, or knows   *)
(* that it does not, for any number of writers, deletions and rebuilds     *)
(* that go through the queue; unless a write fell into the gap of a        *)
(* deleteMessage, or the index could not be marked.                        *)
THEOREM IndexFollows == Spec => []IndexFollowsTheFile
<1>1. IInv /\ Indexed => IndexFollowsTheFile
  BY IndexedSays
<1>2. QED
  BY <1>1, Orderly, MeetInTheQueue, PTL

=============================================================================
