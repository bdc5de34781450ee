------------------------ MODULE ConversationService ------------------------
(***************************************************************************)
(* One conversation and everybody who writes to it: the requests of the    *)
(* conversation and generation routes, and the persister that the          *)
(* generation service (server/generation/service.ts) leaves behind for     *)
(* every run it launches.  They meet in the canonical Markdown file, the   *)
(* conversation lock, the #active map, the derived index with its queue,   *)
(* and the checkpoints.                                                    *)
(*                                                                         *)
(* The locks are lines in order of arrival, which KeyedLock is shown to    *)
(* be.  An action is the code between two file operations.  JavaScript     *)
(* runs what a release has made ready before anything else: the next       *)
(* waiter's function starts, then the releaser goes on (Resume), and only  *)
(* then any other event is looked at.                                      *)
(*                                                                         *)
(* Message bodies, reasoning, attachments, proposals and artifacts are not *)
(* here; the steps that file them are (File), since they can fail between  *)
(* the durable write and the launch.                                       *)
(***************************************************************************)
EXTENDS Naturals, Sequences, FiniteSets, Functions

CONSTANTS Requests,   \* the requests that readers may make, one each
          Old,        \* an exchange that was there before
          None

ASSUME DistinctAssumption == Old \notin Requests /\ None \notin Requests \union {Old}

Kinds == {"send", "regenerate", "rename", "deleteMessage", "deleteConversation", "list"}
Titles == {"default", "auto", "renamed"}

(* A caller is a request, or the persister of the run a request launched.  *)
R(r) == <<r, "request">>
P(r) == <<r, "persister">>
Callers == Requests \X {"request", "persister"}

Message == [type : {"user", "assistant"}, of : Requests \union {Old}]
Question(r) == [type |-> "user", of |-> r]
Answer(r) == [type |-> "assistant", of |-> r]

VARIABLES file,       \* the Markdown: title and messages, or None
          index,      \* chats.json: its dirty flag and this conversation's entry
          checkpoint, \* the checkpoint file of each run
          line,       \* the conversation lock: its callers, the holder first
          inside,     \* the callers whose function under the lock has started
          indexLine,  \* the index queue
          active,     \* #active: the run of this conversation
          run,        \* each run as the manager has it
          chain,      \* checkpointChain: the writes not landed yet
          kind,       \* what each request asks for
          pc,         \* where each caller is
          copy,       \* the conversation as a caller read or wrote it
          hadDefault, \* the runs started under the default title
          removed,    \* history: messages that readers asked to be rid of
          swept,      \* history: a file with messages in it fell to deleteMessage
          skewed      \* history: an index update was overtaken, or failed at once

disk == <<file, index, checkpoint>>
lines == <<line, inside, indexLine>>
runs == <<active, run, chain, hadDefault>>
history == <<removed, swept, skewed>>
serviceVars == <<disk, lines, runs, kind, pc, copy, history>>

Waiting == {"queued", "requeued", "listing", "indexing", "rebuilding"}
InsideLock == {"reading", "writing", "unlinking", "refusing", "filing"}
Ready == {"launching", "finishing"}
Over == {"answered", "refused", "lost"}
Phases == {"idle", "watching", "tidying", "marked"}
              \union Waiting \union InsideLock \union Ready \union Over

Conversation == [title : Titles, messages : Seq(Message)]
ASSUME NoneAssumption == None \notin Conversation /\ None \notin {"live", "terminal"}

Summary(c) == IF c = None THEN None ELSE [title |-> c.title, count |-> Len(c.messages)]

TypeOK ==
    /\ file \in Conversation \union {None}
    /\ index.dirty \in BOOLEAN
    /\ index.entry \in [title : Titles, count : Nat] \union {None}
    /\ checkpoint \in [Requests -> {None, "live", "terminal"}]
    /\ line \in Seq(Callers)
    /\ inside \subseteq Callers
    /\ indexLine \in Seq(Callers)
    /\ active \in Requests \union {None}
    /\ run \in [Requests -> {"none", "running", "completed", "stopped", "killed"}]
    /\ chain \in [Requests -> Seq({"live", "terminal"})]
    /\ kind \in [Requests -> Kinds]
    /\ pc \in [Callers -> Phases]
    /\ copy \in [Callers -> Conversation \union {None}]
    /\ hadDefault \subseteq Requests
    /\ removed \subseteq Message
    /\ swept \in BOOLEAN
    /\ skewed \in BOOLEAN

(* A conversation just created, or one with an exchange in it.             *)
Init ==
    /\ file \in {[title |-> "default", messages |-> << >>],
                 [title |-> "auto", messages |-> <<Question(Old), Answer(Old)>>]}
    /\ index = [dirty |-> FALSE, entry |-> Summary(file)]
    /\ checkpoint = [r \in Requests |-> None]
    /\ line = << >>
    /\ inside = {}
    /\ indexLine = << >>
    /\ active = None
    /\ run = [r \in Requests |-> "none"]
    /\ chain = [r \in Requests |-> << >>]
    /\ kind \in [Requests -> Kinds]
    /\ pc = [c \in Callers |-> "idle"]
    /\ copy = [c \in Callers |-> None]
    /\ hadDefault = {}
    /\ removed = {}
    /\ swept = FALSE
    /\ skewed = FALSE

-----------------------------------------------------------------------------
Go(c, phase) == pc' = [pc EXCEPT ![c] = phase]
IsRequest(c) == c[2] = "request"
IsPersister(c) == c[2] = "persister"
Asks(c, kinds) == IsRequest(c) /\ kind[c[1]] \in kinds
Launches(c) == Asks(c, {"send", "regenerate"})
Runs(c) == IsPersister(c) \/ Launches(c)      \* keeps the lock for the index

Queue(c) == line' = Append(line, c)
Release(c) ==      \* no effect for a caller that has left already
    /\ line' = IF c \in inside THEN Tail(line) ELSE line
    /\ inside' = inside \ {c}

(* The lock is held, or nobody wants it.  Nothing else happens while it is *)
(* due to somebody, or while its releaser has yet to go on.                *)
Granted == line # << >> => inside # {}
Settled == Granted /\ \A c \in Callers : pc[c] \notin Ready

-----------------------------------------------------------------------------
(* A request asks for the lock; a list finds the index dirty.              *)
Arrive(r) ==
    /\ Settled
    /\ pc[R(r)] = "idle"
    /\ \/ /\ kind[r] = "list"
          /\ index.dirty
          /\ Go(R(r), "listing")
          /\ UNCHANGED line
       \/ /\ kind[r] # "list"
          /\ Go(R(r), "queued")
          /\ Queue(R(r))
    /\ UNCHANGED <<disk, inside, indexLine, runs, kind, copy, history>>

(* ... and asks for the index queue, to rebuild.                           *)
List(c) ==
    /\ Settled
    /\ pc[c] = "listing"
    /\ Go(c, "rebuilding")
    /\ indexLine' = Append(indexLine, c)
    /\ UNCHANGED <<disk, line, inside, runs, kind, copy, history>>

(* A slip, used to show that the properties can fail, as are all the       *)
(* definitions below that are named for what they get wrong.               *)
MayEnterAtOnce(c) == pc[c] \in {"queued", "requeued"}

MayEnter(c) == inside = {} /\ line # << >> /\ Head(line) = c

(* The head of the line gets the lock.  A send or a regenerate looks at    *)
(* #active here, and nowhere else.                                         *)
Enter(c) ==
    /\ pc[c] \in {"queued", "requeued"}
    /\ MayEnter(c)
    /\ inside' = inside \union {c}
    /\ Go(c, IF Launches(c) /\ active # None THEN "refusing"
             ELSE IF pc[c] = "requeued" \/ Asks(c, {"deleteConversation"}) THEN "unlinking"
             ELSE "reading")
    /\ UNCHANGED <<disk, line, indexLine, runs, kind, copy, history>>

AbandonOutsideFinally(c) ==
    /\ Go(c, "refused")
    /\ Release(c)
    /\ copy' = [copy EXCEPT ![c] = None]

(* The lock, if still held, is let go.  A persister goes on to its finally *)
(* block, and leaves its checkpoint.                                       *)
Abandon(c) ==
    /\ Go(c, IF IsPersister(c) THEN "finishing" ELSE "refused")
    /\ Release(c)
    /\ copy' = [copy EXCEPT ![c] = None]

(* 409, 404, over the context budget, nothing to regenerate, no such       *)
(* message, a failed read or write.  Only a deleteMessage has written by   *)
(* then, and that leaves the index behind.                                 *)
Refuse(c) ==
    /\ Settled
    /\ pc[c] \in {"refusing", "reading", "writing", "tidying", "unlinking"}
    /\ Abandon(c)
    /\ skewed' = (skewed \/ /\ Asks(c, {"deleteMessage"})
                            /\ pc[c] \in {"tidying", "unlinking"}
                            /\ file # None)
    /\ UNCHANGED <<disk, indexLine, runs, kind, removed, swept>>

LoadOrStartAfresh(c) ==
    /\ Settled
    /\ pc[c] = "reading"
    /\ copy' = [copy EXCEPT ![c] = IF file = None THEN [title |-> "default", messages |-> << >>]
                                                 ELSE file]
    /\ Go(c, "writing")
    /\ UNCHANGED <<disk, lines, runs, kind, history>>

Load(c) ==
    /\ Settled
    /\ pc[c] = "reading"
    /\ file # None
    /\ copy' = [copy EXCEPT ![c] = file]
    /\ Go(c, "writing")
    /\ UNCHANGED <<disk, lines, runs, kind, history>>

-----------------------------------------------------------------------------
(* What each caller makes of the conversation it has read.                 *)

MessagesIn(c) == IF c = None THEN {} ELSE Range(c.messages)
LastType(c) == IF c.messages = << >> THEN None ELSE c.messages[Len(c.messages)].type
Append1(c, m) == [c EXCEPT !.messages = Append(@, m)]

(* regenerate(): the reply at the end goes; a question must be left there. *)
WithoutReply(c) ==
    IF LastType(c) = "assistant"
    THEN [c EXCEPT !.messages = SubSeq(@, 1, Len(@) - 1)] ELSE c
Regenerable(c) == LastType(WithoutReply(c)) = "user"

(* deleteMessagePair(): a question takes the reply right after it along.   *)
PairAt(c, i) ==
    IF /\ c.messages[i].type = "user"
       /\ i < Len(c.messages)
       /\ c.messages[i + 1].type = "assistant"
    THEN 2 ELSE 1
WithoutTwo(c, i) == [c EXCEPT !.messages = SubSeq(@, 1, i - 1) \o SubSeq(@, i + 2, Len(@))]
WithoutPair(c, i) ==
    [c EXCEPT !.messages = SubSeq(@, 1, i - 1) \o SubSeq(@, i + PairAt(c, i), Len(@))]

TitleWhatever(r, c) == IF r \in hadDefault /\ run[r] = "completed" THEN "auto" ELSE c.title

(* Auto-titling, unless the conversation was renamed meanwhile.            *)
TitleAfter(r, c) ==
    IF /\ r \in hadDefault
       /\ run[r] = "completed"
       /\ c.title = "default"
       /\ \E m \in MessagesIn(c) : m.type = "user"
    THEN "auto" ELSE c.title

WithAnswer(r, c) == [Append1(c, Answer(r)) EXCEPT !.title = TitleAfter(r, c)]

(* A deleteMessage has written, and has yet to tell the index.             *)
InTheGap(c) ==
    /\ Asks(c, {"deleteMessage"})
    /\ pc[c] \in {"tidying", "indexing", "marked"}

(* The file is replaced at once by what the caller wrote, which it keeps   *)
(* for the index.                                                          *)
Store(c, next) ==
    /\ file' = next
    /\ copy' = [copy EXCEPT ![c] = next]
    /\ skewed' = (skewed \/ \E d \in Callers \ {c} : InTheGap(d))
    /\ UNCHANGED <<index, checkpoint, runs, kind, swept>>

JoinIndex(c) == Go(c, "indexing") /\ indexLine' = Append(indexLine, c)

(* start(), regenerate() and the persister keep the lock while the index   *)
(* is brought up to date.                                                  *)
WriteAndHold(c) ==
    /\ Settled
    /\ pc[c] = "writing"
    /\ \/ /\ Asks(c, {"send"})
          /\ Store(c, Append1(copy[c], Question(c[1])))
          /\ UNCHANGED removed
       \/ /\ Asks(c, {"regenerate"})
          /\ Regenerable(copy[c])
          /\ Store(c, WithoutReply(copy[c]))
          /\ removed' = removed \union (MessagesIn(copy[c]) \ MessagesIn(file'))
       \/ /\ IsPersister(c)
          /\ Store(c, WithAnswer(c[1], copy[c]))
          /\ UNCHANGED removed
    /\ JoinIndex(c)
    /\ UNCHANGED <<line, inside>>

(* rename, and the edit of a body, which differs from it only in bodies.   *)
Rename(c) ==
    /\ Settled
    /\ pc[c] = "writing"
    /\ Asks(c, {"rename"})
    /\ Store(c, [copy[c] EXCEPT !.title = "renamed"])
    /\ Release(c)
    /\ JoinIndex(c)
    /\ UNCHANGED removed

(* DELETE of a message: the lock is free again while the proposals of the  *)
(* exchange are tidied away.                                               *)
DeletePair(c) ==
    /\ Settled
    /\ pc[c] = "writing"
    /\ Asks(c, {"deleteMessage"})
    /\ \E i \in DOMAIN copy[c].messages :
           /\ Store(c, WithoutPair(copy[c], i))
           /\ removed' = removed \union
                  Range(SubSeq(copy[c].messages, i, i + PairAt(copy[c], i) - 1))
    /\ Release(c)
    /\ Go(c, "tidying")
    /\ UNCHANGED indexLine

(* Nothing was left when this request wrote: delete the conversation,      *)
(* under the lock once more.  Otherwise tell the index what was written.   *)
Tidy(c) ==
    /\ Settled
    /\ pc[c] = "tidying"
    /\ IF copy[c].messages = << >>
       THEN Go(c, "requeued") /\ Queue(c) /\ UNCHANGED indexLine
       ELSE JoinIndex(c) /\ UNCHANGED line
    /\ UNCHANGED <<disk, inside, runs, kind, copy, history>>

(* store.delete(): whatever the file holds by now.                         *)
Unlink(c) ==
    /\ Settled
    /\ pc[c] = "unlinking"
    /\ file # None
    /\ file' = None
    /\ copy' = [copy EXCEPT ![c] = None]
    /\ removed' = IF Asks(c, {"deleteConversation"})
                  THEN removed \union MessagesIn(file)
                  ELSE removed
    /\ swept' = (swept \/ (Asks(c, {"deleteMessage"}) /\ file.messages # << >>))
    /\ skewed' = (skewed \/ \E d \in Callers \ {c} : InTheGap(d))
    /\ Release(c)
    /\ JoinIndex(c)
    /\ UNCHANGED <<index, checkpoint, runs, kind>>

-----------------------------------------------------------------------------
(* ChatIndex#mutate and rebuild(): one at a time.                          *)

AtIndex(c) == indexLine # << >> /\ Head(indexLine) = c

(* Not trusted while dirty: the scan that replaces it reads the file.      *)
MarkDirty(c) ==
    /\ Settled
    /\ pc[c] = "indexing"
    /\ AtIndex(c)
    /\ index' = [dirty |-> TRUE, entry |-> IF index.dirty THEN Summary(file) ELSE index.entry]
    /\ Go(c, "marked")
    /\ UNCHANGED <<file, checkpoint, lines, runs, kind, copy, history>>

Scan(c) ==
    /\ Settled
    /\ pc[c] = "rebuilding"
    /\ AtIndex(c)
    /\ copy' = [copy EXCEPT ![c] = file]
    /\ Go(c, "marked")
    /\ UNCHANGED <<disk, lines, runs, kind, history>>

WriteIndexKeepingTheDeleted(c) ==
    /\ Settled
    /\ pc[c] = "marked"
    /\ index' = [dirty |-> FALSE,
                 entry |-> IF copy[c] = None THEN index.entry ELSE Summary(copy[c])]
    /\ indexLine' = Tail(indexLine)
    /\ Go(c, IF Runs(c) THEN "filing" ELSE "answered")
    /\ copy' = IF Runs(c) THEN copy ELSE [copy EXCEPT ![c] = None]
    /\ UNCHANGED <<file, checkpoint, line, inside, runs, kind, history>>

WriteIndex(c) ==
    /\ Settled
    /\ pc[c] = "marked"
    /\ index' = [dirty |-> FALSE, entry |-> Summary(copy[c])]
    /\ indexLine' = Tail(indexLine)
    /\ Go(c, IF Runs(c) THEN "filing" ELSE "answered")
    /\ copy' = IF Runs(c) THEN copy ELSE [copy EXCEPT ![c] = None]
    /\ UNCHANGED <<file, checkpoint, line, inside, runs, kind, history>>

(* A failed read or write of the index: what is in it stays, for good if   *)
(* it was not even marked.                                                 *)
IndexFails(c) ==
    /\ Settled
    /\ pc[c] \in {"indexing", "rebuilding", "marked"}
    /\ AtIndex(c)
    /\ Abandon(c)
    /\ indexLine' = Tail(indexLine)
    /\ skewed' = (skewed \/ pc[c] = "indexing")
    /\ UNCHANGED <<disk, runs, kind, removed, swept>>

-----------------------------------------------------------------------------
(* Attachments are linked, proposals of a replaced reply dropped; for a    *)
(* reply, proposals and artifacts are filed, and the checkpoint goes.      *)
File(c) ==
    /\ Settled
    /\ pc[c] = "filing"
    /\ Go(c, IF IsPersister(c) THEN "finishing" ELSE "launching")
    /\ Release(c)
    /\ checkpoint' = IF IsPersister(c) THEN [checkpoint EXCEPT ![c[1]] = None] ELSE checkpoint
    /\ hadDefault' = IF Asks(c, {"send"}) /\ copy[c].title = "default"
                     THEN hadDefault \union {c[1]} ELSE hadDefault
    /\ copy' = [copy EXCEPT ![c] = None]
    /\ UNCHANGED <<file, index, indexLine, active, run, chain, kind, history>>

(* Any of that fails: what was written stays, and no run is launched.      *)
FileFails(c) ==
    /\ Settled
    /\ pc[c] = "filing"
    /\ Abandon(c)
    /\ UNCHANGED <<disk, indexLine, runs, kind, history>>

(* The releaser goes on, after the next waiter's function has started.     *)
Resume(c) == pc[c] \in Ready /\ Granted

(* #launch(), #active.set, and the persister set to watch the run.         *)
Launch(c) ==
    /\ pc[c] = "launching"
    /\ Resume(c)
    /\ active' = c[1]
    /\ run' = [run EXCEPT ![c[1]] = "running"]
    /\ chain' = [chain EXCEPT ![c[1]] = <<"live">>]
    /\ pc' = [pc EXCEPT ![c] = "answered", ![P(c[1])] = "watching"]
    /\ UNCHANGED <<disk, lines, hadDefault, kind, copy, history>>

(* The manager finishes the run, whichever way; the persister's            *)
(* whenTerminal() resolves and it asks for the lock.                       *)
EndRun(r) ==
    /\ Settled
    /\ run[r] = "running"
    /\ \E outcome \in {"completed", "stopped"} : run' = [run EXCEPT ![r] = outcome]
    /\ chain' = [chain EXCEPT ![r] = Append(@, "terminal")]
    /\ Go(P(r), "queued")
    /\ Queue(P(r))
    /\ UNCHANGED <<disk, inside, indexLine, active, hadDefault, kind, copy, history>>

(* Checkpoint writes land in the order they were issued; one that fails is *)
(* only logged.                                                            *)
Land(r) ==
    /\ Settled
    /\ chain[r] # << >>
    /\ checkpoint' \in {checkpoint, [checkpoint EXCEPT ![r] = Head(chain[r])]}
    /\ chain' = [chain EXCEPT ![r] = Tail(@)]
    /\ UNCHANGED <<file, index, lines, active, run, hadDefault, kind, pc, copy, history>>

(* The finally block of the persister: markPersisted(), and #active is     *)
(* cleared if it is still this run's.                                      *)
Finish(c) ==
    /\ pc[c] = "finishing"
    /\ Resume(c)
    /\ active' = IF active = c[1] THEN None ELSE active
    /\ Go(c, "answered")
    /\ UNCHANGED <<disk, lines, run, chain, hadDefault, kind, copy, history>>

Step(c) ==
    \/ List(c)
    \/ Enter(c)
    \/ Refuse(c)
    \/ Load(c)
    \/ WriteAndHold(c)
    \/ Rename(c)
    \/ DeletePair(c)
    \/ Tidy(c)
    \/ Unlink(c)
    \/ MarkDirty(c)
    \/ Scan(c)
    \/ WriteIndex(c)
    \/ IndexFails(c)
    \/ File(c)
    \/ FileFails(c)
    \/ Launch(c)
    \/ Finish(c)

Onward ==
    \/ \E r \in Requests : EndRun(r) \/ Land(r)
    \/ \E c \in Callers : Step(c)

ServiceNext == Onward \/ \E r \in Requests : Arrive(r)

(* The event loop does not stop while there is something left to do: file  *)
(* operations and promise reactions end, a run ends, by its timeout if     *)
(* need be.  Nobody has to make a request.                                 *)
ServiceFairness == WF_serviceVars(Onward)

Spec == Init /\ [][ServiceNext]_serviceVars /\ ServiceFairness

-----------------------------------------------------------------------------
(* Whoever is about to write holds what the file still says: no change is  *)
(* lost between the read and the write of another (conversations.ts:198).  *)
CopyIsCurrent == \A c \in Callers : pc[c] = "writing" => copy[c] = file

(* The reply of a run is in the file at most once, and not before the run  *)
(* has ended (INV-07).                                                     *)
AnswersOnce ==
    file # None =>
        \A i \in DOMAIN file.messages :
            LET m == file.messages[i]
            IN /\ \A j \in DOMAIN file.messages : file.messages[j] = m => i = j
               /\ m.type = "assistant" /\ m.of # Old => run[m.of] \notin {"none", "running"}

(* A question whose send was answered with 202 is in the file, until a     *)
(* reader deletes it (INV-08).                                             *)
AcknowledgedQuestionKept ==
    \A r \in Requests :
        kind[r] = "send" /\ pc[R(r)] = "answered"
            => Question(r) \in MessagesIn(file) \union removed

(* ... and the second half of deleting a last exchange is the one way in   *)
(* which it can go without.                                                *)
QuestionKept == AcknowledgedQuestionKept \/ swept

(* A title that a reader gave is never overwritten by the automatic one,   *)
(* which was decided on when the run started (service.ts:696-702).         *)
RenameIsFinal ==
    [][file # None /\ file' # None /\ file.title = "renamed" => file'.title = "renamed"]_file

(* A deleted conversation does not come back, whoever still holds work     *)
(* for it (service.ts:611-612).                                            *)
DeletedStaysDeleted == [][file = None => file' = None]_file

(* When every caller is done, the index says what the file says or knows   *)
(* that it does not.  The exceptions are a write that falls into the gap a *)
(* deleteMessage leaves between its own write and its index update, and an *)
(* index that could not even be marked.                                    *)
Quiet == \A c \in Callers : pc[c] \in {"idle", "watching"} \union Over
IndexFollowsTheFile ==
    Quiet /\ ~skewed => index.dirty \/ index.entry = Summary(file)

(* Nobody is stuck behind a lock or a queue, and the conversation never    *)
(* stays closed to new questions: whatever fails, every caller finishes    *)
(* and #active is freed.                                                   *)
Busy == active # None \/ \E c \in Callers : pc[c] \notin {"idle"} \union Over
NothingStaysBusy == Busy ~> ~Busy

(* Two sends at the same moment do not both pass the in-progress check     *)
(* (INV-13, ARCHITECTURE.md:295-296).                                      *)
OneGeneration == Cardinality({r \in Requests : run[r] = "running"}) <= 1

=============================================================================
