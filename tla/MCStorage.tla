------------------------------ MODULE MCStorage ------------------------------
(***************************************************************************)
(* What an account keeps beside its conversations: the cards and notes of  *)
(* its memories (Proposals), its attachments (Attachments), its pins and   *)
(* default model (Preferences), and the way any of these files is replaced *)
(* (AtomicFile).  They share no variable, so a behaviour exercises one of  *)
(* them, and all are in every state.                                       *)
(***************************************************************************)
EXTENDS AtomicFile

CONSTANTS Parts,        \* what is exercised
          Deaths,       \* bound: deaths of the process
          Losses,       \* bound: deaths and losses of power, in the part about a file
          Runs, CardRequests, Names, Cap, Room,                 \* Proposals
          Files, Held, FileRequests, Conversations, Size(_), Quota,  \* Attachments
          PrefRequests, ModelRequests, Ids, Pinnable, Models    \* Preferences

VARIABLES part, down,
          exists, replies, cards, filings, note, clock, conv, line, held, actor, call, status, asked,
          ask, back, seen, shown, applied,
          dirs, linked, old, there, msgs, busy, lock, committing, doing, job, used, todo, boot,
          markdown, entry, recent, prefs, turn, phase, wish, target, visit, copy

cardVars == <<exists, replies, cards, filings, note, clock, conv, line, held, actor, call, status, asked,
              ask, back, seen, shown, applied>>
attachmentVars ==
    <<dirs, linked, old, there, msgs, busy, lock, committing, doing, job, used, todo, boot>>
prefVars == <<markdown, entry, recent, prefs, turn, phase, wish, target, visit, copy>>

(* One of those that have not begun: which one it is says nothing.         *)
AnyOf(S) == IF S = {} THEN {} ELSE {CHOOSE x \in S : TRUE}
NextOf(S, at) == AnyOf({x \in S : at[x] = "idle"})

-----------------------------------------------------------------------------
(* Runs, which ask for a note to be created, and requests; or, from where  *)
(* the call of the first run, whatever it asks for, is filed, stored and   *)
(* served, answers to it and notes of the reader's own.                    *)
P == INSTANCE Proposals WITH
         Requests <- CardRequests, there <- exists, msgs <- replies, pc <- actor, job <- asked

Card(r, op, n) == [run |-> r, nth |-> 1, op |-> op, name |-> n,
                   base |-> IF op = "create" THEN None ELSE 0, since |-> 0]

Served ==
    \E r \in AnyOf(Runs), op \in P!Operations, n \in AnyOf(Names) :
        LET c == Card(r, op, n)
        IN  /\ exists = TRUE /\ replies = <<r>> /\ cards = <<c>> /\ filings = 1 /\ shown = {c}
            /\ note \in [Names -> {0, None}] /\ (note[n] = None <=> op = "create")
            /\ P!Total <= Room
            /\ clock = 0 /\ conv = None /\ line = << >> /\ held = [x \in Names |-> None]
            /\ actor = [x \in P!Actors |-> IF x = r THEN "done" ELSE "idle"]
            /\ call = [x \in Runs |-> IF x = r THEN c ELSE None]
            /\ status = [x \in Runs |-> IF x = r THEN "completed" ELSE None]
            /\ asked = [x \in CardRequests |-> None]
            /\ ask = [x \in P!Actors |-> None]
            /\ back = [x \in P!Actors |-> "done"]
            /\ seen = [x \in P!Actors |-> << >>]
            /\ applied = [i \in Runs \X {1, 2} |-> 0]

Operations == IF part = "answers" THEN P!Operations ELSE {"create"}

CardKinds == IF part = "answers" THEN {"get", "answer", "put", "removeNote"}
             ELSE {"get", "answer", "regenerate", "deleteMessage", "deleteConversation"}

CardJobs ==
    {j \in [kind : {"get", "regenerate", "deleteConversation"}]
           \union [kind : {"deleteMessage"}, of : Runs]
           \union [kind : {"put", "removeNote"}, name : Names]
           \union [kind : {"answer"}, card : shown, accept : BOOLEAN] : j.kind \in CardKinds}

CardsNext ==
    \/ /\ \/ \E x \in P!Actors : P!Changing(x) \/ P!Failing(x)
          \/ \E x \in NextOf(Runs, actor) : P!Send(x)
          \/ \E x \in Runs : P!Running(x)
          \/ \E x \in Runs, op \in Operations, n \in Names :
                 (op = "create" \/ note[n] # None) /\ P!Call(x, op, n)
          \/ \E x \in CardRequests : P!Requesting(x)
          \/ \E x \in NextOf(CardRequests, actor), j \in CardJobs : P!Arrive(x, j)
       /\ UNCHANGED down
    \/ down < Deaths /\ P!Crash /\ down' = down + 1

-----------------------------------------------------------------------------
(* Uploads, conversations and requests; or uploads to an account that      *)
(* holds files already.  A file is sent once, as the tray of a page does;  *)
(* the page knows the files whose upload was answered.                     *)
T == INSTANCE Attachments WITH
         Requests <- FileRequests, parts <- dirs, conv <- lock, pc <- doing

One(x) == 1

HeldAlready ==
    /\ T!Resting
    /\ dirs = [x \in Files |-> IF x \in Held THEN {"blob", "meta"} ELSE {}]
    /\ doing = [x \in T!Actors |-> IF x \in Held THEN "done" ELSE "idle"]
    /\ T!QuotaHolds

Known == {x \in Files : doing[x] = "done"}
Sends(x) == job[x] # None /\ job[x].kind = "send"
Sent == UNION {job[x].files : x \in {y \in FileRequests : Sends(y)}}

AttachmentJobs ==
    [kind : {"send"}, at : Conversations, files : SUBSET (Known \ Sent) \ {{}}]
    \union [kind : {"remove"}, file : Known]
    \union [kind : {"delete", "clear"}, at : Conversations]
    \union [kind : {"deleteMessage"}, at : Conversations, of : FileRequests]

AttachmentsNext ==
    \/ /\ \/ \E x \in NextOf(Files \ Held, doing) : T!Begin(x)
          \/ \E x \in Files : (doing[x] # "idle" /\ T!Uploading(x)) \/ T!Age(x)
          \/ \E x \in NextOf(FileRequests, doing), j \in AttachmentJobs : T!Arrive(x, j)
          \/ \E x \in FileRequests : T!Sending(x) \/ T!Deleting(x)
          \/ \E x \in Conversations : T!RunEnds(x)
          \/ T!Housekeeping
       /\ UNCHANGED down
    \/ down < Deaths /\ T!Crash /\ down' = down + 1

UploadsNext == (\E x \in Files : T!Uploading(x)) /\ UNCHANGED down

-----------------------------------------------------------------------------
(* Conversations, those that may be pinned and those that may be deleted,  *)
(* all of them pinned at first or none, and requests, some of which set    *)
(* the model.                                                              *)
E == INSTANCE Preferences WITH
         Requests <- PrefRequests, file <- markdown,
         line <- turn, pc <- phase, job <- wish, todo <- visit

PrefJobs ==
    [kind : {"pin"}, id : Pinnable, on : BOOLEAN] \union [kind : {"model"}, to : Models]
    \union [kind : {"delete"}, id : Ids \ Pinnable] \union [kind : {"clear"}, all : BOOLEAN]

PrefsNext ==
    \/ /\ \/ \E x \in PrefRequests : E!Step(x) \/ E!WriteFails(x) \/ E!ListFails(x)
          \/ \E x \in NextOf(PrefRequests \ ModelRequests, phase), j \in PrefJobs : E!Arrive(x, j)
          \/ \E x \in NextOf(ModelRequests, phase), m \in Models :
                 E!Arrive(x, [kind |-> "model", to |-> m])
          \/ \E i \in Ids : E!Touch(i)
          \/ E!RebuildIndex
       /\ UNCHANGED down
    \/ down < Deaths /\ E!Crash /\ down' = down + 1

-----------------------------------------------------------------------------
(* Writers of a file, deaths of the process, losses of power, and a script. *)
FilesNext ==
    \/ /\ \/ \E x \in NextOf(Writers, pc) : Open(x)
          \/ \E x \in Writers : (pc[x] # "idle" /\ Writing(x)) \/ Failing(x)
          \/ Sweeping
       /\ UNCHANGED down
    \/ down < Losses /\ (Crash \/ PowerLoss) /\ down' = down + 1

-----------------------------------------------------------------------------
ASSUME Assumptions ==
    /\ P!CapAssumption /\ P!NoneAssumption
    /\ T!SizeAssumption /\ T!NoneAssumption /\ Held \subseteq Files
    /\ E!NoneAssumption /\ Pinnable \subseteq Ids /\ ModelRequests \subseteq PrefRequests

Init ==
    /\ part \in Parts
    /\ down = 0
    /\ IF part = "answers" THEN Served
       ELSE P!Init /\ note = [x \in Names |-> None]
    /\ IF part = "uploads" THEN HeldAlready ELSE T!Init
    /\ prefs \in [pinned : {{}, Ids}, model : {None}]
    /\ E!Init
    /\ (part # "preferences" => recent = {} /\ prefs.pinned = {})
    /\ FileInit

Next ==
    \/ /\ part \in {"answers", "runs"} /\ CardsNext
       /\ UNCHANGED <<part, attachmentVars, prefVars, fileVars>>
    \/ /\ part = "attachments" /\ AttachmentsNext
       /\ UNCHANGED <<part, cardVars, prefVars, fileVars>>
    \/ /\ part = "uploads" /\ UploadsNext
       /\ UNCHANGED <<part, cardVars, prefVars, fileVars>>
    \/ /\ part = "preferences" /\ PrefsNext
       /\ UNCHANGED <<part, cardVars, attachmentVars, fileVars>>
    \/ /\ part = "file" /\ FilesNext
       /\ UNCHANGED <<part, cardVars, attachmentVars, prefVars>>

Spec == Init /\ [][Next]_<<part, down, cardVars, attachmentVars, prefVars, fileVars>>

-----------------------------------------------------------------------------
(* A call has one card, and what a card asks for is done once, however     *)
(* often it is answered and whatever fails between the note and the card,  *)
(* unless a note was removed meanwhile (proposals.ts, add(), resolve()).   *)
CardsActOnce == P!OneCardEach /\ P!DoneOnce

(* A file that a question refers to is there as long as the question is,   *)
(* and with all its bytes, and an account holds no more than its quota,    *)
(* however many uploads begin at once (attachments/store.ts, create(),     *)
(* delete(); reconcile.ts).                                                *)
ReferencedStays ==
    /\ T!ReferencedStays /\ T!MetadataMeansBytes /\ T!QuotaHolds

(* A conversation that was deleted is pinned no longer (the delete route), *)
(* and one that is on disk is in the list.                                 *)
DeletedIsForgotten == E!DeletedIsForgotten /\ E!OnDiskIsListed
=============================================================================
