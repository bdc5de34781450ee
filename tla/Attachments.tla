---------------------------- MODULE Attachments ----------------------------
(***************************************************************************)
(* The attachments of one account (server/attachments/store.ts): uploads,  *)
(* the messages that refer to them (generation/service.ts, send()), the    *)
(* requests that remove files, messages and conversations, and the         *)
(* housekeeping of a restart (attachments/reconcile.ts, index.ts).         *)
(*                                                                         *)
(* A file is its directory: which of the temp file, the blob and the       *)
(* metadata are in it.  A message is the request that sent it.  What link(), *)
(* delete() and deleteMany() do under the lock of one file is one step.    *)
(***************************************************************************)
EXTENDS Integers, FiniteSets

CONSTANTS Files, Requests, Conversations, None,
          Size(_),  \* bytes of a file
          Quota     \* maxTotalBytesPerUser

SizeAssumption == IsFiniteSet(Files) /\ Quota \in Nat /\ \A f \in Files : Size(f) \in Nat

VARIABLES parts,      \* what is in the directory of each file
          linked,     \* the message its metadata names
          old,        \* the files past pendingTtlMs
          there,      \* the conversations that exist
          msgs,       \* the questions in each
          busy,       \* the conversations with a generation
          conv,       \* who holds the lock of each conversation
          committing, \* the upload that holds the account's lock
          pc, job,
          used,       \* what an upload read before its first byte
          todo,       \* the files a request has still to link or delete
          boot        \* where the restart is, "up" when it listens

directory == <<parts, linked, old>>
stored == <<there, msgs, busy, conv>>
uploads == <<committing, used>>
vars == <<directory, stored, uploads, pc, job, todo, boot>>

Actors == Files \union Requests
Job == [kind : {"send"}, at : Conversations, files : SUBSET Files \ {{}}]
       \union [kind : {"remove"}, file : Files]
       \union [kind : {"delete", "clear"}, at : Conversations]
       \union [kind : {"deleteMessage"}, at : Conversations, of : Requests]
NoneAssumption ==
    None \notin Files \union Requests \union Job /\ Files \intersect Requests = {}

Phases == {"idle", "arriving", "rename", "meta", "start", "ready", "link", "unlink", "owned",
           "dispose", "done", "refused", "lost"}

TypeOK ==
    /\ parts \in [Files -> SUBSET {"temp", "blob", "meta"}]
    /\ linked \in [Files -> Requests \union {None}]
    /\ old \subseteq Files
    /\ there \subseteq Conversations
    /\ msgs \in [Conversations -> SUBSET Requests]
    /\ \A c \in Conversations \ there : msgs[c] = {}
    /\ busy \subseteq Conversations
    /\ conv \in [Conversations -> Requests \union {None}]
    /\ committing \in Files \union {None}
    /\ pc \in [Actors -> Phases]
    /\ job \in [Requests -> Job \union {None}]
    /\ used \in [Files -> Nat]
    /\ todo \in [Requests -> SUBSET Files]
    /\ boot \in {"up", "reconcile", "sweep"}

Resting ==
    /\ linked = [f \in Files |-> None]
    /\ old = {}
    /\ there = Conversations
    /\ msgs = [c \in Conversations |-> {}]
    /\ busy = {}
    /\ conv = [c \in Conversations |-> None]
    /\ committing = None
    /\ job = [q \in Requests |-> None]
    /\ used = [f \in Files |-> 0]
    /\ todo = [q \in Requests |-> {}]
    /\ boot = "up"

Init ==
    /\ Resting
    /\ parts = [f \in Files |-> {}]
    /\ pc = [a \in Actors |-> "idle"]

Go(a, phase) == pc' = [pc EXCEPT ![a] = phase]

(* A read goes by the metadata.                                            *)
Complete(f) == "meta" \in parts[f]
Pending(f) == Complete(f) /\ linked[f] = None
Bytes(f) == {f} \X (1 .. Size(f))
TotalBytes == Cardinality(UNION {Bytes(f) : f \in {g \in Files : Complete(g)}})
ReferencedIds(c) == UNION {job[q].files : q \in msgs[c]}

-----------------------------------------------------------------------------
(* create().                                                               *)
Begin(f) ==
    /\ boot = "up" /\ pc[f] = "idle"
    /\ used' = [used EXCEPT ![f] = TotalBytes]
    /\ parts' = [parts EXCEPT ![f] = {"temp"}]
    /\ Go(f, "arriving")
    /\ UNCHANGED <<linked, old, stored, committing, job, todo, boot>>

(* Too large, of no accepted type, cut off, or hopeless from the start.    *)
RefuseUpload(f) ==
    /\ pc[f] = "arriving"
    /\ parts' = [parts EXCEPT ![f] = {}]
    /\ Go(f, "refused")
    /\ UNCHANGED <<linked, old, stored, uploads, job, todo, boot>>

Commit(f) ==
    /\ pc[f] = "arriving" /\ used[f] + Size(f) <= Quota
    /\ committing = None
    /\ IF TotalBytes + Size(f) > Quota
       THEN /\ parts' = [parts EXCEPT ![f] = {}]
            /\ Go(f, "refused")
            /\ UNCHANGED committing
       ELSE committing' = f /\ Go(f, "rename") /\ UNCHANGED parts
    /\ UNCHANGED <<linked, old, stored, used, job, todo, boot>>

Rename(f) ==
    /\ pc[f] = "rename"
    /\ parts' = [parts EXCEPT ![f] = {"blob"}]
    /\ Go(f, "meta")
    /\ UNCHANGED <<linked, old, stored, uploads, job, todo, boot>>

WriteMeta(f) ==
    /\ pc[f] = "meta"
    /\ parts' = [parts EXCEPT ![f] = {"blob", "meta"}]
    /\ committing' = None
    /\ Go(f, "done")
    /\ UNCHANGED <<linked, old, stored, used, job, todo, boot>>

(* The rename or the write fails: the directory stays, with the blob in it *)
(* once that has its name.                                                 *)
CommitFails(f) ==
    /\ pc[f] \in {"rename", "meta"}
    /\ parts' = [parts EXCEPT ![f] = @ \ {"temp"}]
    /\ committing' = None
    /\ Go(f, "refused")
    /\ UNCHANGED <<linked, old, stored, used, job, todo, boot>>

-----------------------------------------------------------------------------
(* send(): the attachments are looked at before the lock; the question is  *)
(* written under it, and then they are linked one after the other.         *)
Arrive(q, j) ==
    /\ boot = "up" /\ pc[q] = "idle"
    /\ job' = [job EXCEPT ![q] = j]
    /\ Go(q, "start")
    /\ UNCHANGED <<directory, stored, uploads, todo, boot>>

Is(q, kind) == pc[q] = "start" /\ job[q].kind = kind

PrepareAttachments(q) ==
    /\ Is(q, "send")
    /\ Go(q, IF \A f \in job[q].files : Pending(f) THEN "ready" ELSE "refused")
    /\ UNCHANGED <<directory, stored, uploads, job, todo, boot>>

WriteQuestion(q) ==
    /\ pc[q] = "ready" /\ conv[job[q].at] = None
    /\ LET c == job[q].at
       IN  \/ /\ c \notin there \/ c \in busy
              /\ Go(q, "refused")
              /\ UNCHANGED <<msgs, conv, todo>>
           \/ /\ c \in there \ busy
              /\ msgs' = [msgs EXCEPT ![c] = @ \union {q}]
              /\ conv' = [conv EXCEPT ![c] = q]
              /\ todo' = [todo EXCEPT ![q] = job[q].files]
              /\ Go(q, "link")
    /\ UNCHANGED <<directory, there, busy, uploads, job, boot>>

Link(q, f) ==
    /\ pc[q] = "link" /\ f \in todo[q]
    /\ IF Complete(f) /\ linked[f] \in {None, q}
       THEN /\ linked' = [linked EXCEPT ![f] = q]
            /\ todo' = [todo EXCEPT ![q] = @ \ {f}]
            /\ UNCHANGED <<pc, conv>>
       ELSE Go(q, "refused") /\ conv' = [conv EXCEPT ![job[q].at] = None] /\ UNCHANGED <<linked, todo>>
    /\ UNCHANGED <<parts, old, there, msgs, busy, uploads, job, boot>>

Launch(q) ==
    /\ pc[q] = "link" /\ todo[q] = {}
    /\ conv' = [conv EXCEPT ![job[q].at] = None]
    /\ busy' = busy \union {job[q].at}
    /\ Go(q, "done")
    /\ UNCHANGED <<directory, there, msgs, uploads, job, todo, boot>>

RunEnds(c) ==
    /\ c \in busy /\ busy' = busy \ {c}
    /\ UNCHANGED <<directory, there, msgs, conv, uploads, pc, job, todo, boot>>

-----------------------------------------------------------------------------
(* A slip: a file that a message has is removed as well.                   *)
RemoveAny(q) ==
    /\ Is(q, "remove")
    /\ parts' = [parts EXCEPT ![job[q].file] = {}]
    /\ linked' = [linked EXCEPT ![job[q].file] = None]
    /\ Go(q, "done")
    /\ UNCHANGED <<old, stored, uploads, job, todo, boot>>

(* DELETE /attachments/:id.                                                *)
Remove(q) ==
    /\ Is(q, "remove")
    /\ IF Pending(job[q].file)
       THEN parts' = [parts EXCEPT ![job[q].file] = {}] /\ Go(q, "done")
       ELSE Go(q, "refused") /\ UNCHANGED parts
    /\ UNCHANGED <<linked, old, stored, uploads, job, todo, boot>>

(* DELETE /conversations/:id: which files it owns is read first.           *)
ReadOwned(q) ==
    /\ Is(q, "delete")
    /\ todo' = [todo EXCEPT ![q] = ReferencedIds(job[q].at)]
    /\ Go(q, "owned")
    /\ UNCHANGED <<directory, stored, uploads, job, boot>>

(* The Markdown goes; clearing the history does just that, and so does the *)
(* deletion of the last message.                                           *)
DeleteConversation(q) ==
    /\ pc[q] \in {"owned", "unlink"} \/ Is(q, "clear")
    /\ conv[job[q].at] = None
    /\ IF job[q].at \in there
       THEN /\ there' = there \ {job[q].at}
            /\ msgs' = [msgs EXCEPT ![job[q].at] = {}]
            /\ Go(q, "dispose")
       ELSE Go(q, "refused") /\ UNCHANGED <<there, msgs>>
    /\ UNCHANGED <<directory, busy, conv, uploads, job, todo, boot>>

DeleteFile(q, f) ==
    /\ pc[q] = "dispose" /\ f \in todo[q]
    /\ parts' = [parts EXCEPT ![f] = {}]
    /\ linked' = [linked EXCEPT ![f] = None]
    /\ todo' = [todo EXCEPT ![q] = @ \ {f}]
    /\ UNCHANGED <<old, stored, uploads, pc, job, boot>>

Disposed(q) ==
    /\ pc[q] = "dispose" /\ todo[q] = {}
    /\ Go(q, "done")
    /\ UNCHANGED <<directory, stored, uploads, job, todo, boot>>

DeleteMessage(q) ==
    /\ Is(q, "deleteMessage") /\ conv[job[q].at] = None
    /\ LET c == job[q].at
       IN  IF job[q].of \in msgs[c]
           THEN /\ msgs' = [msgs EXCEPT ![c] = @ \ {job[q].of}]
                /\ Go(q, IF msgs[c] = {job[q].of} THEN "unlink" ELSE "done")
           ELSE Go(q, "refused") /\ UNCHANGED msgs
    /\ UNCHANGED <<directory, there, busy, conv, uploads, job, todo, boot>>

-----------------------------------------------------------------------------
Age(f) ==
    /\ parts[f] # {} /\ f \notin old
    /\ old' = old \union {f}
    /\ UNCHANGED <<parts, linked, stored, uploads, pc, job, todo, boot>>

(* The process dies; it listens again when the housekeeping is done.       *)
Crash ==
    /\ boot = "up" /\ boot' = "reconcile"
    /\ busy' = {}
    /\ conv' = [c \in Conversations |-> None]
    /\ committing' = None
    /\ pc' = [a \in Actors |-> IF pc[a] \in {"idle", "done", "refused"} THEN pc[a] ELSE "lost"]
    /\ UNCHANGED <<directory, there, msgs, used, job, todo>>

Unreferenced(f) == \A c \in Conversations : \A q \in msgs[c] : f \notin job[q].files
(* A file that several messages refer to goes to the one that is read first. *)
Reconcile ==
    /\ boot = "reconcile" /\ boot' = "sweep"
    /\ linked' \in [Files -> Requests \union {None}]
    /\ \A f \in Files :
           IF Pending(f) /\ ~Unreferenced(f)
           THEN \E c \in Conversations : linked'[f] \in msgs[c] /\ f \in job[linked'[f]].files
           ELSE linked'[f] = linked[f]
    /\ UNCHANGED <<parts, old, stored, uploads, pc, job, todo>>

Sweep ==
    /\ boot = "sweep" /\ boot' = "up"
    /\ parts' = [f \in Files |-> IF f \in old /\ ~(Complete(f) /\ linked[f] # None)
                                 THEN {} ELSE parts[f]]
    /\ UNCHANGED <<linked, old, stored, uploads, pc, job, todo>>

Uploading(f) ==
    Begin(f) \/ RefuseUpload(f) \/ Commit(f) \/ Rename(f) \/ WriteMeta(f) \/ CommitFails(f)
Sending(q) ==
    PrepareAttachments(q) \/ WriteQuestion(q) \/ (\E f \in Files : Link(q, f)) \/ Launch(q)
Deleting(q) ==
    \/ Remove(q) \/ ReadOwned(q) \/ DeleteConversation(q) \/ Disposed(q) \/ DeleteMessage(q)
    \/ \E f \in Files : DeleteFile(q, f)
Housekeeping == Reconcile \/ Sweep

-----------------------------------------------------------------------------
(* What a message that was accepted refers to is there as long as the      *)
(* message is.  (store.ts, delete(); reconcile.ts.)                        *)
ReferencedStays ==
    \A c \in Conversations : \A q \in msgs[c] :
        pc[q] = "done" => \A f \in job[q].files : Complete(f)

(* However many uploads arrive at once, the account holds no more than its *)
(* quota.  (create().)                                                     *)
QuotaHolds == TotalBytes <= Quota

(* Whatever has metadata has all its bytes, at every moment a reader or a  *)
(* restart may look.  (create().)                                          *)
MetadataMeansBytes == \A f \in Files : Complete(f) => "blob" \in parts[f]
=============================================================================
