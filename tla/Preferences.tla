---------------------------- MODULE Preferences ----------------------------
(***************************************************************************)
(* What a reader keeps beside the conversations, pins and a default model  *)
(* (server/storage/preferences.ts), and the two ways to be rid of          *)
(* conversations: the delete route (routes/conversations.ts) and clearing  *)
(* the history (conversation/clearHistory.ts).  One reader: the file and   *)
(* its lock are per account.                                               *)
(*                                                                         *)
(* The lock is a line in order of arrival, which KeyedLock is shown to be. *)
(* An unlink and an index update take effect at once: their own locks and  *)
(* queues are ConversationService's.                                       *)
(***************************************************************************)
EXTENDS Naturals, Sequences

CONSTANTS Requests, Ids, Models, None

VARIABLES file,     \* the conversations whose Markdown is there
          entry,    \* the conversations the index lists
          recent,   \* those whose entry says they were touched in the window
          prefs,    \* preferences.json
          line,     \* the lock of the preferences
          pc, job,  \* each request
          target,   \* the conversation it is at
          todo,     \* the entries a clear has still to visit
          copy      \* the preferences as it read them

disk == <<file, entry, prefs>>
vars == <<disk, recent, line, pc, job, target, todo, copy>>

Prefs == [pinned : SUBSET Ids, model : Models \union {None}]
NoPrefs == [pinned |-> {}, model |-> None]
Job ==
    [kind : {"pin"}, id : Ids, on : BOOLEAN]
    \union [kind : {"model"}, to : Models \union {None}]
    \union [kind : {"delete"}, id : Ids]
    \union [kind : {"clear"}, all : BOOLEAN]
NoneAssumption == None \notin Ids \union Models \union Job

Phases == {"idle", "check", "read", "write", "list", "next", "unlink", "entry", "forget",
           "done", "refused", "lost"}

TypeOK ==
    /\ file \subseteq Ids /\ entry \subseteq Ids /\ recent \subseteq Ids
    /\ prefs \in Prefs
    /\ line \in Seq(Requests)
    /\ pc \in [Requests -> Phases]
    /\ job \in [Requests -> Job \union {None}]
    /\ target \in [Requests -> Ids \union {None}]
    /\ todo \in [Requests -> SUBSET Ids]
    /\ copy \in [Requests -> Prefs \union {None}]

Init ==
    /\ file = Ids /\ entry = Ids
    /\ recent \in SUBSET Ids
    /\ prefs \in Prefs
    /\ line = << >>
    /\ pc = [r \in Requests |-> "idle"]
    /\ job = [r \in Requests |-> None]
    /\ target = [r \in Requests |-> None]
    /\ todo = [r \in Requests |-> {}]
    /\ copy = [r \in Requests |-> None]
-----------------------------------------------------------------------------
Asks(r, kind) == job[r] # None /\ job[r].kind = kind
Go(r, phase) == pc' = [pc EXCEPT ![r] = phase]

Arrive(r, j) ==
    /\ pc[r] = "idle"
    /\ job' = [job EXCEPT ![r] = j]
    /\ target' = [target EXCEPT ![r] = IF j.kind \in {"pin", "delete"} THEN j.id ELSE None]
    /\ Go(r, CASE j.kind = "pin" -> "check"
               [] j.kind = "model" -> "read"
               [] j.kind = "delete" -> "unlink"
               [] j.kind = "clear" -> "list")
    /\ line' = IF j.kind = "model" THEN Append(line, r) ELSE line
    /\ UNCHANGED <<disk, recent, todo, copy>>

(* The pin route refuses a conversation that is not there, and only then   *)
(* asks for the lock.                                                      *)
Check(r) ==
    /\ pc[r] = "check"
    /\ IF target[r] \in file
       THEN Go(r, "read") /\ line' = Append(line, r)
       ELSE Go(r, "refused") /\ UNCHANGED line
    /\ UNCHANGED <<disk, recent, job, target, todo, copy>>

-----------------------------------------------------------------------------
(* A file that cannot be read reads as no preferences.                     *)
Read(r) ==
    /\ pc[r] = "read" /\ line # << >> /\ Head(line) = r
    /\ \E seen \in {prefs, NoPrefs} : copy' = [copy EXCEPT ![r] = seen]
    /\ Go(r, "write")
    /\ UNCHANGED <<disk, recent, line, job, target, todo>>

Changed(r) ==
    CASE Asks(r, "model") -> [copy[r] EXCEPT !.model = job[r].to]
      [] Asks(r, "pin") /\ job[r].on -> [copy[r] EXCEPT !.pinned = @ \union {target[r]}]
      [] OTHER -> [copy[r] EXCEPT !.pinned = @ \ {target[r]}]

(* Who reads and writes is at the front of the line.                       *)
LeaveLine == line' = Tail(line)

Write(r) ==
    /\ pc[r] = "write"
    /\ prefs' = Changed(r)
    /\ LeaveLine
    /\ Go(r, "done")
    /\ UNCHANGED <<file, entry, recent, job, target, todo, copy>>

WriteFails(r) ==
    /\ pc[r] = "write"
    /\ LeaveLine
    /\ Go(r, "refused")
    /\ UNCHANGED <<disk, recent, job, target, todo, copy>>

-----------------------------------------------------------------------------
(* Deleting: the Markdown, the index entry, and on the delete route the    *)
(* pin.  A conversation that is not there ends the request, a clear too.   *)
Unlink(r) ==
    /\ pc[r] = "unlink"
    /\ IF target[r] \in file
       THEN file' = file \ {target[r]} /\ Go(r, "entry")
       ELSE Go(r, "refused") /\ UNCHANGED file
    /\ UNCHANGED <<entry, prefs, recent, line, job, target, todo, copy>>

RemoveEntry(r) ==
    /\ pc[r] = "entry"
    /\ entry' = entry \ {target[r]}
    /\ Go(r, IF Asks(r, "clear") THEN "next" ELSE "forget")
    /\ UNCHANGED <<file, prefs, recent, line, job, target, todo, copy>>

(* A slip: a pin is left where it is.                                      *)
ForgetNothing(r) ==
    /\ pc[r] = "forget"
    /\ Go(r, "done")
    /\ UNCHANGED <<disk, recent, line, job, target, todo, copy>>

(* forget(): looks without the lock whether there is a pin to take out.    *)
Forget(r) ==
    /\ pc[r] = "forget"
    /\ IF target[r] \in prefs.pinned
       THEN Go(r, "read") /\ line' = Append(line, r)
       ELSE Go(r, "done") /\ UNCHANGED line
    /\ UNCHANGED <<disk, recent, job, target, todo, copy>>

(* clearHistoryFor(): the entries as the index has them now.               *)
ListEntries(r) ==
    /\ pc[r] = "list"
    /\ todo' = [todo EXCEPT ![r] = IF job[r].all THEN entry ELSE entry \intersect recent]
    /\ Go(r, "next")
    /\ UNCHANGED <<disk, recent, line, job, target, copy>>

(* A list that fails is no entries.                                        *)
ListFails(r) ==
    /\ pc[r] = "list"
    /\ Go(r, "next")
    /\ UNCHANGED <<disk, recent, line, job, target, todo, copy>>

NextEntry(r) ==
    /\ pc[r] = "next"
    /\ IF todo[r] = {}
       THEN Go(r, "done") /\ UNCHANGED <<target, todo>>
       ELSE \E i \in todo[r] :
                /\ target' = [target EXCEPT ![r] = i]
                /\ todo' = [todo EXCEPT ![r] = @ \ {i}]
                /\ Go(r, "unlink")
    /\ UNCHANGED <<disk, recent, line, job, copy>>

(* A conversation is written to: its entry moves into the window.          *)
Touch(i) ==
    /\ i \in file \ recent
    /\ recent' = recent \union {i}
    /\ UNCHANGED <<disk, line, pc, job, target, todo, copy>>

(* The process dies; the files stay as they are.                           *)
Crash ==
    /\ line' = << >>
    /\ pc' = [r \in Requests |-> IF pc[r] \in {"idle", "done", "refused"} THEN pc[r] ELSE "lost"]
    /\ UNCHANGED <<disk, recent, job, target, todo, copy>>

RebuildIndex ==
    /\ entry # file
    /\ entry' = file
    /\ UNCHANGED <<file, prefs, recent, line, pc, job, target, todo, copy>>

Step(r) ==
    \/ Check(r) \/ Read(r) \/ Write(r)
    \/ Unlink(r) \/ RemoveEntry(r) \/ Forget(r) \/ ListEntries(r) \/ NextEntry(r)
-----------------------------------------------------------------------------
(* A conversation that was deleted, and answered so, is pinned no longer   *)
(* (the delete route: "And the pin, which would otherwise outlive what it  *)
(* pointed at").                                                           *)
DeletedIsForgotten ==
    \A r \in Requests : (Asks(r, "delete") /\ pc[r] = "done") => job[r].id \notin prefs.pinned

(* No conversation on disk is out of the list: the Markdown goes first.    *)
(* (store.delete().)                                                       *)
OnDiskIsListed == file \subseteq entry
=============================================================================
