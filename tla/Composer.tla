------------------------------ MODULE Composer ------------------------------
(***************************************************************************)
(* What the reader writes and attaches until it is a question              *)
(* (client/useAttachments.ts, client/Composer.tsx, send() in               *)
(* client/App.tsx).  Words and files are numbered as they come.  The       *)
(* server is what its routes answer.                                       *)
(***************************************************************************)
EXTENDS Integers, FiniteSets

CONSTANTS MaxAttached,  \* MAX_ATTACHMENTS_PER_MESSAGE
          Patient,      \* whether the reader waits while a question is sent
          Keys,         \* the ways to send: "click", "enter"
          MaxWords,     \* bound: words
          MaxFiles,     \* bound: files
          MaxPresses,   \* bound: sends
          MaxLost       \* bound: lost answers

ComposerAssumption ==
    /\ Patient \in BOOLEAN /\ Keys \subseteq {"click", "enter"}
    /\ {MaxAttached, MaxPresses} \subseteq Nat \ {0}
    /\ {MaxWords, MaxFiles, MaxLost} \subseteq Nat

VARIABLES tray,       \* items: the chips
          uploads,    \* the uploads whose answer is awaited
          draft,      \* the words in the field
          place,      \* currentId; 0 is a conversation without an id
          sends,      \* calls of send() that wait for an answer
          watched,    \* the conversation whose run is watched, or 0
          file,       \* the server: each file
          deletes,    \* requests to delete a file
          chats,      \* the server: conversations
          questions,  \* the server: questions
          running,    \* the server: conversations with a run
          dismissed,  \* history: files taken out by the reader
          overtaken,  \* history: files that were uploading when a question was sent that
                      \* was not given back
          words, files, presses, lost

server == <<file, chats, questions, running>>
vars == <<tray, uploads, draft, place, sends, watched, file, deletes, chats, questions, running,
          dismissed, overtaken, words, files, presses, lost>>

Files == 1 .. MaxFiles
Ids(items) == {item.id : item \in items}
With(status) == {item.id : item \in {i \in tray : i.status = status}}
ReadyIds == With("ready")
Uploading == With("uploading") # {}

Items == [id : Files, status : {"uploading", "ready", "error"}]
Uploads == [id : Files, answer : {"none", "ready", "error"}]
Sends == [id : Nat, words : SUBSET Nat, files : SUBSET Files, chat : Nat,
          step : {"create", "send"}, answer : {"none", "accepted", "refused", "lost"}]
Questions == [words : SUBSET Nat, files : SUBSET Files]

TypeOK ==
    /\ tray \subseteq Items /\ uploads \subseteq Uploads /\ sends \subseteq Sends
    /\ draft \subseteq Nat /\ place \in Nat /\ watched \in Nat /\ chats \in Nat
    /\ file \in [Files -> {"none", "pending", "linked"}]
    /\ deletes \subseteq Files /\ dismissed \subseteq Files /\ overtaken \subseteq Files
    /\ questions \subseteq Questions /\ running \subseteq Nat
    /\ words \in Nat /\ files \in Nat /\ presses \in Nat /\ lost \in Nat

Init ==
    /\ tray = {} /\ uploads = {} /\ draft = {} /\ sends = {} /\ deletes = {}
    /\ place = 0 /\ watched = 0
    /\ file = [f \in Files |-> "none"] /\ chats = 0 /\ questions = {} /\ running = {}
    /\ dismissed = {} /\ overtaken = {} /\ words = 0 /\ files = 0 /\ presses = 0 /\ lost = 0

Busy == place # 0 /\ watched = place

Waits == Patient => sends = {}

-----------------------------------------------------------------------------
(* The tray.                                                               *)

(* Every chip takes a place, whatever became of it.                        *)
Room == MaxAttached - Cardinality(tray)

(* Some files are dropped; those past the limit are refused visibly.       *)
Add(n) ==
    /\ Waits /\ files + n <= MaxFiles
    /\ tray' = tray \union
         {[id |-> files + i, status |-> IF i <= Room THEN "uploading" ELSE "error"] : i \in 1 .. n}
    /\ uploads' = uploads \union {[id |-> files + i, answer |-> "none"] :
                                     i \in {j \in 1 .. n : j <= Room}}
    /\ files' = files + n
    /\ UNCHANGED <<server, draft, place, sends, watched, deletes, dismissed, overtaken, words,
                   presses, lost>>

ServerStores(u, a) ==
    /\ u.answer = "none"
    /\ uploads' = (uploads \ {u}) \union {[u EXCEPT !.answer = a]}
    /\ file' = IF a = "ready" THEN [file EXCEPT ![u.id] = "pending"] ELSE file
    /\ UNCHANGED <<tray, draft, place, sends, watched, deletes, chats, questions, running,
                   dismissed, overtaken, words, files, presses, lost>>

Replace(items, id, status) ==
    {IF item.id = id THEN [item EXCEPT !.status = status] ELSE item : item \in items}

Uploaded(u) ==
    /\ u.answer # "none"
    /\ tray' = Replace(tray, u.id, u.answer)
    /\ uploads' = uploads \ {u}
    /\ UNCHANGED <<server, draft, place, sends, watched, deletes, dismissed, overtaken, words,
                   files, presses, lost>>

(* The upload is aborted, if it is not too late; a file that is there is   *)
(* deleted.                                                                *)
Dismiss(item) ==
    /\ Waits
    /\ tray' = {i \in tray : i.id # item.id}
    /\ uploads' = {u \in uploads : u.id # item.id}
    /\ \/ UNCHANGED file
       \/ [id |-> item.id, answer |-> "none"] \in uploads
          /\ file' = [file EXCEPT ![item.id] = "pending"]
    /\ deletes' = IF item.status = "ready" THEN deletes \union {item.id} ELSE deletes
    /\ dismissed' = dismissed \union {item.id}
    /\ UNCHANGED <<draft, place, sends, watched, overtaken, chats, questions, running, words,
                   files, presses, lost>>

(* A file that goes with a message is not deleted.                         *)
Deletable(f) == file[f] = "pending"

Delete(f) ==
    /\ file' = IF Deletable(f) THEN [file EXCEPT ![f] = "none"] ELSE file
    /\ deletes' = deletes \ {f}
    /\ UNCHANGED <<tray, uploads, draft, place, sends, watched, chats, questions, running,
                   dismissed, overtaken, words, files, presses, lost>>

-----------------------------------------------------------------------------
(* The field.                                                              *)

Type ==
    /\ Waits /\ ~Busy /\ words < MaxWords
    /\ draft' = draft \union {words + 1} /\ words' = words + 1
    /\ UNCHANGED <<server, tray, uploads, place, sends, watched, deletes, dismissed, overtaken,
                   files, presses, lost>>

HasSendableContent == draft # {} \/ ReadyIds # {}

TrayWhileSending == tray

(* Only the button looks at the uploads.  What is sent is what there is    *)
(* now, whatever happens until a conversation has been created.            *)
Press(key) ==
    /\ Waits /\ presses < MaxPresses
    /\ HasSendableContent /\ ~Busy
    /\ key = "click" => ~Uploading
    /\ presses' = presses + 1
    /\ sends' = sends \union
         {[id |-> presses + 1, words |-> draft, files |-> ReadyIds, chat |-> place,
           step |-> IF place = 0 THEN "create" ELSE "send", answer |-> "none"]}
    /\ draft' = {} /\ tray' = TrayWhileSending
    /\ overtaken' = overtaken \union With("uploading")
    /\ UNCHANGED <<server, uploads, place, watched, deletes, dismissed, words, files, lost>>

-----------------------------------------------------------------------------
(* The server.                                                             *)

Answer(s, t) == sends' = (sends \ {s}) \union {t}
SameComposer ==
    UNCHANGED <<tray, uploads, draft, place, watched, deletes, dismissed, overtaken, words, files,
                presses>>

CreateChat(s) ==
    /\ s.step = "create" /\ s.answer = "none"
    /\ chats' = chats + 1
    /\ Answer(s, [s EXCEPT !.answer = "accepted", !.chat = chats + 1])
    /\ UNCHANGED <<file, questions, running, lost>> /\ SameComposer

(* The files become the question's.                                        *)
Accept(s) ==
    /\ s.step = "send" /\ s.answer = "none"
    /\ s.chat \notin running /\ \A f \in s.files : file[f] = "pending"
    /\ file' = [f \in Files |-> IF f \in s.files THEN "linked" ELSE file[f]]
    /\ questions' = questions \union {[words |-> s.words, files |-> s.files]}
    /\ running' = running \union {s.chat}
    /\ Answer(s, [s EXCEPT !.answer = "accepted"])
    /\ UNCHANGED <<chats, lost>> /\ SameComposer

(* For these reasons or for one of its own.                                *)
Refuse(s) ==
    /\ s.answer = "none"
    /\ Answer(s, [s EXCEPT !.answer = "refused"])
    /\ UNCHANGED <<server, lost>> /\ SameComposer

LoseAnswer(s) ==
    /\ lost < MaxLost /\ s.answer = "accepted"
    /\ Answer(s, [s EXCEPT !.answer = "lost"])
    /\ lost' = lost + 1
    /\ UNCHANGED server /\ SameComposer

EndRun(c) ==
    /\ running' = running \ {c}
    /\ UNCHANGED <<file, chats, questions, sends, lost>> /\ SameComposer

-----------------------------------------------------------------------------
(* Answers.                                                                *)

(* The reader is taken to the conversation that was created.               *)
Created(s) ==
    /\ s.step = "create" /\ s.answer = "accepted"
    /\ place' = s.chat
    /\ Answer(s, [s EXCEPT !.step = "send", !.answer = "none"])
    /\ UNCHANGED <<server, tray, uploads, draft, watched, deletes, dismissed, overtaken, words,
                   files, presses, lost>>

Cleared == {}

Started(s) ==
    /\ s.step = "send" /\ s.answer = "accepted"
    /\ watched' = s.chat /\ tray' = Cleared
    /\ sends' = sends \ {s}
    /\ UNCHANGED <<server, uploads, draft, place, deletes, dismissed, overtaken, words, files,
                   presses, lost>>

(* A slip: the text goes back only when the question was refused.          *)
GivenBackByTheQuestion(s) == IF s.step = "send" THEN s.words ELSE draft
GivenBack(s) == s.words

Failed(s) ==
    /\ s.answer \in {"refused", "lost"}
    /\ draft' = GivenBack(s)
    /\ sends' = sends \ {s}
    /\ overtaken' = overtaken \ Ids(tray)
    /\ UNCHANGED <<server, tray, uploads, place, watched, deletes, dismissed, words, files,
                   presses, lost>>

Ended ==
    /\ watched # 0 /\ watched \notin running
    /\ watched' = 0
    /\ UNCHANGED <<server, tray, uploads, draft, place, sends, deletes, dismissed, overtaken,
                   words, files, presses, lost>>

-----------------------------------------------------------------------------
Next ==
    \/ \E n \in Files : Add(n)
    \/ \E u \in uploads : Uploaded(u) \/ \E a \in {"ready", "error"} : ServerStores(u, a)
    \/ \E item \in tray : Dismiss(item)
    \/ \E f \in deletes : Delete(f)
    \/ Type \/ Ended
    \/ \E key \in Keys : Press(key)
    \/ \E s \in sends : \/ CreateChat(s) \/ Accept(s) \/ Refuse(s) \/ LoseAnswer(s)
                        \/ Created(s) \/ Started(s) \/ Failed(s)
    \/ \E c \in running : EndRun(c)

-----------------------------------------------------------------------------
(* App.tsx on a send that fails: the text goes back in the composer, so it *)
(* is not simply lost.  Every word is in the field, on its way, or in a    *)
(* question.                                                               *)
NothingTypedIsLost ==
    \A w \in 1 .. words :
        w \in draft \/ (\E s \in sends : w \in s.words) \/ (\E q \in questions : w \in q.words)

(* App.tsx on the tray: cleared earlier, a failed send would lose the      *)
(* files.  A file the server has taken stays in the tray, goes with a      *)
(* question, was taken out by the reader, or was still uploading when the  *)
(* question was sent with the key.                                         *)
NoFileIsLost ==
    \A f \in Files : file[f] = "pending" => f \in Ids(tray) \union dismissed \union overtaken

(* Once nothing is being sent, and unless an answer was lost, a chip that  *)
(* is ready can go with a question.                                        *)
ReadyCanBeSent == sends = {} /\ lost = 0 => \A f \in ReadyIds : file[f] = "pending"
=============================================================================
