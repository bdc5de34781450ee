------------------------------- MODULE Import -------------------------------
(***************************************************************************)
(* POST /me/import (routes/me.ts): the conversations of a Claude export,   *)
(* what they produced, and the memories, are written one after the other,  *)
(* and the index is rebuilt at the end.  Meanwhile the reader sends,       *)
(* deletes and takes notes, uploads the same archive again, or the server  *)
(* stops.  What a message becomes is the subject of ClaudeExport.          *)
(***************************************************************************)
EXTENDS Integers, Sequences, FiniteSets

CONSTANTS Archive,    \* conversations: [uuid : "canonical" | "other",
                      \*   transcript : "good" | "none" | "twice", produced : Nat]
          MemoryFiles, \* paths of the memories: [words, joint]
          Notes,      \* names of memories the reader writes
          Imports,    \* 1 .. n, requests in the order they arrive
          Together,   \* bound: requests that run at the same time
          Actions     \* bound: what the reader does

ImportAssumption == Together \in Nat \ {0} /\ Actions \in Nat

VARIABLES files,     \* conversation -> what its file holds
          index,     \* conversations in chats.json
          artifacts, \* those stored: [source, n, request, link]
          memories,  \* name -> who wrote it
          requests,  \* the requests
          deleted,   \* conversations the reader deleted
          acted

vars == <<files, index, artifacts, memories, requests, deleted, acted>>

(* A conversation without a canonical id gets a new one in each request.   *)
IdOf(c, r) == [source |-> c, fresh |-> IF Archive[c].uuid = "canonical" THEN 0 ELSE r]
Ids == [source : DOMAIN Archive, fresh : {0} \union Imports]

(* Every run of characters outside the alphabet becomes one hyphen, so     *)
(* that the words are all that is left of a path.                          *)
memoryNameFrom(path) == path.words
MemoryNames == {memoryNameFrom(MemoryFiles[i]) : i \in DOMAIN MemoryFiles} \union Notes

Idle == [pc |-> "idle", at |-> 1, art |-> 0, existing |-> {}, imported |-> {}]

Init ==
    /\ files = [id \in Ids |-> "none"]
    /\ index = {} /\ artifacts = {} /\ deleted = {}
    /\ memories = [name \in MemoryNames |-> "none"]
    /\ requests = [r \in Imports |-> Idle]
    /\ acted = 0

Running == {r \in Imports : requests[r].pc \notin {"idle", "done", "failed"}}
Goto(r, pc) == [requests EXCEPT ![r].pc = pc]
Current(r) == Archive[requests[r].at]
Id(r) == IdOf(requests[r].at, r)

Begin(r) ==
    /\ requests[r].pc = "idle" /\ \A s \in Imports : s < r => requests[s].pc # "idle"
    /\ Cardinality(Running) < Together
    /\ requests' = Goto(r, "exists")
    /\ UNCHANGED <<files, index, artifacts, memories, deleted, acted>>

(* The next conversation, unless it is here already.                       *)
(* A slip: what it produced is stored all the same.                        *)
ExistsKeepsTheWork(r) ==
    /\ requests[r].pc = "exists" /\ requests[r].at <= Len(Archive)
    /\ requests' = IF files[Id(r)] # "none" \/ Current(r).transcript = "none"
                   THEN Goto(r, "artifacts") ELSE Goto(r, "write")
    /\ UNCHANGED <<files, index, artifacts, memories, deleted, acted>>
Exists(r) ==
    /\ requests[r].pc = "exists" /\ requests[r].at <= Len(Archive)
    /\ requests' = IF files[Id(r)] # "none" THEN [requests EXCEPT ![r].at = @ + 1]
                   ELSE IF Current(r).transcript = "none" THEN Goto(r, "artifacts")
                   ELSE Goto(r, "write")
    /\ UNCHANGED <<files, index, artifacts, memories, deleted, acted>>

(* writeImported(): the file is written, then read back by the parser,     *)
(* which refuses a message id that occurs twice.                           *)
Write(r) ==
    /\ requests[r].pc = "write"
    /\ files' = [files EXCEPT ![Id(r)] = Current(r).transcript]
    /\ requests' = Goto(r, "load")
    /\ UNCHANGED <<index, artifacts, memories, deleted, acted>>

LoadBack(r) ==
    /\ requests[r].pc = "load"
    /\ requests' = IF files[Id(r)] \in {"none", "twice"} THEN Goto(r, "failed")
                   ELSE [requests EXCEPT ![r].pc = "artifacts", ![r].imported = @ \union {Id(r)}]
    /\ UNCHANGED <<files, index, artifacts, memories, deleted, acted>>

(* An artifact the store refuses, too large or over the quota, is skipped. *)
StoreArtifact(r) ==
    /\ requests[r].pc = "artifacts" /\ requests[r].art < Current(r).produced
    /\ requests' = [requests EXCEPT ![r].art = @ + 1]
    /\ \/ artifacts' = artifacts \union
               {[source |-> requests[r].at, n |-> requests[r].art, request |-> r,
                 link |-> Current(r).transcript # "none"]}
       \/ UNCHANGED artifacts
    /\ UNCHANGED <<files, index, memories, deleted, acted>>

NextConversation(r) ==
    /\ requests[r].pc = "artifacts" /\ requests[r].art = Current(r).produced
    /\ requests' = [requests EXCEPT ![r].pc = "exists", ![r].at = @ + 1, ![r].art = 0]
    /\ UNCHANGED <<files, index, artifacts, memories, deleted, acted>>

ListMemories(r) ==
    /\ requests[r].pc = "exists" /\ requests[r].at > Len(Archive)
    /\ requests' = [requests EXCEPT ![r].pc = "memory", ![r].at = 1,
                                    ![r].existing = {m \in MemoryNames : memories[m] # "none"}]
    /\ UNCHANGED <<files, index, artifacts, memories, deleted, acted>>

(* The next memory, unless its name was there when they were listed.  One  *)
(* that is refused, too large or over the quota, ends the request.         *)
StoreMemory(r) ==
    /\ requests[r].pc = "memory" /\ requests[r].at <= Len(MemoryFiles)
    /\ LET name == memoryNameFrom(MemoryFiles[requests[r].at])
       IN  \/ /\ name \in requests[r].existing
              /\ requests' = [requests EXCEPT ![r].at = @ + 1]
              /\ UNCHANGED memories
           \/ /\ name \notin requests[r].existing
              /\ memories' = [memories EXCEPT ![name] = "imported"]
              /\ requests' = [requests EXCEPT ![r].at = @ + 1, ![r].existing = @ \union {name}]
           \/ /\ name \notin requests[r].existing
              /\ requests' = Goto(r, "failed")
              /\ UNCHANGED memories
    /\ UNCHANGED <<files, index, artifacts, deleted, acted>>

OnDisk == {id \in Ids : files[id] # "none"}

Rebuild(r) ==
    /\ requests[r].pc = "memory" /\ requests[r].at > Len(MemoryFiles)
    /\ index' = IF requests[r].imported # {} THEN OnDisk ELSE index
    /\ requests' = Goto(r, "done")
    /\ UNCHANGED <<files, artifacts, memories, deleted, acted>>

Reader == acted < Actions /\ acted' = acted + 1

(* A message is sent in a conversation that came from an archive.          *)
Send(id) ==
    /\ Reader /\ files[id] = "good"
    /\ files' = [files EXCEPT ![id] = "continued"]
    /\ index' = index \union {id}
    /\ UNCHANGED <<artifacts, memories, requests, deleted>>

Delete(id) ==
    /\ Reader /\ files[id] # "none"
    /\ files' = [files EXCEPT ![id] = "none"]
    /\ index' = index \ {id}
    /\ deleted' = deleted \union {id.source}
    /\ UNCHANGED <<artifacts, memories, requests>>

TakeNote(name) ==
    /\ Reader
    /\ memories' = [memories EXCEPT ![name] = "reader"]
    /\ UNCHANGED <<files, index, artifacts, requests, deleted>>

(* The process dies; the index is not dirty, and the next start leaves it. *)
Stop ==
    /\ Running # {} /\ Reader
    /\ requests' = [r \in Imports |-> IF r \in Running THEN [requests[r] EXCEPT !.pc = "failed"]
                                      ELSE requests[r]]
    /\ UNCHANGED <<files, index, artifacts, memories, deleted>>

Import(r) ==
    \/ Begin(r) \/ Exists(r) \/ Write(r) \/ LoadBack(r) \/ StoreArtifact(r)
    \/ NextConversation(r) \/ ListMemories(r) \/ StoreMemory(r) \/ Rebuild(r)

Next ==
    \/ \E r \in Imports : Import(r)
    \/ \E id \in Ids : Send(id) \/ Delete(id)
    \/ \E name \in MemoryNames : TakeNote(name)
    \/ Stop

Spec == Init /\ [][Next]_vars

-----------------------------------------------------------------------------

SourcesAt(a) == Archive[a.source]
SameWork(a, b) == a.source = b.source /\ a.n = b.n

(* "importing the same archive twice would otherwise add a second copy of  *)
(* every artifact to a list that has no way to tell them apart" (me.ts):   *)
(* what a conversation with a canonical id and a transcript produced is    *)
(* stored once, as long as the reader does not delete the conversation.    *)
ArtifactsOnce ==
    \A a, b \in artifacts :
        /\ SourcesAt(a).uuid = "canonical" /\ SourcesAt(a).transcript = "good"
        /\ a.source \notin deleted /\ SameWork(a, b)
        => a = b

(* Every conversation that an answered import reports is in the index,     *)
(* unless the reader has deleted it.                                       *)
ReportedIsListed ==
    \A r \in Imports : requests[r].pc = "done" =>
        \A id \in requests[r].imported : id.source \in deleted \/ id \in index
=============================================================================
