----------------------------- MODULE Artifacts -----------------------------
(***************************************************************************)
(* Artifacts (server/storage/artifacts.ts): the files that completed       *)
(* replies present are kept when the reply is stored                       *)
(* (generation/service.ts, #captureArtifacts()), and a reader removes them. *)
(***************************************************************************)
EXTENDS FileBlocks

CONSTANT Runs

VARIABLES body,    \* what each reply came to
          status,  \* and how it ended
          pc, next,\* how far the reply is stored, and which file is next
          blob, meta   \* the files: bytes, and the marker that they are complete

vars == <<body, status, pc, next, blob, meta>>

Artifact(r, i) == [of |-> r, nth |-> i, name |-> fileBlocksIn(body[r])[i].name]
Artifacts == [of : Runs, nth : Nat \ {0}, name : {Display(n) : n \in Captured}]

(* list(): what has metadata and bytes.                                    *)
Listed == meta \intersect blob

Start(bodies) ==
    /\ body = bodies
    /\ status = [r \in Runs |-> "streaming"]
    /\ pc = [r \in Runs |-> "running"]
    /\ next = [r \in Runs |-> 1]
    /\ blob = {} /\ meta = {}

Go(r, phase) == pc' = [pc EXCEPT ![r] = phase]

(* The reply is in the conversation.                                       *)
Store(r) ==
    /\ pc[r] = "running"
    /\ \E how \in {"completed", "partial"} :
           /\ status' = [status EXCEPT ![r] = how]
           /\ Go(r, IF how = "completed" THEN "look" ELSE "over")
    /\ UNCHANGED <<body, next, blob, meta>>

presentedAlready(a) == \E b \in Listed : b.of = a.of /\ b.name = a.name

(* A slip: nobody asks.                                                    *)
LookNot(r) ==
    /\ pc[r] = "look"
    /\ Go(r, IF next[r] > Len(fileBlocksIn(body[r])) THEN "over" ELSE "bytes")
    /\ UNCHANGED <<body, status, next, blob, meta>>

Look(r) ==
    /\ pc[r] = "look"
    /\ LET files == fileBlocksIn(body[r])
       IN  \/ next[r] > Len(files) /\ Go(r, "over") /\ UNCHANGED next
           \/ /\ next[r] <= Len(files)
              /\ IF presentedAlready(Artifact(r, next[r]))
                 THEN next' = [next EXCEPT ![r] = @ + 1] /\ UNCHANGED pc
                 ELSE Go(r, "bytes") /\ UNCHANGED next
    /\ UNCHANGED <<body, status, blob, meta>>

WriteBytes(r) ==
    /\ pc[r] = "bytes"
    /\ blob' = blob \union {Artifact(r, next[r])}
    /\ Go(r, "marker")
    /\ UNCHANGED <<body, status, next, meta>>

WriteMeta(r) ==
    /\ pc[r] = "marker"
    /\ meta' = meta \union {Artifact(r, next[r])}
    /\ next' = [next EXCEPT ![r] = @ + 1]
    /\ Go(r, "look")
    /\ UNCHANGED <<body, status, blob>>

(* A file the store refuses, or cannot write, costs that file.             *)
Discard(r) ==
    /\ pc[r] \in {"bytes", "marker"}
    /\ next' = [next EXCEPT ![r] = @ + 1]
    /\ Go(r, "look")
    /\ UNCHANGED <<body, status, blob, meta>>

RemoveArtifact(a) ==
    /\ a \in Listed
    /\ blob' = blob \ {a} /\ meta' = meta \ {a}
    /\ UNCHANGED <<body, status, pc, next>>

(* The process dies.  Recovery stores the message of a reply that was      *)
(* running as partial, and finds that of any other present.                *)
Crash ==
    /\ pc' = [r \in Runs |-> IF pc[r] = "over" THEN "over" ELSE "lost"]
    /\ UNCHANGED <<body, status, next, blob, meta>>

Recover(r) ==
    /\ pc[r] = "lost"
    /\ status' = [status EXCEPT ![r] = IF @ = "streaming" THEN "partial" ELSE @]
    /\ Go(r, "over")
    /\ UNCHANGED <<body, next, blob, meta>>

Persisting(r) == Store(r) \/ Look(r) \/ WriteBytes(r) \/ WriteMeta(r) \/ Recover(r)

-----------------------------------------------------------------------------
(* A file ends where its block does: at the first line of as many of the   *)
(* same marks, or more, and nothing else.                                  *)
FilesAreWhole ==
    \A r \in Runs : \A f \in ToSet(fileBlocksIn(body[r])) :
        LET opener == body[r][f.from - 1]
            ends(j) == /\ body[r][j].is = "fence" /\ body[r][j].info = "" /\ body[r][j].file = None
                       /\ body[r][j].ch = opener.ch /\ body[r][j].len >= opener.len
        IN  /\ f.to < Len(body[r]) /\ ends(f.to + 1)
            /\ \A j \in f.from .. f.to : ~ends(j)

(* A reply has one artifact of a name, however often its end is handled.   *)
(* (presentedAlready().)                                                   *)
PresentedOnce == \A a, b \in Listed : a.of = b.of /\ a.name = b.name => a = b

=============================================================================
