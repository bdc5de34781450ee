---------------------------- MODULE ClaudeExport ----------------------------
(***************************************************************************)
(* One message of a Claude export becomes a message of a conversation and  *)
(* the artifacts it produced (conversation/importExport.ts: artifactsIn(), *)
(* bodyOf(), convertConversation()).  The blocks of the message are read   *)
(* one by one; a text, a thought or a file is named by its position.       *)
(***************************************************************************)
EXTENDS Integers, Sequences, FiniteSets

CONSTANTS Paths,
          MaxBlocks \* bound: blocks in one message

ExportAssumption == MaxBlocks \in Nat \ {0}

VARIABLES blocks,    \* the message as far as it was read
          written,   \* path -> position of the create_file that counts, 0 if none
          presented, \* paths in the order they were first presented
          legacy,    \* positions of the artifacts of the older tool
          texts, thoughts, toolBlocks,
          message    \* what the conversion returns

vars == <<blocks, written, presented, legacy, texts, thoughts, toolBlocks, message>>

Simple == [is : {"text", "thinking", "tool"}]
Files  == [is : {"create_file"}, path : Paths, empty : BOOLEAN]
Shown  == [is : {"present_files"}, path : Paths, publishable : BOOLEAN]
Legacy == [is : {"artifacts"}, command : {"create", "update"}]
Blocks == Simple \union Files \union Shown \union Legacy

Unread == [body |-> << >>, reasoning |-> << >>, artifacts |-> << >>, kept |-> FALSE, read |-> FALSE]

Init ==
    /\ blocks = << >> /\ presented = << >> /\ legacy = << >> /\ texts = << >> /\ thoughts = << >>
    /\ written = [p \in Paths |-> 0]
    /\ toolBlocks = 0
    /\ message = Unread

Here == Len(blocks) + 1

(* A slip: the first file written under a path is the one that is kept.    *)
WrittenFirst(w, b) ==
    IF b.is = "create_file" /\ w[b.path] = 0 THEN [w EXCEPT ![b.path] = Here] ELSE w
Written(w, b) ==
    IF b.is = "create_file" /\ ~b.empty THEN [w EXCEPT ![b.path] = Here] ELSE w

Presented(ps, b) ==
    IF b.is = "present_files" /\ b.publishable /\ ~\E i \in DOMAIN ps : ps[i] = b.path
    THEN Append(ps, b.path) ELSE ps

Legacies(ls, b) == IF b = [is |-> "artifacts", command |-> "create"] THEN Append(ls, Here) ELSE ls

KeptTools == {"create_file", "present_files", "artifacts"}

Dropped(n, b) == IF b.is \notin {"text", "thinking"} \union KeptTools THEN n + 1 ELSE n

Read(b) ==
    /\ ~message.read /\ Len(blocks) < MaxBlocks
    /\ blocks' = Append(blocks, b)
    /\ written' = Written(written, b)
    /\ presented' = Presented(presented, b)
    /\ legacy' = Legacies(legacy, b)
    /\ texts' = IF b.is = "text" THEN Append(texts, Here) ELSE texts
    /\ thoughts' = IF b.is = "thinking" THEN Append(thoughts, Here) ELSE thoughts
    /\ toolBlocks' = Dropped(toolBlocks, b)
    /\ UNCHANGED message

(* The presented files that were written, in the order of presentation.    *)
Paired == LET found == SelectSeq(presented, LAMBDA p : written[p] # 0)
          IN  [i \in DOMAIN found |-> written[found[i]]]

(* The attachments come last, each with the text that was read out of it   *)
(* or with nothing: their texts are numbered after those of the blocks.    *)
(* The rendered text of the message, 0, stands in when there is no other.  *)
(* Without a body the message is left out, but not its artifacts.          *)
Convert(extracted, rendered) ==
    /\ ~message.read
    /\ LET found == texts \o [i \in 1 .. extracted |-> Len(blocks) + i]
           body == IF found = << >> /\ rendered THEN <<0>> ELSE found
       IN  message' = [body |-> body, artifacts |-> Paired \o legacy, read |-> TRUE,
                       kept |-> body # << >>,
                       reasoning |-> IF body = << >> THEN << >> ELSE thoughts]
    /\ UNCHANGED <<blocks, written, presented, legacy, texts, thoughts, toolBlocks>>

Next == (\E b \in Blocks : Read(b)) \/ (\E extracted \in 0 .. 1, rendered \in BOOLEAN : Convert(extracted, rendered))

Spec == Init /\ [][Next]_vars

-----------------------------------------------------------------------------

At(is) == {i \in DOMAIN blocks : blocks[i].is = is}
LastWritten(i) ==
    /\ ~blocks[i].empty
    /\ \A j \in At("create_file") : j > i /\ blocks[j].path = blocks[i].path => blocks[j].empty
IsPresented(i) == \E j \in At("present_files") : blocks[j].publishable /\ blocks[j].path = blocks[i].path
IsWork(i) == \/ i \in At("create_file") /\ LastWritten(i) /\ IsPresented(i)
             \/ i \in At("artifacts") /\ blocks[i].command = "create"

(* The artifacts of a message are exactly the files it presented, each as  *)
(* it was last written, wherever in the message it was presented, and what *)
(* the older tool created; none is there twice (artifactsIn()).            *)
ArtifactsAreThePresentedFiles ==
    message.read =>
        LET found == message.artifacts
        IN  /\ {found[n] : n \in DOMAIN found} = {i \in DOMAIN blocks : IsWork(i)}
            /\ Cardinality({found[n] : n \in DOMAIN found}) = Len(found)

(* A block that became an artifact is not reported as left out: "reporting *)
(* it as one would tell the reader their work was lost at the moment it    *)
(* was saved" (bodyOf()).                                                  *)
SavedIsNotReportedLost ==
    toolBlocks <= Cardinality({i \in DOMAIN blocks : blocks[i].is \notin {"text", "thinking"} /\ ~IsWork(i)})
=============================================================================
