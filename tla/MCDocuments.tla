----------------------------- MODULE MCDocuments -----------------------------
(***************************************************************************)
(* What is written, read and taken in: a delimiter line (Delimiters) and   *)
(* the file around it (Markdown), the files of a reply (Artifacts over     *)
(* FileBlocks), a message of an archive (ClaudeExport) and the import of   *)
(* an archive (Import), and the request to a model (Prompt).  They share   *)
(* no variable, so a behaviour exercises one of them, and all are in every *)
(* state.                                                                  *)
(***************************************************************************)
EXTENDS Integers, SequencesExt, TLC

CONSTANTS Parts, None,
          a, b,           \* Markdown
          Absent,         \* Delimiters
          r, s,           \* Artifacts
          p, q            \* ClaudeExport

VARIABLES part,
          messages, crlf, byHand,
          delimited, spaced,
          body, status, pc, next, blob, meta, down,
          blocks, written, presented, legacy, texts, thoughts, toolBlocks, converted,
          files, index, artifacts, memories, requests, deleted, acted,
          conversation, modalities, budget, systemPrompt

fileVars == <<messages, crlf, byHand>>
delimiterVars == <<delimited, spaced>>
artifactVars == <<body, status, pc, next, blob, meta, down>>
exportVars == <<blocks, written, presented, legacy, texts, thoughts, toolBlocks, converted>>
importVars == <<files, index, artifacts, memories, requests, deleted, acted>>
promptVars == <<conversation, modalities, budget, systemPrompt>>

-----------------------------------------------------------------------------
(* Conversations of two messages with three lines of text between them,    *)
(* files of three lines made by hand, and names of two characters.         *)
M == INSTANCE Markdown WITH Ids <- {a, b}, MaxMessages <- 2, MaxLines <- 3, MaxByHand <- 3

D == INSTANCE Delimiters WITH
         MaxName <- 2, MaxAttachments <- 10, Attachments <- {1, 2, 10}, message <- delimited

(* Any provider with some models.                                          *)
DelimitersNext ==
    \/ \E n \in {0, 1, 2, 10}, time \in BOOLEAN : D!AskWith(n, time)
    \/ \E how \in D!Statuses, provider \in D!Names \union {Absent},
          model \in {Absent, <<"quote">>, <<"-->">>}, time, code \in BOOLEAN :
           D!Answer(how, provider, model, time, code)
    \/ D!Space

-----------------------------------------------------------------------------
(* Two replies, among them one with two files of one name, one with a file *)
(* that has a block in it, and one with a file left open, and one crash;   *)
(* or one reply of four lines, which is only looked at.                    *)
Shown(n) == IF n = "a.md+bell" THEN "a.md" ELSE n

A == INSTANCE Artifacts WITH
         Names <- {"a.md", "a.md+bell", "b.sh", "c.js"}, Captured <- {"a.md", "a.md+bell", "c.js"},
         Display <- Shown, Runs <- {r, s}

Text == [is |-> "text"]
Fence(ch, len, info, file) ==
    [is |-> "fence", ch |-> ch, len |-> len, info |-> info, file |-> file]

Lines ==
    {Text, Fence("tick", 3, "", None), Fence("tick", 4, "", None), Fence("tilde", 3, "", None),
     Fence("tick", 3, "words", None), Fence("tick", 3, "backtick", None),
     Fence("tick", 3, "", "a.md"), Fence("tick", 4, "words", "a.md+bell"), Fence("tilde", 3, "words", "b.sh")}

Replies ==
    {<<Fence("tick", 3, "", "a.md"), Text, Fence("tick", 3, "", None),
       Fence("tick", 4, "words", "a.md+bell"), Fence("tick", 3, "", None), Fence("tick", 4, "", None)>>,
     <<Fence("tick", 4, "", "c.js"), Fence("tick", 3, "", "a.md"), Fence("tick", 3, "", None),
       Fence("tick", 4, "", None), Fence("tick", 3, "", "a.md"), Fence("tick", 3, "", None)>>,
     <<Fence("tick", 3, "", "a.md"), Fence("tick", 3, "", None), Fence("tick", 3, "", "c.js")>>}

Bodies ==
    CASE part = "artifacts" -> [{r, s} -> Replies]
      [] part = "blocks"    -> {(r :> text) @@ (s :> << >>) : text \in BoundedSeq(Lines, 4)}
      [] OTHER              -> {(r :> << >>) @@ (s :> << >>)}

ArtifactsNext ==
    \/ /\ \/ \E run \in {r, s} : A!Persisting(run) \/ A!Discard(run)
          \/ \E file \in A!Listed : A!RemoveArtifact(file)
       /\ UNCHANGED down
    \/ down = 0 /\ A!Crash /\ down' = 1

-----------------------------------------------------------------------------
(* A message of four blocks; an archive uploaded twice, of a conversation  *)
(* with two artifacts, one without a transcript, and one whose id is not   *)
(* canonical.                                                              *)
C == INSTANCE ClaudeExport WITH Paths <- {p, q}, MaxBlocks <- 4, message <- converted

I == INSTANCE Import WITH
         Archive <- <<[uuid |-> "canonical", transcript |-> "good", produced |-> 2],
                      [uuid |-> "canonical", transcript |-> "none", produced |-> 1],
                      [uuid |-> "other", transcript |-> "good", produced |-> 1]>>,
         MemoryFiles <- <<[words |-> <<"people">>, joint |-> "slash"]>>, Notes <- {},
         Imports <- 1 .. 2, Together <- 1, Actions <- 2

-----------------------------------------------------------------------------
(* Three messages, a file of each kind, models that take in everything or  *)
(* only text, and budgets around the cost of one question.                 *)
R == INSTANCE Prompt WITH
         Bodies <- {0, 4},
         Files <- {[kind |-> "image", size |-> 40], [kind |-> "text", size |-> 3],
                   [kind |-> "audio", size |-> 1]},
         Modalities <- {{}, {"image", "audio"}}, SystemPrompts <- {9}, Budgets <- {6, 15},
         Overhead <- 1, ImageFloor <- 3, PixelsPerToken <- 5, AudioTokens <- 4, Wrapper <- 2,
         MediaOnly <- 3, MaxMessages <- 3, messages <- conversation

-----------------------------------------------------------------------------
ASSUME Assumptions ==
    /\ M!MarkdownAssumption /\ D!DelimitersAssumption /\ A!NamesAssumption
    /\ C!ExportAssumption /\ I!ImportAssumption /\ R!PromptAssumption

Init ==
    /\ part \in Parts
    /\ M!Init
    /\ D!Init
    /\ \E bodies \in Bodies : A!Start(bodies)
    /\ down = 0
    /\ C!Init
    /\ I!Init
    /\ R!Init /\ (part # "prompt" => conversation = << >> /\ modalities = {} /\ budget = 6)

Next ==
    \/ /\ part = "file" /\ M!Next
       /\ UNCHANGED <<part, delimiterVars, artifactVars, exportVars, importVars, promptVars>>
    \/ /\ part = "delimiter" /\ DelimitersNext
       /\ UNCHANGED <<part, fileVars, artifactVars, exportVars, importVars, promptVars>>
    \/ /\ part = "artifacts" /\ ArtifactsNext
       /\ UNCHANGED <<part, fileVars, delimiterVars, exportVars, importVars, promptVars>>
    \/ /\ part = "export" /\ C!Next
       /\ UNCHANGED <<part, fileVars, delimiterVars, artifactVars, importVars, promptVars>>
    \/ /\ part = "import" /\ I!Next
       /\ UNCHANGED <<part, fileVars, delimiterVars, artifactVars, exportVars, promptVars>>
    \/ /\ part = "prompt" /\ R!Next
       /\ UNCHANGED <<part, fileVars, delimiterVars, artifactVars, exportVars, importVars>>

Spec == Init /\ [][Next]_<<part, fileVars, delimiterVars, artifactVars, exportVars, importVars, promptVars>>

-----------------------------------------------------------------------------
(* INV-09: what is written of a conversation is read back as it was,       *)
(* whatever its texts and names look like, and a file made by hand is      *)
(* refused or read whole, and settles after one round (markdown.ts).       *)
WrittenIsReadBack ==
    /\ D!WrittenIsRead /\ D!OneComment
    /\ M!RoundTrips /\ M!RefusedOrWhole /\ M!SettlesAfterOneRound

(* What is kept of a reply is whole files, one of a name (artifacts.ts).   *)
FilesAreKeptOnce == A!FilesAreWhole /\ A!PresentedOnce

(* The artifacts of a message of an archive are the files it presented, as *)
(* they were last written, and no artifact is reported as left out         *)
(* (artifactsIn(), bodyOf()).                                              *)
ArtifactsAreThePresentedFiles == C!ArtifactsAreThePresentedFiles /\ C!SavedIsNotReportedLost

(* An archive that is uploaded again adds no artifact again, and what an   *)
(* upload was told is imported can be found (me.ts).                       *)
ArtifactsOnce == I!ArtifactsOnce /\ I!ReportedIsListed

(* The longest end of the conversation that fits is sent, and nothing in   *)
(* it that the model cannot take (prompt.ts).                              *)
LongestEndThatFits == R!LongestEndThatFits /\ R!OnlyWhatTheModelTakes
=============================================================================
