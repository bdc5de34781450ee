----------------------------- MODULE FileBlocks -----------------------------
(***************************************************************************)
(* The files a reply presents (shared/artifactBlocks.ts): fenced blocks    *)
(* whose info string has a file attribute.  A line is a run of backticks   *)
(* or tildes with what follows it, or anything else.                       *)
(***************************************************************************)
EXTENDS Integers, SequencesExt

CONSTANTS Names, Captured, \* the names whose extension is kept
          Display(_),      \* displayArtifactName()
          None

NamesAssumption == Captured \subseteq Names /\ None \notin Names

(* What follows the fence: nothing, words, words with a backtick in them,  *)
(* or an attribute that names a file.                                      *)
Info == {"", "words", "backtick"}
Text == [is |-> "text"]
Fences == [is : {"fence"}, ch : {"tick", "tilde"}, len : Nat, info : Info, file : Names \union {None}]

Opens(line) == line.is = "fence" /\ ~(line.ch = "tick" /\ line.info = "backtick")

Closes(line, opener) ==
    /\ line.is = "fence" /\ line.info = "" /\ line.file = None
    /\ line.ch = opener.ch /\ line.len >= opener.len

(* Where the block that a line opens is closed, 0 if it is not.            *)
Closer(body, i) ==
    LET ends == {j \in i + 1 .. Len(body) : Closes(body[j], body[i])}
    IN  IF ends = {} THEN 0 ELSE Min(ends)

FileAt(body, i, end) == [name |-> Display(body[i].file), from |-> i + 1, to |-> end - 1]

fileBlocksIn(body) ==
    LET after[i \in 1 .. Len(body) + 1] ==
            IF i > Len(body) THEN << >>
            ELSE IF ~Opens(body[i]) THEN after[i + 1]
            ELSE IF Closer(body, i) = 0 THEN << >>
            ELSE IF body[i].file \in Captured
                 THEN <<FileAt(body, i, Closer(body, i))>> \o after[Closer(body, i) + 1]
                 ELSE after[Closer(body, i) + 1]
    IN  after[1]

=============================================================================
