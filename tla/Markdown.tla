------------------------------ MODULE Markdown ------------------------------
(***************************************************************************)
(* A conversation in its file (storage/markdown.ts): what                  *)
(* serializeConversation() writes and parseConversation() makes of it.     *)
(* A line of text is blank, plain, or a number of backslashes before       *)
(* something like a delimiter; it may end in a CR.  Of a delimiter the     *)
(* type, the id and whether its attributes are valid are kept.  The file   *)
(* is the one that was written, possibly with CRLF line ends, or one that  *)
(* somebody made by hand.  The front matter is left out.                   *)
(***************************************************************************)
EXTENDS Integers, SequencesExt

CONSTANTS Ids, None,
          MaxMessages, MaxLines, \* bounds: messages of a conversation, lines of text in it
          MaxByHand              \* bound: lines of a file made by hand

MarkdownAssumption == {MaxMessages, MaxLines, MaxByHand} \subseteq Nat

VARIABLES messages, \* the conversation that is written: [type, id, reasoning, body]
          crlf,     \* the file went through something that writes CRLF
          byHand    \* the lines of a file made by hand

vars == <<messages, crlf, byHand>>

Plain == [is |-> "plain", slashes |-> 0]
Blank == [is |-> "blank", slashes |-> 0]
Marker(n) == [is |-> "marker", slashes |-> n]
WithCR(line, cr) == [is |-> line.is, slashes |-> line.slashes, cr |-> cr]
Texts == {WithCR(line, FALSE) : line \in {Plain, Blank, Marker(0), Marker(1)}} \union {WithCR(Plain, TRUE)}

MESSAGE_TYPES == {"system", "user", "reasoning", "assistant"}
Delimiter(type, id) == [is |-> "delimiter", type |-> type, id |-> id, valid |-> TRUE]
Delimiters == [is : {"delimiter"}, type : MESSAGE_TYPES, id : Ids, valid : BOOLEAN]

Separator == WithCR(Blank, FALSE)
IsBlank(line) == line.is = "blank"

-----------------------------------------------------------------------------
(* Serialize.                                                              *)

(* A slip: only a bare delimiter is escaped.                               *)
EscapedBare(line) == IF line.is = "marker" /\ line.slashes = 0 THEN [line EXCEPT !.slashes = 1] ELSE line
Escaped(line) == IF line.is = "marker" THEN [line EXCEPT !.slashes = @ + 1] ELSE line

escapeBody(body) == [i \in DOMAIN body |-> Escaped(body[i])]

Block(delimiter, body) == <<delimiter>> \o escapeBody(body)

BlocksOf(m) ==
    IF m.reasoning = None THEN <<Block(Delimiter(m.type, m.id), m.body)>>
    ELSE <<Block(Delimiter("reasoning", m.id), m.reasoning), Block(Delimiter(m.type, m.id), m.body)>>

(* A blank line before each block.                                         *)
serializeConversation(ms) ==
    LET blocks == FlattenSeq([i \in DOMAIN ms |-> BlocksOf(ms[i])])
    IN  FlattenSeq([i \in DOMAIN blocks |-> <<Separator>> \o blocks[i]])

-----------------------------------------------------------------------------
(* Parse.                                                                  *)

(* What is read of a line whose end is a CRLF, if it is one.               *)
Line(line) == IF line.is = "delimiter" THEN line ELSE [line EXCEPT !.cr = FALSE]

(* What looks like a delimiter must be one: text that looks like one and   *)
(* is not escaped does not conform.                                        *)
LooksLikeDelimiter(line) == line.is = "delimiter" \/ (line.is = "marker" /\ line.slashes = 0)

trimBlankEdges(lines) ==
    LET said == {i \in DOMAIN lines : ~IsBlank(lines[i])}
    IN  IF said = {} THEN << >> ELSE SubSeq(lines, Min(said), Max(said))

Unescaped(line) == IF line.is = "marker" /\ line.slashes > 0 THEN [line EXCEPT !.slashes = @ - 1] ELSE line

bodyOf(lines) == LET body == trimBlankEdges(lines) IN [i \in DOMAIN body |-> Unescaped(body[i])]

Malformed == [ok |-> FALSE, messages |-> << >>]

(* The lines between one delimiter and the next.                           *)
Blocks(file) ==
    LET starts == {i \in DOMAIN file : LooksLikeDelimiter(file[i])}
        end(i) == Min({j \in starts : j > i} \union {Len(file) + 1})
        at == SetToSortSeq(starts, <)
    IN  [n \in DOMAIN at |-> [type |-> file[at[n]].type, id |-> file[at[n]].id,
                              body |-> bodyOf(SubSeq(file, at[n] + 1, end(at[n]) - 1))]]

LinesConform(file) ==
    LET starts == {i \in DOMAIN file : LooksLikeDelimiter(file[i])}
    IN  /\ \A i \in starts : file[i].is = "delimiter" /\ file[i].valid
        /\ \A i \in DOMAIN file : i < Min(starts \union {Len(file) + 1}) => IsBlank(file[i])

ReasoningConforms(blocks) ==
    \A n \in DOMAIN blocks :
        blocks[n].type = "reasoning" =>
            n < Len(blocks) /\ blocks[n + 1].type = "assistant" /\ blocks[n + 1].id = blocks[n].id

IdsConform(blocks) ==
    \A m, n \in DOMAIN blocks :
        blocks[m].id = blocks[n].id /\ blocks[m].type # "reasoning" /\ blocks[n].type # "reasoning" => m = n

Folded(blocks) ==
    LET own == SelectSeq([n \in DOMAIN blocks |-> n], LAMBDA n : blocks[n].type # "reasoning")
    IN  [i \in DOMAIN own |->
            LET n == own[i]
            IN  [type |-> blocks[n].type, id |-> blocks[n].id, body |-> blocks[n].body,
                 reasoning |-> IF n > 1 /\ blocks[n - 1].type = "reasoning" THEN blocks[n - 1].body ELSE None]]

parseConversation(lines) ==
    LET file == [i \in DOMAIN lines |-> Line(lines[i])]
    IN  IF ~LinesConform(file) THEN Malformed
        ELSE LET blocks == Blocks(file)
             IN  IF ReasoningConforms(blocks) /\ IdsConform(blocks)
                 THEN [ok |-> TRUE, messages |-> Folded(blocks)] ELSE Malformed

-----------------------------------------------------------------------------
(* Where the lines come from.                                              *)

Init == messages = << >> /\ byHand = << >> /\ crlf = FALSE

Used == {messages[i].id : i \in DOMAIN messages}
LinesIn(ms) ==
    FoldLeft(LAMBDA n, m : n + Len(m.body) + (IF m.reasoning = None THEN 0 ELSE Len(m.reasoning)), 0, ms)

AddMessage(type, id, thinks) ==
    /\ byHand = << >> /\ Len(messages) < MaxMessages /\ id \notin Used
    /\ thinks => type = "assistant"
    /\ messages' = Append(messages, [type |-> type, id |-> id, body |-> << >>,
                                     reasoning |-> IF thinks THEN << >> ELSE None])
    /\ UNCHANGED <<crlf, byHand>>

(* A line more, of the body or the reasoning of the last message.          *)
AddLine(line, field) ==
    /\ messages # << >> /\ LinesIn(messages) < MaxLines
    /\ field = "reasoning" => Last(messages).reasoning # None
    /\ messages' = [messages EXCEPT ![Len(messages)][field] = Append(@, line)]
    /\ UNCHANGED <<crlf, byHand>>

ThroughCRLF ==
    /\ messages # << >> /\ crlf' = TRUE
    /\ UNCHANGED <<messages, byHand>>

EditByHand(line) ==
    /\ messages = << >> /\ Len(byHand) < MaxByHand
    /\ byHand' = Append(byHand, line)
    /\ UNCHANGED <<messages, crlf>>

Next ==
    \/ \E type \in {"system", "user", "assistant"}, id \in Ids, thinks \in BOOLEAN : AddMessage(type, id, thinks)
    \/ \E line \in Texts, field \in {"body", "reasoning"} : AddLine(line, field)
    \/ ThroughCRLF
    \/ \E line \in Texts \union Delimiters : EditByHand(line)

Spec == Init /\ [][Next]_vars

-----------------------------------------------------------------------------

CR(lines) == [i \in DOMAIN lines |-> IF lines[i].is = "delimiter" THEN lines[i]
                                     ELSE [lines[i] EXCEPT !.cr = TRUE]]
Written == LET lines == serializeConversation(messages) IN IF crlf THEN CR(lines) ELSE lines

(* What of a body a file can hold: blank lines at its edges and a CR at    *)
(* the end of a line are not significant (ARCHITECTURE.md, section 7).     *)
Content(body) ==
    LET held == trimBlankEdges(body) IN [i \in DOMAIN held |-> [held[i] EXCEPT !.cr = FALSE]]
Canonical(ms) ==
    [i \in DOMAIN ms |-> [ms[i] EXCEPT !.body = Content(@),
                                       !.reasoning = IF @ = None THEN None ELSE Content(@)]]

(* INV-09: every conversation is read back as it was written, whatever its *)
(* texts look like and whatever the file's line ends became; no text can   *)
(* make, end or break a message.                                           *)
RoundTrips ==
    messages # << >> => parseConversation(Written) = [ok |-> TRUE, messages |-> Canonical(messages)]

(* Reading and writing settle after one round: a file that is read is      *)
(* written back so that it reads the same (the test of INV-09).            *)
SettlesAfterOneRound ==
    LET read == parseConversation(byHand)
    IN  read.ok => parseConversation(serializeConversation(read.messages)) = read

Said(lines) == Len(SelectSeq(lines, LAMBDA l : l.is \in {"plain", "marker"}))

SaidIn(m) == Said(m.body) + (IF m.reasoning = None THEN 0 ELSE Said(m.reasoning))

(* A file made by hand is refused or read whole: no line that says         *)
(* something is dropped, no two messages have one id, and what was thought *)
(* is with the reply of the same id (parseConversation()).                 *)
RefusedOrWhole ==
    LET read == parseConversation(byHand)
    IN  read.ok =>
            /\ FoldLeft(LAMBDA n, m : n + SaidIn(m), 0, read.messages) = Said(byHand)
            /\ \A i, j \in DOMAIN read.messages : read.messages[i].id = read.messages[j].id => i = j
            /\ \A k \in DOMAIN byHand :
                   byHand[k].is = "delimiter" =>
                       \E i \in DOMAIN read.messages :
                           /\ read.messages[i].id = byHand[k].id
                           /\ byHand[k].type = "reasoning" => read.messages[i].reasoning # None
=============================================================================
