----------------------------- MODULE Delimiters -----------------------------
(***************************************************************************)
(* One delimiter line of the file format (storage/markdown.ts):            *)
(* delimiterFor() and quote() write it, parseDelimiter() and readValue()   *)
(* read it, and validateAttributes() decides what a type may carry.  A     *)
(* line is a sequence of words; a value that may hold anything, the name   *)
(* of a provider or of a model, is a sequence of characters.               *)
(***************************************************************************)
EXTENDS Integers, SequencesExt, FiniteSets

CONSTANTS Absent,
          MaxName,       \* bound: characters of a name
          MaxAttachments, \* attachments of one message (validateAttributes())
          Attachments    \* bound: numbers of attachments that are tried

DelimitersAssumption ==
    /\ MaxName \in Nat /\ MaxAttachments \in Nat \ {0}
    /\ Attachments \subseteq 1 .. MaxAttachments

VARIABLES message, \* the message whose delimiter is written
          spaced   \* somebody put more white space into the line

vars == <<message, spaced>>

Statuses == {"complete", "error"}
Keys == {"id", "status", "provider", "model", "attachments", "time", "createdAt", "error"}
Chars == {"x", "quote", "backslash", "greater", "white", "-->"}
Names == BoundedSeq(Chars, MaxName)

-----------------------------------------------------------------------------
(* Write.                                                                  *)

Literal(c) ==
    CASE c \in {"quote", "backslash"} -> <<"backslash", c>>
      [] c = "greater" -> <<"backslash", "u003e">>
      [] c = "-->" -> <<"x", "x", "backslash", "u003e">>
      [] OTHER -> <<c>>

quote(value) == <<"quote">> \o FlattenSeq([i \in DOMAIN value |-> Literal(value[i])]) \o <<"quote">>

Ids(n) == [i \in 1 .. n |-> "uuid"]

(* The attributes of a message, in their canonical order.                  *)
Attributes(m) ==
    LET if(cond, key, value) == IF cond THEN <<[key |-> key, value |-> value]>> ELSE << >>
    IN  if(TRUE, "id", <<"uuid">>)
        \o if(m.type = "assistant", "status", <<m.status>>)
        \o if(m.type = "assistant" /\ m.provider # Absent, "provider", quote(m.provider))
        \o if(m.type = "assistant" /\ m.model # Absent, "model", quote(m.model))
        \o if(m.type = "user" /\ m.attachments # 0, "attachments", quote(Ids(m.attachments)))
        \o if(m.type # "system" /\ m.time, "time", quote(<<"timestamp">>))
        \o if(m.type = "assistant" /\ m.error, "error", <<"CODE">>)

delimiterFor(m) ==
    LET as == Attributes(m)
    IN  <<"<!--", "white", "cc:", m.type>>
            \o FlattenSeq([i \in DOMAIN as |-> <<"white", as[i].key, "=">> \o as[i].value])
            \o <<"white", "-->">>

-----------------------------------------------------------------------------
(* Read.                                                                   *)

At(line, i) == IF i \in DOMAIN line THEN line[i] ELSE "end"

SkipWs(line, i) == Min({j \in i .. Len(line) + 1 : At(line, j) # "white"})

Closing(line, start) ==
    LET from[i \in 1 .. Len(line) + 2] ==
            IF i > Len(line) THEN 0
            ELSE IF line[i] = "backslash" THEN from[i + 2]
            ELSE IF line[i] = "quote" THEN i ELSE from[i + 1]
    IN  from[start + 1]

(* What JSON.parse() makes of the characters between the quotes.           *)
Unliteral(s) ==
    LET from[i \in 1 .. Len(s) + 2] ==
            IF i > Len(s) THEN << >>
            ELSE IF s[i] = "backslash"
                 THEN <<IF At(s, i + 1) = "u003e" THEN "greater" ELSE At(s, i + 1)>> \o from[i + 2]
                 ELSE <<s[i]>> \o from[i + 1]
    IN  from[1]

NoValue == [ok |-> FALSE, value |-> << >>, next |-> 0]

readValue(line, i) ==
    IF At(line, i) = "quote"
    THEN LET close == Closing(line, i)
         IN  IF close = 0 THEN NoValue
             ELSE [ok |-> TRUE, value |-> Unliteral(SubSeq(line, i + 1, close - 1)), next |-> close + 1]
    ELSE IF At(line, i) \in {"uuid", "CODE", "x"} \union Statuses
         THEN [ok |-> TRUE, value |-> <<line[i]>>, next |-> i + 1]
         ELSE NoValue

Refused == [ok |-> FALSE, type |-> "none", attributes |-> << >>]

(* The attributes from position i on, each after white space and under a   *)
(* key of its own.                                                         *)
AttributesFrom(line, first) ==
    LET from[i \in 1 .. Len(line) + 1] ==
            LET k == SkipWs(line, i)
                read == readValue(line, k + 2)
                rest == from[read.next]
            IN  IF At(line, k) = "-->"
                THEN [ok |-> SkipWs(line, k + 1) = Len(line) + 1, attributes |-> << >>]
                ELSE IF k = i \/ At(line, k) \notin Keys \/ At(line, k + 1) # "=" \/ ~read.ok
                THEN [ok |-> FALSE, attributes |-> << >>]
                ELSE IF ~rest.ok \/ \E n \in DOMAIN rest.attributes : rest.attributes[n].key = line[k]
                THEN [ok |-> FALSE, attributes |-> << >>]
                ELSE [ok |-> TRUE, attributes |-> <<[key |-> line[k], value |-> read.value]>> \o rest.attributes]
    IN  from[first]

parseDelimiter(line) ==
    LET open == SkipWs(line, 1)
        cc == SkipWs(line, open + 1)
        type == At(line, cc + 1)
        rest == AttributesFrom(line, cc + 2)
    IN  IF At(line, open) # "<!--" \/ At(line, cc) # "cc:" \/ type \notin {"system", "user", "reasoning", "assistant"}
           \/ ~rest.ok
        THEN Refused
        ELSE [ok |-> TRUE, type |-> type, attributes |-> rest.attributes]

Required(type) == IF type = "assistant" THEN {"id", "status"} ELSE {"id"}
Optional(type) ==
    CASE type = "user" -> {"attachments", "time", "createdAt"}
      [] type = "assistant" -> {"provider", "model", "time", "createdAt", "error"}
      [] OTHER -> {}

ValueOf(read, key) == read.attributes[CHOOSE i \in DOMAIN read.attributes : read.attributes[i].key = key].value

validateAttributes(read) ==
    LET keys == {read.attributes[i].key : i \in DOMAIN read.attributes}
    IN  /\ read.ok /\ Required(read.type) \subseteq keys
        /\ keys \subseteq Required(read.type) \union Optional(read.type)
        /\ "error" \in keys => ValueOf(read, "status") # <<"complete">>
        /\ "attachments" \in keys => Len(ValueOf(read, "attachments")) \in 1 .. MaxAttachments

-----------------------------------------------------------------------------

Unwritten == [type |-> "system", status |-> "complete", provider |-> Absent, model |-> Absent,
              attachments |-> 0, time |-> FALSE, error |-> FALSE]

Init == message = Unwritten /\ spaced = FALSE

AskWith(n, time) ==
    /\ message = Unwritten
    /\ message' = [Unwritten EXCEPT !.type = "user", !.attachments = n, !.time = time]
    /\ UNCHANGED spaced

Answer(status, provider, model, time, code) ==
    /\ message = Unwritten
    /\ message' = [Unwritten EXCEPT !.type = "assistant", !.status = status, !.provider = provider,
                                    !.model = model, !.time = time, !.error = code /\ status # "complete"]
    /\ UNCHANGED spaced

Space == ~spaced /\ spaced' = TRUE /\ UNCHANGED message

Next ==
    \/ \E n \in {0} \union Attachments, time \in BOOLEAN : AskWith(n, time)
    \/ \E status \in Statuses, provider, model \in Names \union {Absent}, time, code \in BOOLEAN :
           Answer(status, provider, model, time, code)
    \/ Space

Spec == Init /\ [][Next]_vars

-----------------------------------------------------------------------------

(* White space is doubled, but not inside a value.                         *)
Line ==
    LET line == delimiterFor(message)
    IN  IF spaced THEN <<"white">> \o SubSeq(line, 1, 4) \o <<"white">> \o SubSeq(line, 5, Len(line)) \o <<"white">>
        ELSE line

Named(read, key) ==
    IF \E i \in DOMAIN read.attributes : read.attributes[i].key = key THEN ValueOf(read, key) ELSE Absent

(* "-->" in a name is read back as the three characters it is.             *)
Spelled(name) ==
    IF name = Absent THEN Absent
    ELSE FlattenSeq([i \in DOMAIN name |-> IF name[i] = "-->" THEN <<"x", "x", "greater">> ELSE <<name[i]>>])

(* Every delimiter that is written is read, accepted, and holds what was   *)
(* written, whatever a provider or a model is called.                      *)
WrittenIsRead ==
    LET read == parseDelimiter(Line)
    IN  /\ read.ok /\ validateAttributes(read)
        /\ read.type = message.type
        /\ Named(read, "provider") = Spelled(message.provider)
        /\ Named(read, "model") = Spelled(message.model)
        /\ (Named(read, "time") # Absent) = message.time
        /\ (Named(read, "error") # Absent) = message.error

(* "a value can never contain -->" (quote()): to whatever reads the file   *)
(* as Markdown, a delimiter is one comment that ends with the line.        *)
OneComment ==
    LET line == delimiterFor(message)
    IN  \A i \in DOMAIN line : line[i] \in {"-->", "greater"} => i = Len(line)
=============================================================================
