------------------------------- MODULE Prompt -------------------------------
(***************************************************************************)
(* assemblePrompt() (generation/prompt.ts): which messages of the          *)
(* conversation, and what of each, are sent to the model, and how they are *)
(* charged against its context.  A text is its length in bytes, a picture  *)
(* its area, 0 when its header could not be read.  The conversation grows  *)
(* by questions and replies; the prompt is taken when it ends in a         *)
(* question, which start() and regenerate() see to.                        *)
(***************************************************************************)
EXTENDS Integers, SequencesExt, FiniteSetsExt

CONSTANTS Bodies,        \* lengths of a body, 0 for none
          Files,         \* attachments: [kind, size]
          Modalities,    \* what models can take in, each a set of kinds
          SystemPrompts, \* lengths of the administrator's prompt, 0 for none
          Budgets,       \* contextTokens - maxOutputTokens
          Overhead,      \* MESSAGE_OVERHEAD_TOKENS
          ImageFloor, PixelsPerToken, AudioTokens,
          Wrapper,       \* bytes around a file that is inlined
          MediaOnly,     \* bytes of PROMPT_FOR_MEDIA_ONLY
          MaxMessages    \* bound: messages of the conversation

Kinds == {"text", "image", "audio"}

PromptAssumption ==
    /\ Bodies \subseteq Nat /\ SystemPrompts \subseteq Nat /\ Budgets \subseteq Int
    /\ \A f \in Files : f.kind \in Kinds /\ f.size \in Nat
    /\ \A m \in Modalities : m \subseteq {"image", "audio"}
    /\ {Overhead, ImageFloor, PixelsPerToken, AudioTokens, Wrapper, MediaOnly} \subseteq Nat \ {0}
    /\ MaxMessages \in Nat \ {0}

VARIABLES messages, modalities, budget, systemPrompt

vars == <<messages, modalities, budget, systemPrompt>>

-----------------------------------------------------------------------------
(* What a message costs.                                                   *)

CeilDiv(a, b) == (a + b - 1) \div b

estimateTokens(bytes) == CeilDiv(bytes, 3)

imageTokens(pixels) == Max({ImageFloor, CeilDiv(pixels, PixelsPerToken)})

Sum(f) == FoldLeft(LAMBDA a, b : a + b, 0, f)

FileCost(f) == IF f.kind = "image" THEN imageTokens(f.size) ELSE AudioTokens

costOf(turn) ==
    Overhead + estimateTokens(turn.text) + Sum([i \in DOMAIN turn.media |-> FileCost(turn.media[i])])

-----------------------------------------------------------------------------
(* What of a message is sent.                                              *)

(* Two newlines between the parts that are there.                          *)
Joined(parts) ==
    LET said == SelectSeq(parts, LAMBDA p : p # 0)
    IN  Sum(said) + (IF said = << >> THEN 0 ELSE 2 * (Len(said) - 1))

Media(files) == SelectSeq(files, LAMBDA f : f.found /\ f.kind \in modalities)

userMessage(m) ==
    LET texts == SelectSeq(m.files, LAMBDA f : f.found /\ f.kind = "text")
        text  == Joined(<<m.body>> \o [i \in DOMAIN texts |-> Wrapper + texts[i].size])
        media == Media(m.files)
    IN  [role |-> "user", media |-> media,
         text |-> IF media # << >> /\ text = 0 THEN MediaOnly ELSE text]

assistantMessage(m) == [role |-> "assistant", media |-> << >>, text |-> m.body]
systemMessage(bytes) == [role |-> "system", media |-> << >>, text |-> bytes]

Turns ==
    LET said == SelectSeq(messages, LAMBDA m : m.type = "user" \/ (m.type = "assistant" /\ m.body # 0))
    IN  [i \in DOMAIN said |-> IF said[i].type = "user" THEN userMessage(said[i])
                               ELSE assistantMessage(said[i])]

System ==
    LET own == SelectSeq(messages, LAMBDA m : m.type = "system")
    IN  (IF systemPrompt = 0 THEN << >> ELSE <<systemMessage(systemPrompt)>>)
            \o [i \in DOMAIN own |-> systemMessage(own[i].body)]

Cost(turns) == Sum([i \in DOMAIN turns |-> costOf(turns[i])])

-----------------------------------------------------------------------------
(* What fits.                                                              *)

Floor == Cost(System) + (IF Turns = << >> THEN 0 ELSE costOf(Last(Turns)))

Refused == budget <= 0 \/ Floor > budget

(* The newest turns, walking backwards while they fit.                     *)
(* A slip: a turn that does not fit is skipped and the walk goes on.       *)
KeptSkipping ==
    LET turns == Turns
        from[i \in 0 .. Len(turns)] ==
            IF i = 0 THEN << >> ELSE <<turns[Len(turns) + 1 - i]>>
        walk[i \in 0 .. Len(turns)] ==
            IF i = 0 THEN << >>
            ELSE IF Cost(System) + Cost(walk[i - 1]) + Cost(from[i]) > budget THEN walk[i - 1]
            ELSE from[i] \o walk[i - 1]
    IN  walk[Len(turns)]
Kept ==
    LET turns == Turns
        walk[i \in 1 .. Len(turns) + 1] ==
            LET after == walk[i + 1]
            IN  IF i > Len(turns) THEN << >>
                ELSE IF Len(after) # Len(turns) - i THEN after
                ELSE IF Cost(System) + Cost(after) + costOf(turns[i]) > budget THEN after
                ELSE <<turns[i]>> \o after
    IN  walk[1]

-----------------------------------------------------------------------------
(* How a conversation comes to a question.                                 *)

AtQuestion == messages # << >> /\ Last(messages).type = "user"

Init ==
    /\ messages \in {<< >>, <<[type |-> "system", body |-> 1, files |-> << >>]>>}
    /\ modalities \in Modalities /\ budget \in Budgets /\ systemPrompt \in SystemPrompts

Attached(fs) == [i \in DOMAIN fs |-> [kind |-> fs[i].kind, size |-> fs[i].size, found |-> TRUE]]

(* A model that cannot take in what is attached is refused.                *)
Question(body, fs, m) ==
    /\ Len(messages) < MaxMessages /\ ~AtQuestion
    /\ body # 0 \/ fs # << >>
    /\ \A i \in DOMAIN fs : fs[i].kind = "text" \/ fs[i].kind \in m
    /\ messages' = Append(messages, [type |-> "user", body |-> body, files |-> Attached(fs)])
    /\ modalities' = m
    /\ UNCHANGED <<budget, systemPrompt>>

Reply(body) ==
    /\ AtQuestion
    /\ messages' = Append(messages, [type |-> "assistant", body |-> body, files |-> << >>])
    /\ UNCHANGED <<modalities, budget, systemPrompt>>

(* With any model: what it can take in is not asked again.                 *)
Regenerate(m) ==
    /\ messages # << >> /\ Last(messages).type = "assistant"
    /\ messages' = Front(messages)
    /\ modalities' = m
    /\ UNCHANGED <<budget, systemPrompt>>

(* A file is deleted from under a message.                                 *)
Vanish(i, j) ==
    /\ messages[i].files[j].found
    /\ messages' = [messages EXCEPT ![i].files[j].found = FALSE]
    /\ UNCHANGED <<modalities, budget, systemPrompt>>

Next ==
    \/ \E body \in Bodies, fs \in BoundedSeq(Files, 2), m \in Modalities : Question(body, fs, m)
    \/ \E body \in Bodies : Reply(body)
    \/ \E m \in Modalities : Regenerate(m)
    \/ \E i \in DOMAIN messages : \E j \in DOMAIN messages[i].files : Vanish(i, j)

Spec == Init /\ [][Next]_vars

-----------------------------------------------------------------------------

NewestTurns(turns, n) == SubSeq(turns, Len(turns) - n + 1, Len(turns))

(* What is sent is the longest end of the conversation that fits with the  *)
(* system messages, and never less than the newest question; a request is  *)
(* refused exactly when these two do not fit (assemblePrompt()).           *)
LongestEndThatFits ==
    AtQuestion =>
        LET turns == Turns
            fits == {n \in 0 .. Len(turns) : Cost(System) + Cost(NewestTurns(turns, n)) <= budget}
        IN  IF Refused THEN fits \subseteq {0} \/ budget <= 0
            ELSE /\ Kept = NewestTurns(turns, Max(fits))
                 /\ Kept # << >>
                 /\ Last(Kept) = userMessage(Last(messages))

(* Nothing that the chosen model cannot take in is sent: one such file     *)
(* fails the whole request, and every later one of the conversation.       *)
OnlyWhatTheModelTakes ==
    AtQuestion => \A i \in DOMAIN Turns : \A j \in DOMAIN Turns[i].media : Turns[i].media[j].kind \in modalities

=============================================================================
