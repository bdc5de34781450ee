--------------------------- MODULE ModelSettings ----------------------------
(***************************************************************************)
(* An administrator's sections on models (client/AdminPanel.tsx and        *)
(* client/SamplerPanel.tsx): which models are hidden, and one number and   *)
(* the system prompt of each.  Requests overlap and are served and         *)
(* answered in any order; effects run with the render they belong to.      *)
(***************************************************************************)
EXTENDS Integers, FiniteSets

CONSTANTS Models, Prompts, None,
          Top,          \* the number is in 0 .. Top
          Default,      \* what the provider was launched with
          Typed,        \* what is typed into the number box; Empty is nothing
          Overrides,    \* numbers that are stored at first
          Patient,      \* the administrator waits until nothing is in flight
          Loaded,       \* the settings have been read before
          MaxWrites,    \* bound: requests
          MaxToggles,   \* bound: those that hide or show a model
          MaxFailures   \* bound: reads that fail

Empty == -1

ModelSettingsAssumption ==
    /\ {Top, MaxWrites, MaxToggles, MaxFailures} \subseteq Nat /\ Default \in 0 .. Top
    /\ Typed \subseteq -1 .. Top + 1 /\ Overrides \subseteq 0 .. Top \union {None}
    /\ {Patient, Loaded} \subseteq BOOLEAN /\ None \notin Models \union Prompts \union {"number", "prompt"}

VARIABLES hidden, sampler,  \* the server: the models hidden, and what is set for each
          data,             \* settings.data
          asking,           \* its request
          writes,           \* the requests to change something
          chosen,           \* the model whose panel it is
          focus,            \* "number", "prompt" or None
          draft,            \* drafts: the number box, None when nothing is typed
          prompt,           \* the text of the prompt's box
          meant,            \* history: what the administrator asked for
          written, toggles, failures

vars == <<hidden, sampler, data, asking, writes, chosen, focus, draft, prompt, meant, written, toggles, failures>>

Samplers == [number : (0 .. Top) \union {None}, prompt : Prompts \union {None}]
Settings == [hidden : SUBSET Models, sampler : [Models -> Samplers], known : BOOLEAN]
Write(field, values) ==
    [id : Nat, field : {field}, model : Models, value : values, served : BOOLEAN]
Writes == Write("hidden", SUBSET Models) \union Write("number", (0 .. Top) \union {None})
          \union Write("prompt", Prompts \union {None}) \union Write("all", {None})

TypeOK ==
    /\ hidden \in SUBSET Models /\ sampler \in [Models -> Samplers]
    /\ data \in Settings
    /\ asking \subseteq [answer : Settings]
    /\ writes \subseteq Writes
    /\ chosen \in Models /\ focus \in {None, "number", "prompt"}
    /\ draft \in Typed \union {None} /\ prompt \in Prompts \union {None}
    /\ meant \in [hidden : SUBSET Models, sampler : [Models -> Samplers]]
    /\ {written, toggles, failures} \subseteq Nat

Unset == [number |-> None, prompt |-> None]
Unknown == [hidden |-> {}, sampler |-> [m \in Models |-> Unset], known |-> FALSE]
Request == {[answer |-> Unknown]}

Init ==
    /\ hidden \in SUBSET Models
    /\ \E number \in Overrides : sampler = [m \in Models |-> [number |-> number, prompt |-> None]]
    /\ data = IF Loaded THEN [hidden |-> hidden, sampler |-> sampler, known |-> TRUE] ELSE Unknown
    /\ asking = (IF Loaded THEN {} ELSE Request) /\ writes = {}
    /\ chosen \in Models /\ focus = None /\ draft = None /\ prompt = None
    /\ meant = [hidden |-> hidden, sampler |-> sampler] /\ written = 0 /\ toggles = 0 /\ failures = 0

-----------------------------------------------------------------------------
(* The server.                                                             *)

(* A field that is null is removed; one the body leaves out stays.  The    *)
(* other route builds its document from a list without the samplers.       *)
Patched(old, w) == IF w.field = "all" THEN Unset ELSE [old EXCEPT ![w.field] = w.value]

Serve(w) ==
    /\ ~w.served
    /\ writes' = (writes \ {w}) \union {[w EXCEPT !.served = TRUE]}
    /\ IF w.field = "hidden"
       THEN hidden' = w.value /\ sampler' = [m \in Models |-> Unset]
       ELSE sampler' = [sampler EXCEPT ![w.model] = Patched(@, w)] /\ UNCHANGED hidden
    /\ UNCHANGED <<data, asking, chosen, focus, draft, prompt, meant, written, toggles, failures>>

AnswerSettings(q) ==
    /\ ~q.answer.known
    /\ asking' = {[answer |-> [hidden |-> hidden, sampler |-> sampler, known |-> TRUE]]}
    /\ UNCHANGED <<hidden, sampler, data, writes, chosen, focus, draft, prompt, meant, written, toggles, failures>>

-----------------------------------------------------------------------------
(* The settings the client holds.                                          *)

Stored(d, m) == d.sampler[m]

(* The effect: a different model is a different panel.                     *)
Restarts(d, m) == Stored(d, m).prompt # Stored(data, chosen).prompt \/ m # chosen

Render(d, m) ==
    /\ data' = d /\ chosen' = m
    /\ IF Restarts(d, m) THEN prompt' = Stored(d, m).prompt /\ draft' = None ELSE UNCHANGED <<prompt, draft>>

SettingsLand(q) ==
    /\ q.answer.known
    /\ asking' = {} /\ Render(q.answer, chosen)
    /\ UNCHANGED <<hidden, sampler, writes, focus, meant, written, toggles, failures>>

SettingsFail(q) ==
    /\ failures < MaxFailures /\ failures' = failures + 1
    /\ asking' = {}
    /\ UNCHANGED <<hidden, sampler, data, writes, chosen, focus, draft, prompt, meant, written, toggles>>

(* invalidateQueries(): a read that has begun is thrown away.              *)
ReadAgain == Request

WriteLands(w) ==
    /\ w.served
    /\ writes' = writes \ {w} /\ asking' = ReadAgain
    /\ UNCHANGED <<hidden, sampler, data, chosen, focus, draft, prompt, meant, written, toggles, failures>>

-----------------------------------------------------------------------------
(* What the administrator does.                                            *)

Quiet == asking = {} /\ writes = {}
Ready == Patient => Quiet

Save(field, model, value) ==
    /\ written' = written + 1
    /\ writes' = writes \union {[id |-> written, field |-> field, model |-> model, value |-> value, served |-> FALSE]}

Toggled(m) == IF m \in data.hidden THEN data.hidden \ {m} ELSE data.hidden \union {m}

Toggle(m) ==
    /\ Ready /\ focus = None /\ written < MaxWrites /\ toggles < MaxToggles
    /\ Save("hidden", m, Toggled(m)) /\ toggles' = toggles + 1
    /\ meant' = [meant EXCEPT !.hidden = IF m \in data.hidden THEN @ \ {m} ELSE @ \union {m}]
    /\ UNCHANGED <<hidden, sampler, data, asking, chosen, focus, draft, prompt, failures>>

Pick(m) ==
    /\ Ready /\ focus = None /\ m # chosen
    /\ Render(data, m)
    /\ UNCHANGED <<hidden, sampler, asking, writes, focus, meant, written, toggles, failures>>

Focus(box) ==
    /\ Ready /\ focus = None /\ focus' = box
    /\ UNCHANGED <<hidden, sampler, data, asking, writes, chosen, draft, prompt, meant, written, toggles, failures>>

Shown == LET number == Stored(data, chosen).number IN IF number = None THEN Default ELSE number

TypeNumber(text) ==
    /\ focus = "number" /\ draft' = text
    /\ UNCHANGED <<hidden, sampler, data, asking, writes, chosen, focus, prompt, meant, written, toggles, failures>>

(* Number(''), of the box that was emptied, is 0.                          *)
Clamped(text) == IF text = Empty THEN 0 ELSE IF text > Top THEN Top ELSE text

Meaning(text) == IF text = Empty THEN meant.sampler[chosen].number ELSE IF text > Top THEN Top ELSE text

BlurNumber ==
    /\ focus = "number" /\ focus' = None /\ draft' = None
    /\ IF draft \in {None, Shown} THEN UNCHANGED <<writes, meant, written>>
       ELSE /\ written < MaxWrites
            /\ Save("number", chosen, Clamped(draft))
            /\ meant' = [meant EXCEPT !.sampler[chosen].number = Meaning(draft)]
    /\ UNCHANGED <<hidden, sampler, data, asking, chosen, prompt, toggles, failures>>

Slide(number) ==
    /\ Ready /\ focus = None /\ written < MaxWrites /\ number # Shown
    /\ Save("number", chosen, number)
    /\ meant' = [meant EXCEPT !.sampler[chosen].number = number]
    /\ UNCHANGED <<hidden, sampler, data, asking, chosen, focus, draft, prompt, toggles, failures>>

TypePrompt(text) ==
    /\ focus = "prompt" /\ prompt' = text
    /\ UNCHANGED <<hidden, sampler, data, asking, writes, chosen, focus, draft, meant, written, toggles, failures>>

(* A slip: what was typed is saved when there was something before.        *)
OnlyAnother == prompt # Stored(data, chosen).prompt /\ Stored(data, chosen).prompt # None

PromptIsNew == prompt # Stored(data, chosen).prompt

BlurPrompt ==
    /\ focus = "prompt" /\ focus' = None
    /\ IF PromptIsNew
       THEN written < MaxWrites /\ Save("prompt", chosen, prompt)
       ELSE UNCHANGED <<writes, written>>
    /\ meant' = [meant EXCEPT !.sampler[chosen].prompt = prompt]
    /\ UNCHANGED <<hidden, sampler, data, asking, chosen, draft, prompt, toggles, failures>>

Undo ==
    /\ Ready /\ focus = None /\ written < MaxWrites /\ Stored(data, chosen).number # None
    /\ Save("number", chosen, None)
    /\ meant' = [meant EXCEPT !.sampler[chosen].number = None]
    /\ UNCHANGED <<hidden, sampler, data, asking, chosen, focus, draft, prompt, toggles, failures>>

(* There is something to reset.                                            *)
ResetAll ==
    /\ Ready /\ focus = None /\ written < MaxWrites /\ Stored(data, chosen) # Unset
    /\ Save("all", chosen, None)
    /\ meant' = [meant EXCEPT !.sampler[chosen] = Unset]
    /\ UNCHANGED <<hidden, sampler, data, asking, chosen, focus, draft, prompt, toggles, failures>>

-----------------------------------------------------------------------------
Next ==
    \/ \E w \in writes : Serve(w) \/ WriteLands(w)
    \/ \E q \in asking : AnswerSettings(q) \/ SettingsLand(q) \/ SettingsFail(q)
    \/ \E m \in Models : Toggle(m) \/ Pick(m)
    \/ \E box \in {"number", "prompt"} : Focus(box)
    \/ \E text \in Typed : TypeNumber(text)
    \/ BlurNumber
    \/ \E number \in 0 .. Top : Slide(number)
    \/ \E text \in Prompts \union {None} : TypePrompt(text)
    \/ BlurPrompt \/ Undo \/ ResetAll

Spec == Init /\ [][Next]_vars

-----------------------------------------------------------------------------
(* When everything is answered and every read succeeded, what is stored is *)
(* what was asked for.  A write that hides a model takes the samplers with *)
(* it (routes/admin.ts), and they are asked of no behaviour that has one.  *)
(* (queries.ts: request ownership is "one mechanism")                      *)
StoredAsMeant ==
    Quiet /\ focus = None /\ failures = 0 =>
        hidden = meant.hidden /\ (toggles = 0 => sampler = meant.sampler)

(* The prompt in the box is the one that is stored.  (SamplerPanel.tsx)    *)
BoxIsStored == Quiet /\ failures = 0 /\ focus = None => prompt = sampler[chosen].prompt
=============================================================================
