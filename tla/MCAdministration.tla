-------------------------- MODULE MCAdministration --------------------------
(***************************************************************************)
(* What an administrator sets and what it is used for: the providers in    *)
(* force and what they offer (Providers), one request to a provider        *)
(* (ProviderStream), the form on providers (ProviderForm), the sections on *)
(* models (ModelSettings) and the store of the settings (Settings).  They  *)
(* share no variable, so a behaviour exercises one of them, and all are in *)
(* every state.                                                            *)
(***************************************************************************)
EXTENDS Integers, Sequences, TLC

CONSTANTS Parts,        \* what is exercised
          None,
          Ids, Urls,                                   \* providers and their endpoints
          Readers, Editors, Warm, Fetches,             \* Providers
          Models, Offers, Barred,
          Configured,   \* the lists of providers there may be at first
          Asked,        \* the providers that are asked about and edited
          Frames, NoFragment, FrameBytes,              \* ProviderStream
          MaxResponseBytes, MaxArguments, MaxCalls,
          Names, Long, Keys, Expected,                 \* ProviderForm
          MaxRequests, MaxRestarts,
          Pairs, Prompts, Top, Default, Typed,         \* ModelSettings
          Overrides, Loaded, MaxWrites, MaxToggles, MaxFailures,
          SettingsRequests, Knobs, Fallback, Absent, Broken,  \* Settings
          Bodies,       \* what is asked of the settings
          HandWritten,  \* the files there may be at first, or made by hand
          Crashes       \* bound: crashes, in the part about the settings

VARIABLES part,
          file, entry, boot, cache, fetch, pc, job, held, on, todo, next, served,
          reader, frames, rest, parsed, pending, output, released, outcome, aborted, expired,
          hub, disk, shown, asking, requests, draft, editing, result, meant, sent, restarts,
          hidden, sampler, data, reread, writes, chosen, focus, typed, prompt, intended,
          written, toggles, failures,
          saved, current, up, at, body, document, down

providerVars == <<file, entry, boot, cache, fetch, pc, job, held, on, todo, next, served>>
streamVars == <<reader, frames, rest, parsed, pending, output, released, outcome, aborted, expired>>
formVars == <<hub, disk, shown, asking, requests, draft, editing, result, meant, sent, restarts>>
modelVars == <<hidden, sampler, data, reread, writes, chosen, focus, typed, prompt, intended,
               written, toggles, failures>>
settingsVars == <<saved, current, up, at, body, document, down>>

(* One of them: which one it is says nothing.                              *)
First(S) == CHOOSE x \in S : TRUE

-----------------------------------------------------------------------------
(* Readers and edits beside the warming of the cache; both may be early,   *)
(* before the list is loaded.                                              *)
P == INSTANCE Providers WITH Requests <- Readers \union Editors \union {Warm}

Reads == [kind : {"resolve"}, id : Asked, model : Models] \union [kind : {"list", "refresh"}, id : {None}]
Edits == [kind : {"add", "edit"}, id : Asked, url : Urls] \union [kind : {"remove"}, id : Asked]

(* Discoveries are interchangeable: the first that is free is begun.       *)
FirstFree ==
    \A d \in Fetches : fetch[d] = None /\ fetch'[d] # None => d = First({x \in Fetches : P!Free(x)})

ProvidersNext ==
    \/ P!LoadReads \/ P!LoadLands
    \/ \E r \in Readers \union Editors \union {Warm} : (P!Step(r) /\ FirstFree) \/ P!SaveFails(r)
    \/ \E r \in Readers, asked \in Reads : P!Arrive(r, asked)
    \/ \E r \in Editors, asked \in Edits : P!Arrive(r, asked)
    \/ \E d \in Fetches : P!Discovery(d)
    \/ \E i \in Ids : P!Expire(i)

(* Each endpoint has models of its own.                                    *)
Apart(f) == \A x, y \in DOMAIN f : f[x] = f[y] => x = y
OwnModels == CHOOSE f \in [Urls -> {{m} : m \in Models}] : Apart(f)
OwnEndpoints == {CHOOSE f \in [Ids -> Urls] : Apart(f)}

-----------------------------------------------------------------------------
S == INSTANCE ProviderStream WITH pc <- reader, part <- rest

(* A call has at most two pieces; the third index is beyond the limit.     *)
Delta(says, fragment, finish) ==
    [kind |-> "delta", says |-> says, fragment |-> fragment, finish |-> finish]
Piece(i, named, length) == [index |-> i, named |-> named, length |-> length]
Other(kind) == [kind |-> kind, says |-> << >>, fragment |-> NoFragment, finish |-> FALSE]

TenFrames ==
    {Delta(<<"reasoning", "content">>, NoFragment, FALSE),
     Delta(<< >>, Piece(0, TRUE, 0), FALSE),
     Delta(<< >>, Piece(0, FALSE, 1), FALSE),
     Delta(<< >>, Piece(0, TRUE, 2), FALSE),
     Delta(<< >>, Piece(1, TRUE, 1), FALSE),
     Delta(<< >>, Piece(2, TRUE, 1), FALSE),
     Delta(<< >>, NoFragment, TRUE),
     Delta(<<"content">>, Piece(1, FALSE, 1), TRUE),
     Other("junk"), Other("error")}

-----------------------------------------------------------------------------
(* Somebody who waits for each answer before the next request.             *)
F == INSTANCE ProviderForm WITH Patient <- TRUE, file <- disk

(* Nobody leaves the number box empty: that stores 0.                      *)
D == INSTANCE ModelSettings WITH
         Models <- Pairs, Patient <- TRUE, asking <- reread, draft <- typed, meant <- intended

(* One endpoint is behind a key.                                           *)
OneGuarded == [url \in Urls |-> IF url = First(Urls) THEN None ELSE First(Keys)]

-----------------------------------------------------------------------------
(* Requests of which none is built while another is written.               *)
T == INSTANCE Settings WITH
         Requests <- SettingsRequests, file <- saved, pc <- at, next <- document

(* Which of the requests that have not begun arrives next says nothing.    *)
InTurn(r) == at[r] = "idle" /\ r = First({x \in SettingsRequests : at[x] = "idle"})

SettingsNext ==
    \/ \E r \in SettingsRequests : T!Step(r) /\ (at[r] # "build" \/ T!Quiet) /\ UNCHANGED down
    \/ \E r \in SettingsRequests : T!SaveFails(r) /\ UNCHANGED down
    \/ \E r \in SettingsRequests, b \in Bodies : InTurn(r) /\ T!Arrive(r, b) /\ UNCHANGED down
    \/ down < Crashes /\ T!Crash /\ down' = down + 1
    \/ T!Boot /\ UNCHANGED down
    \/ \E doc \in HandWritten : T!ByHand(doc) /\ UNCHANGED down

Whole(pair) == [registration |-> "open", model |-> pair, hidden |-> {},
                samplers |-> [x \in Pairs |-> IF x = pair THEN Knobs ELSE {}], limits |-> TRUE]

Form(registration, model, hide) ==
    [kind |-> "settings", registration |-> registration, model |-> model, hidden |-> hide]
Knob(pair, set, clear) == [kind |-> "sampler", pair |-> pair, set |-> set, clear |-> clear]

SixBodies ==
    LET one == First(Pairs)
        other == First(Pairs \ {one})
    IN  {Form("open", Absent, Absent), Form("closed", None, Absent), Form(Absent, Absent, {other}),
         Knob(one, {}, Knobs), Knob(other, Knobs, {}), [kind |-> "founder"]}

ThreeFiles == {None, Broken, Whole(First(Pairs))}

-----------------------------------------------------------------------------
ASSUME Assumptions ==
    /\ P!OffersAssumption /\ P!BarredAssumption /\ P!WarmAssumption /\ P!NoneAssumption
    /\ Configured \subseteq P!Entries /\ Asked \subseteq Ids
    /\ S!FrameAssumption /\ F!ProviderFormAssumption /\ D!ModelSettingsAssumption
    /\ D!Empty \notin Typed
    /\ T!NoneAssumption /\ T!FallbackAssumption
    /\ Bodies \subseteq T!Body /\ HandWritten \subseteq T!Doc \union {None, Broken}
    /\ Crashes \in Nat

Init ==
    /\ part \in Parts
    /\ file \in Configured /\ P!Init
    /\ S!Init
    /\ F!Init /\ (part # "form" => hub[First(Ids)] # None /\ hub[First(Ids)].url = First(Urls))
    /\ D!Init /\ (part # "models" => chosen = First(Pairs) /\ hidden = {} /\ sampler[chosen] = D!Unset)
    /\ saved \in (IF part = "settings" THEN HandWritten ELSE {None}) /\ T!Init
    /\ down = 0

Next ==
    \/ /\ part = "providers" /\ ProvidersNext
       /\ UNCHANGED <<part, streamVars, formVars, modelVars, settingsVars>>
    \/ /\ part = "stream" /\ S!Next
       /\ UNCHANGED <<part, providerVars, formVars, modelVars, settingsVars>>
    \/ /\ part = "form" /\ F!Next
       /\ UNCHANGED <<part, providerVars, streamVars, modelVars, settingsVars>>
    \/ /\ part = "models" /\ D!Next
       /\ UNCHANGED <<part, providerVars, streamVars, formVars, settingsVars>>
    \/ /\ part = "settings" /\ SettingsNext
       /\ UNCHANGED <<part, providerVars, streamVars, formVars, modelVars>>

Spec == Init /\ [][Next]_<<part, providerVars, streamVars, formVars, modelVars, settingsVars>>

-----------------------------------------------------------------------------
(* A pair is accepted only for a model its provider offers (INV-18), and   *)
(* those who wait for a list share one discovery (catalog.ts).             *)
AcceptedWasOffered == P!AcceptedWasOffered /\ P!OneDiscoveryEach

(* The consumer is given the calls asked for, each whole, out of a reply   *)
(* that is held within its limits and let go of at its end (llamacpp.ts).  *)
CallsAreWhole == S!CallsAreWhole /\ S!HeldIsBounded /\ S!ReleasedAtTheEnd

(* Providers are as they were entered last, their keys too (buildEntry()). *)
StoredAsEntered == F!StoredAsEntered

(* What is stored of a model is what was asked for, and what the box of    *)
(* its prompt says (SamplerPanel.tsx).                                     *)
StoredAsMeant == D!StoredAsMeant /\ D!BoxIsStored

(* The settings in force are those a restart would read (settings.ts).     *)
FileIsInForce == T!FileIsInForce
=============================================================================
