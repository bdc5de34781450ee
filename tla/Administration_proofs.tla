------------------------ MODULE Administration_proofs ------------------------
(***************************************************************************)
(* For any providers, readers, edits, bodies and crashes: a model is       *)
(* accepted only if its provider offers it, what an administrator types    *)
(* and means is what is stored, and the settings in force are those a      *)
(* restart would read.                                                     *)
(***************************************************************************)
EXTENDS MCAdministration, FiniteSetTheorems, TLAPS

vars == <<part, providerVars, streamVars, formVars, modelVars, settingsVars>>

-----------------------------------------------------------------------------
(* The settings.                                                           *)

(* What a request at work has been asked, and the document it saves.       *)
Saves ==
    /\ \A r \in SettingsRequests : at[r] \in {"resolve", "build", "write", "apply"} =>
           up /\ body[r] \in T!Body /\ (at[r] = "resolve" => body[r].kind = "sampler")
    /\ \A r \in SettingsRequests : T!Saving(r) => document[r] \in T!Doc

(* One at a time saves.  Before its write memory and file agree, and after *)
(* it the file is what it is about to put in force.                        *)
OneSaves ==
    /\ \A r, s \in SettingsRequests : T!Saving(r) /\ T!Saving(s) => r = s
    /\ \A r \in SettingsRequests :
           /\ at[r] = "write" => current = T!Load(saved)
           /\ at[r] = "apply" => saved = document[r]

SettingsInv == T!TypeOK /\ Saves /\ OneSaves /\ T!FileIsInForce

LEMMA LoadIsDoc ==
  ASSUME Assumptions, NEW f \in T!Doc \union {None, Broken}
  PROVE  T!Load(f) \in T!Doc /\ (f \in T!Doc => T!Load(f) = f)
<1>1. None \notin T!Doc /\ Broken \notin T!Doc
  BY DEF Assumptions, T!NoneAssumption
<1>2. T!Nothing \in T!Doc
  BY DEF T!Nothing, T!Doc, T!Mode
<1>3. QED
  BY <1>1, <1>2 DEF T!Load

LEMMA BuiltIsDoc ==
  ASSUME Assumptions, current \in T!Doc, NEW b \in T!Body
  PROVE  T!Built(b) \in T!Doc
<1>1. CASE b \in T!Form
  <2>1. b.kind = "settings" /\ T!Built(b) = T!Patched(b)
    BY <1>1 DEF T!Form, T!Built
  <2>2. T!Patched(b) \in T!Doc
    <3>1. PICK mode \in T!Mode \union {None} :
              mode = IF b.registration = Absent THEN current.registration ELSE b.registration
      BY <1>1 DEF T!Form, T!Doc
    <3>2. PICK model \in Pairs \union {None} :
              model = IF b.model = Absent THEN current.model ELSE b.model
      BY <1>1 DEF T!Form, T!Doc
    <3>3. PICK hide \in SUBSET Pairs :
              hide = IF b.hidden = Absent THEN current.hidden ELSE b.hidden
      BY <1>1 DEF T!Form, T!Doc
    <3>4. T!Patched(b) = [T!Nothing EXCEPT !.registration = mode, !.model = model, !.hidden = hide]
      BY <3>1, <3>2, <3>3, Zenon DEF T!Patched
    <3>5. QED
      BY <3>4 DEF T!Doc, T!Nothing
  <2>3. QED
    BY <2>1, <2>2
<1>2. CASE b \in T!Sampler
  <2>1. b.kind = "sampler" /\ b.pair \in Pairs /\ b.set \in SUBSET Knobs /\ T!Built(b) = T!Sampled(b)
    BY <1>2 DEF T!Sampler, T!Built
  <2>2. current.samplers[b.pair] \subseteq Knobs
    BY <2>1 DEF T!Doc
  <2>3. PICK knobs \in SUBSET Knobs : knobs = (current.samplers[b.pair] \ b.clear) \union b.set
    BY <2>1, <2>2
  <2>4. PICK set \in [Pairs -> SUBSET Knobs] : set = [current.samplers EXCEPT ![b.pair] = knobs]
    BY <2>1 DEF T!Doc
  <2>5. T!Sampled(b) = [current EXCEPT !.samplers = set, !.limits = FALSE]
    BY <2>3, <2>4 DEF T!Sampled
  <2>6. T!Sampled(b) \in T!Doc
    BY <2>5 DEF T!Doc
  <2>7. QED
    BY <2>1, <2>6
<1>3. CASE b \in T!Founder
  <2>1. b.kind = "founder" /\ T!Built(b) = T!Closed
    BY <1>3 DEF T!Founder, T!Built
  <2>2. T!Closed \in T!Doc
    BY DEF T!Closed, T!Doc, T!Mode
  <2>3. QED
    BY <2>1, <2>2
<1>4. QED
  BY <1>1, <1>2, <1>3 DEF T!Body

(* What becomes of those that do not move.                                 *)
LEMMA SettingsStay ==
  ASSUME SettingsInv, UNCHANGED <<saved, current, up, at, body, document>>
  PROVE  SettingsInv'
BY DEF SettingsInv, T!TypeOK, Saves, OneSaves, T!FileIsInForce, T!Saving, T!Quiet, T!Load, T!Nothing

LEMMA SettingsArrive ==
  ASSUME Assumptions, SettingsInv, NEW r \in SettingsRequests, NEW b \in T!Body, T!Arrive(r, b)
  PROVE  SettingsInv'
<1> DEFINE there == IF b.kind = "sampler" THEN "resolve" ELSE "build"
<1>1. /\ up /\ at[r] = "idle" /\ body' = [body EXCEPT ![r] = b] /\ at' = [at EXCEPT ![r] = there]
      /\ UNCHANGED <<saved, current, up, document>>
  BY DEF T!Arrive
<1>2. there \in {"resolve", "build"} /\ (there = "resolve" => b.kind = "sampler")
  OBVIOUS
<1> HIDE DEF there
<1>3. T!TypeOK'
  BY <1>1, <1>2 DEF SettingsInv, T!TypeOK
<1>4. \A s \in SettingsRequests : T!Saving(s)' <=> T!Saving(s)
  BY <1>1, <1>2 DEF SettingsInv, T!TypeOK, T!Saving
<1>5. Saves'
  BY <1>1, <1>2, <1>4 DEF SettingsInv, T!TypeOK, Saves
<1>6. OneSaves'
  BY <1>1, <1>2, <1>4 DEF SettingsInv, T!TypeOK, OneSaves, T!Load, T!Nothing
<1>7. T!FileIsInForce'
  BY <1>1, <1>4 DEF SettingsInv, T!FileIsInForce, T!Quiet, T!Load, T!Nothing
<1>8. QED
  BY <1>3, <1>5, <1>6, <1>7 DEF SettingsInv

LEMMA SettingsResolve ==
  ASSUME Assumptions, SettingsInv, NEW r \in SettingsRequests, T!Resolve(r)
  PROVE  SettingsInv'
<1>1. PICK there \in {"build", "failed"} :
         /\ at[r] = "resolve" /\ at' = [at EXCEPT ![r] = there]
         /\ UNCHANGED <<saved, current, up, body, document>>
  BY DEF T!Resolve
<1>2. T!TypeOK'
  BY <1>1 DEF SettingsInv, T!TypeOK
<1>3. \A s \in SettingsRequests : T!Saving(s)' <=> T!Saving(s)
  BY <1>1 DEF SettingsInv, T!TypeOK, T!Saving
<1>4. Saves'
  BY <1>1, <1>3 DEF SettingsInv, T!TypeOK, Saves
<1>5. OneSaves'
  BY <1>1, <1>3 DEF SettingsInv, T!TypeOK, OneSaves, T!Load, T!Nothing
<1>6. T!FileIsInForce'
  BY <1>1, <1>3 DEF SettingsInv, T!FileIsInForce, T!Quiet, T!Load, T!Nothing
<1>7. QED
  BY <1>2, <1>4, <1>5, <1>6 DEF SettingsInv

(* Nobody else is saving, so memory and file agree before the write.       *)
LEMMA SettingsBuild ==
  ASSUME Assumptions, SettingsInv, NEW r \in SettingsRequests, T!Build(r), T!Quiet
  PROVE  SettingsInv'
<1>1. /\ at[r] = "build" /\ at' = [at EXCEPT ![r] = "write"]
      /\ document' = [document EXCEPT ![r] = T!Built(body[r])]
      /\ UNCHANGED <<saved, current, up, body>>
  BY DEF T!Build
<1>2. up /\ body[r] \in T!Body
  BY <1>1 DEF SettingsInv, Saves
<1>3. T!Built(body[r]) \in T!Doc
  BY <1>2, BuiltIsDoc DEF SettingsInv, T!TypeOK
<1>4. PICK doc \in T!Doc : doc = T!Built(body[r])
  BY <1>3
<1>5. T!TypeOK'
  BY <1>1, <1>4 DEF SettingsInv, T!TypeOK
<1>6. \A s \in SettingsRequests : T!Saving(s)' <=> s = r
  BY <1>1 DEF SettingsInv, T!TypeOK, T!Saving, T!Quiet
<1>7. Saves'
  BY <1>1, <1>4, <1>6 DEF SettingsInv, T!TypeOK, Saves
<1>8. current = T!Load(saved)
  BY <1>2 DEF SettingsInv, T!FileIsInForce
<1>9. OneSaves'
  BY <1>1, <1>6, <1>8 DEF SettingsInv, T!TypeOK, OneSaves, T!Load, T!Nothing, T!Saving
<1>10. T!FileIsInForce'
  BY <1>6 DEF T!FileIsInForce, T!Quiet
<1>11. QED
  BY <1>5, <1>7, <1>9, <1>10 DEF SettingsInv

LEMMA SettingsSaveLands ==
  ASSUME Assumptions, SettingsInv, NEW r \in SettingsRequests, T!SaveLands(r)
  PROVE  SettingsInv'
<1>1. /\ at[r] = "write" /\ at' = [at EXCEPT ![r] = "apply"] /\ saved' = document[r]
      /\ UNCHANGED <<current, up, body, document>>
  BY DEF T!SaveLands
<1>2. T!Saving(r) /\ document[r] \in T!Doc
  BY <1>1 DEF SettingsInv, Saves, T!Saving
<1>3. T!TypeOK'
  BY <1>1, <1>2 DEF SettingsInv, T!TypeOK
<1>4. \A s \in SettingsRequests : T!Saving(s)' <=> T!Saving(s)
  BY <1>1 DEF SettingsInv, T!TypeOK, T!Saving
<1>5. Saves'
  BY <1>1, <1>4 DEF SettingsInv, T!TypeOK, Saves, T!Saving
<1>6. \A s \in SettingsRequests : T!Saving(s) => s = r
  BY <1>2 DEF SettingsInv, OneSaves
<1>7. OneSaves'
  BY <1>1, <1>4, <1>6 DEF SettingsInv, T!TypeOK, OneSaves, T!Saving
<1>8. T!FileIsInForce'
  BY <1>2, <1>4 DEF T!FileIsInForce, T!Quiet
<1>9. QED
  BY <1>3, <1>5, <1>7, <1>8 DEF SettingsInv

LEMMA SettingsSaveFails ==
  ASSUME Assumptions, SettingsInv, NEW r \in SettingsRequests, T!SaveFails(r)
  PROVE  SettingsInv'
<1>1. /\ at[r] = "write" /\ at' = [at EXCEPT ![r] = "failed"]
      /\ UNCHANGED <<saved, current, up, body, document>>
  BY DEF T!SaveFails
<1>2. T!TypeOK'
  BY <1>1 DEF SettingsInv, T!TypeOK
<1>3. \A s \in SettingsRequests : T!Saving(s)' => T!Saving(s)
  BY <1>1 DEF SettingsInv, T!TypeOK, T!Saving
<1>4. Saves'
  BY <1>1, <1>3 DEF SettingsInv, T!TypeOK, Saves
<1>5. OneSaves'
  BY <1>1, <1>3 DEF SettingsInv, T!TypeOK, OneSaves, T!Load, T!Nothing
<1>6. current = T!Load(saved)
  BY <1>1 DEF SettingsInv, OneSaves
<1>7. T!FileIsInForce'
  BY <1>1, <1>6 DEF T!FileIsInForce, T!Load, T!Nothing
<1>8. QED
  BY <1>2, <1>4, <1>5, <1>7 DEF SettingsInv

LEMMA SettingsApply ==
  ASSUME Assumptions, SettingsInv, NEW r \in SettingsRequests, T!Apply(r)
  PROVE  SettingsInv'
<1>1. /\ at[r] = "apply" /\ at' = [at EXCEPT ![r] = "done"] /\ current' = document[r]
      /\ UNCHANGED <<saved, up, body, document>>
  BY DEF T!Apply
<1>2. T!Saving(r) /\ document[r] \in T!Doc /\ saved = document[r]
  BY <1>1 DEF SettingsInv, Saves, OneSaves, T!Saving
<1>3. T!TypeOK'
  BY <1>1, <1>2 DEF SettingsInv, T!TypeOK
<1>4. \A s \in SettingsRequests : ~T!Saving(s)'
  BY <1>1, <1>2 DEF SettingsInv, T!TypeOK, OneSaves, T!Saving
<1>5. Saves'
  BY <1>1, <1>4 DEF SettingsInv, T!TypeOK, Saves
<1>6. OneSaves'
  BY <1>4 DEF OneSaves, T!Saving
<1>7. T!Load(saved) = document[r]
  BY <1>2, LoadIsDoc
<1>8. T!FileIsInForce'
  BY <1>1, <1>7 DEF T!FileIsInForce, T!Load, T!Nothing
<1>9. QED
  BY <1>3, <1>5, <1>6, <1>8 DEF SettingsInv

LEMMA SettingsCrash ==
  ASSUME Assumptions, SettingsInv, T!Crash \/ T!Boot \/ \E f \in HandWritten : T!ByHand(f)
  PROVE  SettingsInv'
<1>1. T!Nothing \in T!Doc
  BY DEF T!Nothing, T!Doc, T!Mode
<1>2. CASE T!Crash
  <2>1. /\ ~up' /\ saved' = saved /\ body' = body /\ document' = document /\ current' = T!Nothing
        /\ up' \in BOOLEAN
        /\ at' = [r \in SettingsRequests |-> IF at[r] \in {"idle", "done"} THEN at[r] ELSE "failed"]
    BY <1>2 DEF T!Crash
  <2>2. \A r \in SettingsRequests : at'[r] \in {"idle", "done", "failed"}
    BY <2>1
  <2>3. T!TypeOK'
    BY <1>1, <2>1, <2>2 DEF SettingsInv, T!TypeOK
  <2>4. QED
    BY <2>1, <2>2, <2>3 DEF SettingsInv, Saves, OneSaves, T!FileIsInForce, T!Saving
<1>3. CASE ~T!Crash
  <2>1. ~up /\ UNCHANGED <<at, body, document>>
    BY <1>3 DEF T!Boot, T!ByHand
  <2>2. \A r \in SettingsRequests : at[r] \notin {"resolve", "build", "write", "apply"}
    BY <2>1 DEF SettingsInv, Saves
  <2>3. /\ saved' \in T!Doc \union {None, Broken} /\ up' \in BOOLEAN /\ current' \in T!Doc
        /\ (up' => current' = T!Load(saved'))
    <3>1. CASE T!Boot
      <4>1. T!Load(saved) \in T!Doc
        BY LoadIsDoc DEF SettingsInv, T!TypeOK
      <4>2. QED
        BY <3>1, <4>1 DEF T!Boot, SettingsInv, T!TypeOK
    <3>2. CASE ~T!Boot
      BY <1>3, <3>2 DEF T!ByHand, SettingsInv, T!TypeOK, Assumptions
    <3>3. QED
      BY <3>1, <3>2
  <2>4. T!TypeOK'
    BY <2>1, <2>3 DEF SettingsInv, T!TypeOK
  <2>5. T!FileIsInForce'
    BY <2>3 DEF T!FileIsInForce, T!Load, T!Nothing
  <2>6. QED
    BY <2>1, <2>2, <2>4, <2>5 DEF SettingsInv, Saves, OneSaves, T!Saving
<1>4. QED
  BY <1>2, <1>3

LEMMA SettingsStep ==
  ASSUME Assumptions, SettingsInv, SettingsNext
  PROVE  SettingsInv'
<1>1. CASE \E r \in SettingsRequests : T!Step(r) /\ (at[r] # "build" \/ T!Quiet)
  <2>1. PICK r \in SettingsRequests : T!Step(r) /\ (at[r] # "build" \/ T!Quiet)
    BY <1>1
  <2>2. T!Build(r) => T!Quiet
    BY <2>1 DEF T!Build
  <2>3. QED
    BY <2>1, <2>2, SettingsResolve, SettingsBuild, SettingsSaveLands, SettingsApply DEF T!Step
<1>2. CASE \E r \in SettingsRequests : T!SaveFails(r)
  BY <1>2, SettingsSaveFails
<1>3. CASE \E r \in SettingsRequests, b \in Bodies : T!Arrive(r, b)
  <2>1. PICK r \in SettingsRequests, b \in Bodies : T!Arrive(r, b)
    BY <1>3
  <2>2. b \in T!Body
    BY DEF Assumptions
  <2>3. QED
    BY <2>1, <2>2, SettingsArrive
<1>4. CASE T!Crash \/ T!Boot \/ \E f \in HandWritten : T!ByHand(f)
  BY <1>4, SettingsCrash
<1>5. QED
  BY <1>1, <1>2, <1>3, <1>4 DEF SettingsNext

LEMMA SettingsBegin ==
  ASSUME Assumptions, Init
  PROVE  SettingsInv
<1>1. T!Init
  BY DEF Init
<1>2. current = T!Load(saved) /\ current \in T!Doc
  BY <1>1, LoadIsDoc DEF T!Init
<1>3. T!TypeOK
  BY <1>1, <1>2 DEF T!Init, T!TypeOK
<1>4. Saves /\ OneSaves
  BY <1>1 DEF T!Init, Saves, OneSaves, T!Saving
<1>5. QED
  BY <1>2, <1>3, <1>4 DEF SettingsInv, T!FileIsInForce

-----------------------------------------------------------------------------
(* The form on the providers.                                              *)

(* What a request will have done when it is served.                        *)
Doing(q) ==
    CASE q.kind = "edit" -> [hub EXCEPT ![q.id] = F!Built(q.body, hub[q.id].key)]
      [] q.kind = "remove" -> [hub EXCEPT ![q.id] = None]
      [] OTHER -> hub

(* A request in flight names a provider there is, and brings what was      *)
(* meant; the first restart may take it away, and with it the claim.       *)
UnderWay(q) ==
    /\ q.kind \in {"add", "edit"} => q.body.name # None /\ q.body.url # None
    /\ q.kind \in {"edit", "remove"} => q.id # None
    /\ restarts = 0 =>
        /\ q.answer = None => meant = Doing(q) /\ (q.kind \in {"edit", "remove"} => hub[q.id] # None)
        /\ q.answer # None => meant = hub /\ (q.kind # "test" => q.answer = "done")

(* The administrator waits: there is one request, or one read of the list. *)
OneAtATime ==
    /\ asking = {} \/ requests = {}
    /\ \A a, b \in requests : a = b
    /\ \A a, b \in asking : a = b

(* The list is the server's unless a change to it has not been read.       *)
ListIsCurrent ==
    restarts = 0 =>
        /\ asking = {} /\ (\A q \in requests : q.kind = "test" \/ q.answer = None) => shown = F!Described(hub)
        /\ \A q \in asking : q.known => q.answer = F!Described(hub)

(* A form that is open is for a provider there is, unless that provider is *)
(* being removed, which closes the form.                                   *)
FormIsForOne ==
    restarts = 0 /\ draft # None /\ editing # None =>
        hub[editing] # None \/ \E q \in requests : q.kind = "remove"

FormInv ==
    /\ F!TypeOK
    /\ OneAtATime
    /\ \A q \in requests : UnderWay(q)
    /\ restarts = 0 /\ requests = {} => hub = meant
    /\ ListIsCurrent
    /\ FormIsForOne

LEMMA NoneApart ==
  ASSUME Assumptions
  PROVE  /\ None \notin Ids /\ None \notin Names /\ None \notin Urls /\ None \notin Keys
         /\ None # "done" /\ None # "refused"
         /\ None \notin F!Entries /\ None \notin F!Lines /\ None \notin F!Drafts
         /\ Expected \in [Urls -> Keys \union {None}] /\ Long \subseteq Names
BY DEF Assumptions, F!ProviderFormAssumption

LEMMA DescribedIsList ==
  ASSUME Assumptions, hub \in [Ids -> F!Entries \union {None}]
  PROVE  /\ F!Described(hub) \in [Ids -> F!Lines \union {None}]
         /\ \A i \in Ids : F!Described(hub)[i] # None => hub[i] \in F!Entries
                             /\ F!Described(hub)[i] = [name |-> hub[i].name, url |-> hub[i].url]
<1>1. \A i \in Ids : hub[i] # None => [name |-> hub[i].name, url |-> hub[i].url] \in F!Lines
  BY DEF F!Entries, F!Lines
<1>2. QED
  BY <1>1 DEF F!Described

LEMMA BuiltIsEntry ==
  ASSUME Assumptions, NEW b \in F!Drafts, b.name # None, b.url # None, NEW k \in Keys \union {None}
  PROVE  F!Built(b, k) \in F!Entries
BY DEF F!Drafts, F!Entries, F!Built, F!Entry, F!KeyOf

(* The claim is what the invariant says of no request in flight.           *)
LEMMA FormSays ==
  ASSUME Assumptions, FormInv
  PROVE  F!StoredAsEntered
<1>1. SUFFICES ASSUME F!Quiet, restarts = 0, NEW i \in Ids
               PROVE  IF meant[i] = None THEN hub[i] = None
                      ELSE hub[i] # None /\ [name |-> hub[i].name, url |-> hub[i].url, key |-> hub[i].key] = meant[i]
  BY DEF F!StoredAsEntered
<1>2. hub = meant
  BY <1>1 DEF FormInv, F!Quiet
<1>3. hub[i] # None => hub[i] \in F!Entries
  BY DEF FormInv, F!TypeOK
<1>4. hub[i] # None => [name |-> hub[i].name, url |-> hub[i].url, key |-> hub[i].key] = hub[i]
  BY <1>3 DEF F!Entries
<1>5. QED
  BY <1>2, <1>4

LEMMA FormBegin ==
  ASSUME Assumptions, Init
  PROVE  FormInv
<1>1. F!Init
  BY DEF Init
<1>2. PICK i \in Ids, name \in Names \ Long, url \in Urls :
         hub = [j \in Ids |-> IF j = i THEN F!Entry(name, url, Expected[url]) ELSE None]
  BY <1>1 DEF F!Init
<1>3. F!Entry(name, url, Expected[url]) \in F!Entries
  BY NoneApart DEF F!Entry, F!Entries
<1>4. hub \in [Ids -> F!Entries \union {None}]
  BY <1>2, <1>3
<1>5. meant = hub
  <2>1. \A j \in Ids : meant[j] = hub[j]
    BY <1>1, <1>4, NoneApart DEF F!Init, F!Entries
  <2>2. meant = [j \in Ids |-> meant[j]] /\ hub = [j \in Ids |-> hub[j]]
    BY <1>1, <1>4 DEF F!Init
  <2>3. QED
    BY <2>1, <2>2
<1>6. F!TypeOK
  BY <1>1, <1>4, <1>5, DescribedIsList, NoneApart DEF F!Init, F!TypeOK
<1>7. QED
  BY <1>1, <1>5, <1>6 DEF F!Init, FormInv, OneAtATime, ListIsCurrent, FormIsForOne

(* The administrator acts when nothing is in flight.                       *)
LEMMA FormReady ==
  ASSUME FormInv, F!Ready
  PROVE  asking = {} /\ requests = {} /\ (restarts = 0 => hub = meant /\ shown = F!Described(hub))
BY DEF FormInv, F!Ready, F!Quiet, ListIsCurrent

(* What the form shows may change, nothing else.                           *)
LEMMA FormOpens ==
  ASSUME Assumptions, FormInv, NEW d \in F!Drafts \union {None}, NEW e \in Ids \union {None},
         draft' = d, editing' = e,
         UNCHANGED <<hub, disk, restarts, shown, asking, requests, meant, sent>>,
         result' \in {None, result},
         d # None /\ e # None /\ restarts = 0 => hub[e] # None \/ \E q \in requests : q.kind = "remove"
  PROVE  FormInv'
<1>1. F!TypeOK'
  BY DEF FormInv, F!TypeOK
<1>2. OneAtATime'
  BY DEF FormInv, OneAtATime
<1>3. \A q \in requests' : UnderWay(q)'
  BY DEF FormInv, UnderWay, Doing, F!Built, F!Entry, F!KeyOf
<1>4. ListIsCurrent'
  BY DEF FormInv, ListIsCurrent, F!Described
<1>5. FormIsForOne'
  BY DEF FormIsForOne
<1>6. QED
  BY <1>1, <1>2, <1>3, <1>4, <1>5 DEF FormInv

LEMMA FormFills ==
  ASSUME Assumptions, FormInv,
         \/ F!Add \/ F!Cancel
         \/ \E i \in Ids : F!BeginEdit(i)
         \/ \E name \in Names, url \in Urls, key \in Keys \union {None} : F!Fill(name, url, key)
  PROVE  FormInv'
<1>0. editing \in Ids \union {None}
  BY DEF FormInv, F!TypeOK
<1>1. CASE F!Add
  <2>1. /\ draft' = F!Blank /\ editing' = None /\ result' = None
        /\ UNCHANGED <<hub, disk, restarts, shown, asking, requests, meant, sent>>
    BY <1>1 DEF F!Add, F!OfAnother, F!server, F!list
  <2>2. F!Blank \in F!Drafts
    BY DEF F!Blank, F!Drafts
  <2>3. QED
    BY <2>1, <2>2, FormOpens
<1>2. CASE F!Cancel
  <2>1. /\ draft' = None /\ editing' = editing /\ result' = result
        /\ UNCHANGED <<hub, disk, restarts, shown, asking, requests, meant, sent>>
    BY <1>2 DEF F!Cancel, F!server, F!list
  <2>2. QED
    BY <1>0, <2>1, FormOpens
<1>3. CASE \E i \in Ids : F!BeginEdit(i)
  <2>1. PICK i \in Ids : F!BeginEdit(i)
    BY <1>3
  <2>2. /\ draft' = [name |-> shown[i].name, url |-> shown[i].url, key |-> None] /\ editing' = i
        /\ result' = None /\ shown[i] # None /\ F!Ready
        /\ UNCHANGED <<hub, disk, restarts, shown, asking, requests, meant, sent>>
    BY <2>1 DEF F!BeginEdit, F!server, F!list
  <2>3. shown[i] \in F!Lines
    BY <2>2 DEF FormInv, F!TypeOK
  <2>4. [name |-> shown[i].name, url |-> shown[i].url, key |-> None] \in F!Drafts
    BY <2>3 DEF F!Lines, F!Drafts
  <2>5. restarts = 0 => hub[i] # None
    BY <2>2, FormReady, DescribedIsList, NoneApart DEF FormInv, F!TypeOK
  <2>6. QED
    BY <2>2, <2>4, <2>5, FormOpens
<1>4. CASE \E name \in Names, url \in Urls, key \in Keys \union {None} : F!Fill(name, url, key)
  <2>1. PICK name \in Names, url \in Urls, key \in Keys \union {None} : F!Fill(name, url, key)
    BY <1>4
  <2>2. /\ draft # None /\ draft' = [name |-> name, url |-> url, key |-> key]
        /\ editing' = editing /\ result' = result
        /\ UNCHANGED <<hub, disk, restarts, shown, asking, requests, meant, sent>>
    BY <2>1 DEF F!Fill, F!server, F!list
  <2>3. [name |-> name, url |-> url, key |-> key] \in F!Drafts
    BY DEF F!Drafts
  <2>4. editing # None /\ restarts = 0 => hub[editing] # None \/ \E q \in requests : q.kind = "remove"
    BY <2>2 DEF FormInv, FormIsForOne
  <2>5. QED
    BY <1>0, <2>2, <2>3, <2>4, FormOpens
<1>5. QED
  BY <1>1, <1>2, <1>3, <1>4

(* A request is sent when nothing is in flight, so it is the only one.     *)
LEMMA FormAsks ==
  ASSUME Assumptions, FormInv, F!Ready,
         NEW kind \in {"add", "edit", "remove", "test"}, NEW id \in Ids \union {None}, NEW b \in F!Drafts,
         F!Send(kind, id, b), UNCHANGED <<hub, disk, restarts, shown, asking, draft, editing, result>>,
         kind \in {"add", "edit"} => b.name # None /\ b.url # None,
         kind \in {"edit", "remove"} => id \in Ids /\ (restarts = 0 => hub[id] # None),
         meant' \in [Ids -> F!Entries \union {None}],
         restarts = 0 =>
             meant' = CASE kind = "edit" -> [hub EXCEPT ![id] = F!Built(b, hub[id].key)]
                        [] kind = "remove" -> [hub EXCEPT ![id] = None]
                        [] OTHER -> hub
  PROVE  FormInv'
<1>0. PICK new : new = [n |-> sent, kind |-> kind, id |-> id, body |-> b, answer |-> None]
  OBVIOUS
<1>1. /\ asking = {} /\ requests = {}
      /\ restarts = 0 => hub = meant /\ shown = F!Described(hub)
  BY FormReady
<1>2. requests' = {new} /\ sent' = sent + 1
  BY <1>0, <1>1 DEF F!Send
<1>3. F!TypeOK'
  BY <1>0, <1>2 DEF FormInv, F!TypeOK
<1>4. /\ new.kind = kind /\ new.id = id /\ new.body = b /\ new.answer = None
  BY <1>0
<1>5. OneAtATime'
  BY <1>1, <1>2 DEF OneAtATime
<1>6. UnderWay(new)'
  <2>1. restarts = 0 => meant' = Doing(new)'
    <3>1. hub' = hub /\ restarts' = restarts
      OBVIOUS
    <3>2. F!Built(b, hub[id].key) = F!Built(b, hub[id].key)'
      BY <3>1 DEF F!Built, F!Entry, F!KeyOf
    <3>3. Doing(new)' = CASE kind = "edit" -> [hub EXCEPT ![id] = F!Built(b, hub[id].key)]
                          [] kind = "remove" -> [hub EXCEPT ![id] = None]
                          [] OTHER -> hub
      BY <1>4, <3>1, <3>2 DEF Doing
    <3>4. QED
      BY <3>3
  <2>2. QED
    BY <1>4, <2>1, NoneApart DEF UnderWay
<1>7. ListIsCurrent'
  BY <1>1, <1>2, <1>4 DEF ListIsCurrent, F!Described
<1>8. FormIsForOne'
  BY <1>1, <1>2, <1>4 DEF FormIsForOne, FormInv
<1>9. QED
  BY <1>2, <1>3, <1>5, <1>6, <1>7, <1>8 DEF FormInv

LEMMA FormSubmits ==
  ASSUME Assumptions, FormInv, F!Submit \/ F!Test \/ \E i \in Ids : F!Delete(i)
  PROVE  FormInv'
<1>0. /\ F!Ready /\ UNCHANGED <<hub, disk, restarts, shown, asking, draft, editing, result>>
      /\ meant \in [Ids -> F!Entries \union {None}] /\ hub \in [Ids -> F!Entries \union {None}]
      /\ draft \in F!Drafts \union {None} /\ editing \in Ids \union {None}
  BY DEF F!Submit, F!Test, F!Delete, F!server, F!list, F!form, FormInv, F!TypeOK
<1>1. /\ asking = {} /\ requests = {}
      /\ restarts = 0 => hub = meant /\ shown = F!Described(hub)
  BY <1>0, FormReady
<1>2. CASE F!Test
  <2>1. draft \in F!Drafts /\ F!Send("test", editing, draft) /\ meant' = meant
    BY <1>0, <1>2 DEF F!Test
  <2>2. QED
    BY <1>0, <1>1, <2>1, FormAsks
<1>3. CASE F!Submit
  <2>1. draft \in F!Drafts /\ draft.name # None /\ draft.url # None
    BY <1>0, <1>3 DEF F!Submit
  <2>2. CASE editing = None
    <3>1. F!Send("add", None, draft) /\ meant' = meant
      BY <1>3, <2>2 DEF F!Submit
    <3>2. QED
      BY <1>0, <1>1, <2>1, <3>1, FormAsks
  <2>3. CASE editing # None
    <3>1. /\ F!Send("edit", editing, draft) /\ editing \in Ids
          /\ meant' = [meant EXCEPT ![editing] = F!Entered(editing, draft)]
      BY <1>0, <1>3, <2>3 DEF F!Submit
    <3>2. restarts = 0 => hub[editing] # None
      BY <1>1, <2>1, <2>3, NoneApart DEF FormInv, FormIsForOne
    <3>3. F!Entered(editing, draft) \in F!Entries
      <4>1. meant[editing] # None => meant[editing].key \in Keys \union {None}
        BY <1>0, <3>1 DEF F!Entries
      <4>2. QED
        BY <2>1, <4>1 DEF F!Drafts, F!Entries, F!Entered
    <3>4. restarts = 0 => F!Entered(editing, draft) = F!Built(draft, hub[editing].key)
      BY <1>1, <3>2 DEF F!Entered, F!Built, F!Entry, F!KeyOf
    <3>5. PICK entered \in F!Entries : entered = F!Entered(editing, draft)
      BY <3>3
    <3>6. meant' \in [Ids -> F!Entries \union {None}]
      BY <1>0, <3>1, <3>5
    <3>7. restarts = 0 => meant' = [hub EXCEPT ![editing] = F!Built(draft, hub[editing].key)]
      BY <1>1, <3>1, <3>4
    <3>8. QED
      BY <1>0, <2>1, <3>1, <3>2, <3>6, <3>7, FormAsks
  <2>4. QED
    BY <2>2, <2>3
<1>4. CASE \E i \in Ids : F!Delete(i)
  <2>1. PICK i \in Ids : shown[i] # None /\ F!Send("remove", i, F!Blank) /\ meant' = [meant EXCEPT ![i] = None]
    BY <1>4 DEF F!Delete
  <2>2. restarts = 0 => hub[i] # None
    BY <1>0, <1>1, <2>1, DescribedIsList, NoneApart
  <2>3. F!Blank \in F!Drafts
    BY DEF F!Blank, F!Drafts
  <2>4. QED
    BY <1>0, <1>1, <2>1, <2>2, <2>3, FormAsks
<1>5. QED
  BY <1>2, <1>3, <1>4

LEMMA FormReads ==
  ASSUME Assumptions, FormInv, NEW q \in asking, F!AnswerList(q) \/ F!ListLands(q)
  PROVE  FormInv'
<1>1. requests = {} /\ \A a \in asking : a = q
  BY DEF FormInv, OneAtATime
<1>2. /\ UNCHANGED <<hub, disk, restarts, requests, draft, editing, result, meant, sent>>
      /\ hub \in [Ids -> F!Entries \union {None}]
  BY DEF F!AnswerList, F!ListLands, F!server, F!form, FormInv, F!TypeOK
<1>3. FormIsForOne'
  BY <1>2 DEF FormInv, FormIsForOne
<1>4. CASE F!AnswerList(q)
  <2>1. asking' = {[known |-> TRUE, answer |-> F!Described(hub)]} /\ shown' = shown
    BY <1>4 DEF F!AnswerList
  <2>2. F!TypeOK'
    BY <1>2, <2>1, DescribedIsList DEF FormInv, F!TypeOK
  <2>3. F!Described(hub)' = F!Described(hub)
    BY <1>2 DEF F!Described
  <2>4. \A a \in asking' : a.answer = F!Described(hub)'
    BY <2>1, <2>3
  <2>5. asking' # {}
    BY <2>1
  <2>6. ListIsCurrent'
    BY <2>4, <2>5 DEF ListIsCurrent
  <2>7. QED
    BY <1>1, <1>2, <1>3, <2>1, <2>2, <2>6 DEF FormInv, OneAtATime
<1>5. CASE F!ListLands(q)
  <2>1. asking' = {} /\ shown' = q.answer /\ q.known
    BY <1>5 DEF F!ListLands
  <2>2. F!TypeOK'
    BY <1>2, <2>1 DEF FormInv, F!TypeOK
  <2>3. restarts = 0 => q.answer = F!Described(hub)
    BY <2>1 DEF FormInv, ListIsCurrent
  <2>4. ListIsCurrent'
    BY <1>2, <2>1, <2>3 DEF ListIsCurrent, F!Described
  <2>5. QED
    BY <1>1, <1>2, <1>3, <2>1, <2>2, <2>4 DEF FormInv, OneAtATime
<1>6. QED
  BY <1>4, <1>5

(* Whatever an answer to the one request in flight does to the server.     *)
LEMMA FormServed ==
  ASSUME Assumptions, FormInv, NEW q \in requests, q.answer = None, NEW ok \in BOOLEAN, F!Answered(q, ok),
         UNCHANGED <<restarts, shown, asking, draft, editing, result, sent>>,
         hub' \in [Ids -> F!Entries \union {None}], disk' \in [Ids -> F!Entries \union {None}],
         meant' \in [Ids -> F!Entries \union {None}],
         restarts = 0 => /\ meant' = hub'
                         /\ q.kind = "test" => hub' = hub
                         /\ q.kind # "test" => ok
                         /\ q.kind = "remove" \/ \A i \in Ids : hub[i] # None => hub'[i] # None
  PROVE  FormInv'
<1>1. asking = {} /\ requests = {q}
  BY DEF FormInv, OneAtATime
<1>2. q \in [n : Nat, kind : {"add", "edit", "remove", "test"}, id : Ids \union {None},
             body : F!Drafts, answer : {None, "done", "refused"}]
  BY DEF FormInv, F!TypeOK
<1>3. PICK new : new = [q EXCEPT !.answer = IF ok THEN "done" ELSE "refused"]
  OBVIOUS
<1>4. requests' = {new}
  BY <1>1, <1>3 DEF F!Answered
<1>5. /\ new \in [n : Nat, kind : {"add", "edit", "remove", "test"}, id : Ids \union {None},
                  body : F!Drafts, answer : {None, "done", "refused"}]
      /\ new.kind = q.kind /\ new.id = q.id /\ new.body = q.body
      /\ new.answer = IF ok THEN "done" ELSE "refused"
  BY <1>2, <1>3
<1>6. F!TypeOK'
  BY <1>1, <1>4, <1>5 DEF FormInv, F!TypeOK
<1>7. OneAtATime'
  BY <1>1, <1>4 DEF OneAtATime
<1>8. UnderWay(q)
  BY DEF FormInv
<1>9. UnderWay(new)'
  BY <1>5, <1>8, NoneApart DEF UnderWay
<1>10. ListIsCurrent'
  <2>1. asking' = {}
    BY <1>1
  <2>2. restarts = 0 /\ new.kind = "test" => shown' = F!Described(hub)'
    <3>1. restarts = 0 => shown = F!Described(hub)
      BY <1>1 DEF FormInv, ListIsCurrent
    <3>2. restarts = 0 /\ new.kind = "test" => hub' = hub
      BY <1>5
    <3>3. QED
      BY <3>1, <3>2 DEF F!Described
  <2>3. new.answer # None
    BY <1>5, NoneApart
  <2>4. QED
    BY <1>4, <2>1, <2>2, <2>3 DEF ListIsCurrent
<1>11. FormIsForOne'
  <2>1. SUFFICES ASSUME restarts' = 0, draft' # None, editing' # None
                 PROVE  hub'[editing'] # None \/ new.kind = "remove"
    BY <1>4 DEF FormIsForOne
  <2>2. hub[editing] # None \/ q.kind = "remove"
    BY <1>1, <2>1 DEF FormInv, FormIsForOne
  <2>3. editing \in Ids
    BY <2>1 DEF FormInv, F!TypeOK
  <2>4. QED
    BY <1>5, <2>1, <2>2, <2>3
<1>12. QED
  BY <1>4, <1>6, <1>7, <1>9, <1>10, <1>11 DEF FormInv

LEMMA FormServes ==
  ASSUME Assumptions, FormInv, NEW q \in requests, F!Serve(q)
  PROVE  FormInv'
<1>1. /\ q.answer = None /\ UNCHANGED <<restarts, shown, asking, draft, editing, result, sent>>
      /\ hub \in [Ids -> F!Entries \union {None}] /\ disk \in [Ids -> F!Entries \union {None}]
      /\ meant \in [Ids -> F!Entries \union {None}]
  BY DEF F!Serve, F!list, F!form, FormInv, F!TypeOK
<1>2. q \in [n : Nat, kind : {"add", "edit", "remove", "test"}, id : Ids \union {None},
             body : F!Drafts, answer : {None, "done", "refused"}]
  BY DEF FormInv, F!TypeOK
<1>3. /\ q.kind \in {"add", "edit"} => q.body.name # None /\ q.body.url # None
      /\ q.kind \in {"edit", "remove"} => q.id \in Ids
      /\ restarts = 0 => meant = Doing(q) /\ (q.kind \in {"edit", "remove"} => hub[q.id] # None)
  BY <1>1, <1>2 DEF FormInv, UnderWay
<1>4. CASE q.kind = "add"
  <2>1. PICK i \in Ids :
           /\ hub[i] = None /\ hub' = [hub EXCEPT ![i] = F!Built(q.body, None)] /\ disk' = hub'
           /\ meant' = [meant EXCEPT ![i] = q.body] /\ F!Answered(q, TRUE)
    BY <1>4 DEF F!Serve, F!Persist
  <2>2. F!Built(q.body, None) = q.body /\ q.body \in F!Entries
    BY <1>2, <1>3, <1>4 DEF F!Built, F!Entry, F!KeyOf, F!Drafts, F!Entries
  <2>3. restarts = 0 => meant = hub
    BY <1>3, <1>4 DEF Doing
  <2>4. PICK entered \in F!Entries : entered = q.body
    BY <2>2
  <2>5. /\ hub' = [hub EXCEPT ![i] = entered] /\ meant' = [meant EXCEPT ![i] = entered]
        /\ hub' \in [Ids -> F!Entries \union {None}] /\ meant' \in [Ids -> F!Entries \union {None}]
    BY <1>1, <2>1, <2>2, <2>4
  <2>6. \A j \in Ids : hub[j] # None => hub'[j] # None
    BY <1>1, <2>1, <2>5
  <2>7. QED
    BY <1>1, <1>4, <2>1, <2>3, <2>5, <2>6, FormServed
<1>5. CASE q.kind = "edit" /\ hub[q.id] # None
  <2>1. /\ hub' = [hub EXCEPT ![q.id] = F!Built(q.body, hub[q.id].key)] /\ disk' = hub'
        /\ meant' = meant /\ F!Answered(q, TRUE)
    BY <1>5 DEF F!Serve, F!Persist
  <2>2. hub[q.id].key \in Keys \union {None}
    BY <1>1, <1>3, <1>5 DEF F!Entries
  <2>3. F!Built(q.body, hub[q.id].key) \in F!Entries
    BY <1>2, <1>3, <1>5, <2>2, BuiltIsEntry
  <2>4. PICK entered \in F!Entries : entered = F!Built(q.body, hub[q.id].key)
    BY <2>3
  <2>5. hub' = [hub EXCEPT ![q.id] = entered] /\ hub' \in [Ids -> F!Entries \union {None}]
    BY <1>1, <2>1, <2>4
  <2>6. \A j \in Ids : hub[j] # None => hub'[j] # None
    BY <1>1, <1>3, <1>5, <2>5, NoneApart
  <2>7. restarts = 0 => meant' = hub'
    BY <1>3, <1>5, <2>1 DEF Doing
  <2>8. QED
    BY <1>1, <1>5, <2>1, <2>5, <2>6, <2>7, FormServed
<1>6. CASE q.kind = "remove" /\ hub[q.id] # None
  <2>1. /\ hub' = [hub EXCEPT ![q.id] = None] /\ disk' = hub'
        /\ meant' = meant /\ F!Answered(q, TRUE)
    BY <1>6 DEF F!Serve, F!Persist
  <2>2. hub' \in [Ids -> F!Entries \union {None}]
    BY <1>1, <2>1
  <2>3. restarts = 0 => meant' = hub'
    BY <1>3, <1>6, <2>1 DEF Doing
  <2>4. QED
    BY <1>1, <1>6, <2>1, <2>2, <2>3, FormServed
<1>7. CASE q.kind = "test"
  <2>1. PICK ok \in BOOLEAN : F!Answered(q, ok) /\ UNCHANGED <<hub, disk, meant>>
    <3>1. F!Answered(q, Expected[q.body.url] \in {None, q.body.key}) /\ UNCHANGED <<hub, disk, meant>>
      BY <1>7 DEF F!Serve
    <3>2. (Expected[q.body.url] \in {None, q.body.key}) \in BOOLEAN
      OBVIOUS
    <3>3. QED
      BY <3>1, <3>2, Zenon
  <2>2. restarts = 0 => meant = hub
    BY <1>3, <1>7 DEF Doing
  <2>3. QED
    BY <1>1, <1>7, <2>1, <2>2, FormServed
<1>8. CASE q.kind \in {"edit", "remove"} /\ hub[q.id] = None
  <2>1. F!Answered(q, FALSE) /\ UNCHANGED <<hub, disk, meant>>
    BY <1>8 DEF F!Serve
  <2>2. restarts # 0
    BY <1>3, <1>8
  <2>3. QED
    BY <1>1, <2>1, <2>2, FormServed
<1>9. QED
  BY <1>2, <1>4, <1>5, <1>6, <1>7, <1>8

(* An answer that changed something has the list read again.               *)
LEMMA FormLands ==
  ASSUME Assumptions, FormInv, NEW q \in requests, F!Lands(q)
  PROVE  FormInv'
<1>1. /\ asking = {} /\ requests = {q} /\ requests' = {} /\ q.answer # None
      /\ UNCHANGED <<hub, disk, restarts, meant, sent>>
  BY DEF FormInv, OneAtATime, F!Lands, F!server
<1>2. restarts = 0 => meant = hub /\ (q.kind # "test" => q.answer = "done")
  BY <1>1 DEF FormInv, UnderWay
<1>3. q.body \in F!Drafts /\ q.id \in Ids \union {None}
  BY DEF FormInv, F!TypeOK
<1>4. CASE q.kind # "test" /\ q.answer = "done"
  <2>1. /\ draft' = None /\ editing' = None /\ result' = result /\ shown' = shown
        /\ asking' = {[known |-> FALSE, answer |-> [i \in Ids |-> None]]}
    BY <1>4 DEF F!Lands, F!Done, F!ReadAgain, F!Request
  <2>2. F!TypeOK'
    BY <1>1, <2>1 DEF FormInv, F!TypeOK
  <2>3. ListIsCurrent'
    <3>1. asking' # {} /\ \A a \in asking' : ~a.known
      BY <2>1
    <3>2. QED
      BY <3>1 DEF ListIsCurrent
  <2>4. QED
    BY <1>1, <1>2, <2>1, <2>2, <2>3 DEF FormInv, OneAtATime, FormIsForOne
<1>5. CASE ~(q.kind # "test" /\ q.answer = "done")
  <2>1. UNCHANGED <<draft, editing, shown, asking>>
    BY <1>5 DEF F!Lands, F!list, F!form
  <2>2. result' = result \/ result' = [url |-> q.body.url, key |-> q.body.key, id |-> q.id,
                                       ok |-> q.answer = "done"]
    BY <1>5 DEF F!Lands, F!form
  <2>3. F!TypeOK'
    <3>1. q.body.url \in Urls \union {None} /\ q.body.key \in Keys \union {None}
          /\ (q.answer = "done") \in BOOLEAN
      BY <1>3 DEF F!Drafts
    <3>2. PICK ok \in BOOLEAN : ok = (q.answer = "done")
      BY <3>1, Zenon
    <3>3. result' = result \/ result' = [url |-> q.body.url, key |-> q.body.key, id |-> q.id, ok |-> ok]
      BY <2>2, <3>2, Zenon
    <3>4. result' \in [url : Urls \union {None}, key : Keys \union {None}, id : Ids \union {None},
                       ok : BOOLEAN] \union {None}
      BY <1>3, <3>1, <3>3 DEF FormInv, F!TypeOK
    <3>5. QED
      BY <1>1, <2>1, <3>4 DEF FormInv, F!TypeOK
  <2>4. restarts = 0 => q.kind = "test"
    BY <1>2, <1>5
  <2>5. ListIsCurrent'
    <3>1. restarts = 0 => shown = F!Described(hub)
      BY <1>1, <2>4 DEF FormInv, ListIsCurrent
    <3>2. QED
      BY <1>1, <2>1, <3>1 DEF ListIsCurrent, F!Described
  <2>6. FormIsForOne'
    BY <1>1, <2>1, <2>4 DEF FormInv, FormIsForOne
  <2>7. QED
    BY <1>1, <1>2, <2>1, <2>3, <2>5, <2>6 DEF FormInv, OneAtATime
<1>6. QED
  BY <1>4, <1>5

LEMMA FormRestarts ==
  ASSUME Assumptions, FormInv, F!Restart
  PROVE  FormInv'
<1> DEFINE After(q) == [q EXCEPT !.answer = IF @ = None THEN "refused" ELSE @]
<1>1. /\ restarts' = restarts + 1 /\ hub' = [i \in Ids |-> IF F!Valid(disk[i]) THEN disk[i] ELSE None]
      /\ requests' = {After(q) : q \in requests}
      /\ UNCHANGED <<disk, shown, asking, draft, editing, result, meant, sent>>
  BY DEF F!Restart, F!list, F!form
<1>2. restarts' \in Nat \ {0}
  BY <1>1 DEF FormInv, F!TypeOK
<1>3. \A q \in requests :
        /\ After(q) \in [n : Nat, kind : {"add", "edit", "remove", "test"}, id : Ids \union {None},
                         body : F!Drafts, answer : {None, "done", "refused"}]
        /\ After(q).kind = q.kind /\ After(q).id = q.id /\ After(q).body = q.body
  BY DEF FormInv, F!TypeOK
<1> HIDE DEF After
<1>4. F!TypeOK'
  <2>1. hub' \in [Ids -> F!Entries \union {None}]
    BY <1>1 DEF FormInv, F!TypeOK
  <2>2. QED
    BY <1>1, <1>2, <1>3, <2>1 DEF FormInv, F!TypeOK
<1>5. OneAtATime'
  BY <1>1 DEF FormInv, OneAtATime
<1>6. \A q \in requests' : UnderWay(q)'
  BY <1>1, <1>2, <1>3 DEF FormInv, UnderWay
<1>7. QED
  BY <1>2, <1>4, <1>5, <1>6 DEF FormInv, ListIsCurrent, FormIsForOne

LEMMA FormStay ==
  ASSUME FormInv, UNCHANGED formVars
  PROVE  FormInv'
<1>1. UNCHANGED <<hub, disk, shown, asking, requests, draft, editing, result, meant, sent, restarts>>
  BY DEF formVars
<1>2. F!TypeOK'
  BY <1>1 DEF FormInv, F!TypeOK
<1>3. \A q \in requests' : UnderWay(q)'
  BY <1>1 DEF FormInv, UnderWay, Doing, F!Built, F!Entry, F!KeyOf
<1>4. ListIsCurrent' /\ FormIsForOne' /\ OneAtATime'
  BY <1>1 DEF FormInv, ListIsCurrent, FormIsForOne, OneAtATime, F!Described
<1>5. QED
  BY <1>1, <1>2, <1>3, <1>4 DEF FormInv

LEMMA FormStep ==
  ASSUME Assumptions, FormInv, F!Next
  PROVE  FormInv'
<1>1. CASE \E q \in requests : F!Serve(q) \/ F!Lands(q)
  BY <1>1, FormServes, FormLands
<1>2. CASE \E q \in asking : F!AnswerList(q) \/ F!ListLands(q)
  BY <1>2, FormReads
<1>3. CASE \/ F!Add \/ F!Cancel
           \/ \E i \in Ids : F!BeginEdit(i)
           \/ \E name \in Names, url \in Urls, key \in Keys \union {None} : F!Fill(name, url, key)
  BY <1>3, FormFills
<1>4. CASE F!Submit \/ F!Test \/ \E i \in Ids : F!Delete(i)
  BY <1>4, FormSubmits
<1>5. CASE F!Restart
  BY <1>5, FormRestarts
<1>6. QED
  BY <1>1, <1>2, <1>3, <1>4, <1>5 DEF F!Next

-----------------------------------------------------------------------------
(* The sections on models.                                                 *)

(* The administrator waits, and does not leave a box for a request.        *)
OneWrite ==
    /\ reread = {} \/ writes = {}
    /\ \A a, b \in writes : a = b
    /\ \A a, b \in reread : a = b
    /\ focus # None => D!Quiet

(* What is asked for is what the server has, once it has served the write  *)
(* in flight.                                                              *)
Promised(w) ==
    IF w.served
    THEN hidden = intended.hidden /\ (toggles = 0 => sampler = intended.sampler)
    ELSE /\ intended.hidden = IF w.field = "hidden" THEN w.value ELSE hidden
         /\ toggles = 0 => /\ w.field # "hidden"
                           /\ intended.sampler =
                                  [sampler EXCEPT ![w.model] = D!Patched(sampler[w.model], w)]

Promises ==
    failures = 0 =>
        /\ \A w \in writes : Promised(w)
        /\ writes = {} => hidden = intended.hidden /\ (toggles = 0 => sampler = intended.sampler)

(* The client's settings are the server's when nothing is on its way.      *)
DataIsCurrent ==
    failures = 0 =>
        /\ D!Quiet => data.hidden = hidden /\ data.sampler = sampler
        /\ \A q \in reread : q.answer.known => q.answer.hidden = hidden /\ q.answer.sampler = sampler

(* The box has the prompt the client knows of, or one that is on its way   *)
(* to the server, or one that is on its way back.                          *)
BoxFollows ==
    failures = 0 /\ focus # "prompt" =>
        \/ prompt = D!Stored(data, chosen).prompt
        \/ \E w \in writes : ~w.served /\ w.field = "prompt" /\ w.model = chosen /\ w.value = prompt
        \/ ~D!Quiet /\ sampler[chosen].prompt = prompt /\ \A w \in writes : w.served

ModelInv == D!TypeOK /\ OneWrite /\ Promises /\ DataIsCurrent /\ BoxFollows

LEMMA ModelSays ==
  ASSUME Assumptions, ModelInv
  PROVE  D!StoredAsMeant /\ D!BoxIsStored
<1>1. D!StoredAsMeant
  BY DEF ModelInv, Promises, D!StoredAsMeant, D!Quiet
<1>2. None # "prompt"
  BY DEF Assumptions, D!ModelSettingsAssumption
<1>3. D!BoxIsStored
  BY <1>2 DEF ModelInv, BoxFollows, DataIsCurrent, D!BoxIsStored, D!Quiet, D!Stored
<1>4. QED
  BY <1>1, <1>3

LEMMA ModelBegin ==
  ASSUME Assumptions, Init
  PROVE  ModelInv
<1>1. D!Init /\ Overrides \subseteq (0 .. Top) \union {None} /\ Loaded \in BOOLEAN
  BY DEF Init, Assumptions, D!ModelSettingsAssumption
<1>2. PICK number \in (0 .. Top) \union {None} : sampler = [m \in Pairs |-> [number |-> number, prompt |-> None]]
  BY <1>1 DEF D!Init
<1>3. sampler \in [Pairs -> D!Samplers] /\ \A m \in Pairs : sampler[m].prompt = None
  BY <1>2 DEF D!Samplers
<1>4. D!Unknown \in D!Settings
  BY DEF D!Unknown, D!Unset, D!Settings, D!Samplers
<1>5. data \in D!Settings /\ D!Stored(data, chosen).prompt = None
  <2>1. CASE Loaded
    BY <1>1, <1>3, <2>1 DEF D!Init, D!Settings, D!Stored
  <2>2. CASE ~Loaded
    BY <1>1, <1>4, <2>2 DEF D!Init, D!Unknown, D!Unset, D!Stored
  <2>3. QED
    BY <2>1, <2>2
<1>6. reread \in {{}, {[answer |-> D!Unknown]}}
  BY <1>1 DEF D!Init, D!Request
<1>7. D!TypeOK
  BY <1>1, <1>3, <1>4, <1>5, <1>6 DEF D!Init, D!TypeOK
<1>8. DataIsCurrent
  <2>1. CASE Loaded
    BY <1>1, <2>1 DEF D!Init, DataIsCurrent
  <2>2. CASE ~Loaded
    <3>1. reread = {[answer |-> D!Unknown]}
      BY <1>1, <2>2 DEF D!Init, D!Request
    <3>2. ~D!Unknown.known
      BY DEF D!Unknown
    <3>3. reread # {} /\ \A q \in reread : ~q.answer.known
      BY <3>1, <3>2
    <3>4. QED
      BY <3>3 DEF DataIsCurrent, D!Quiet
  <2>3. QED
    BY <2>1, <2>2
<1>9. OneWrite /\ Promises /\ BoxFollows
  BY <1>1, <1>5, <1>6 DEF D!Init, OneWrite, Promises, BoxFollows
<1>10. QED
  BY <1>7, <1>8, <1>9 DEF ModelInv

LEMMA ModelReady ==
  ASSUME ModelInv, D!Ready \/ focus # None
  PROVE  /\ D!Quiet
         /\ failures = 0 => /\ data.hidden = hidden /\ data.sampler = sampler /\ hidden = intended.hidden
                            /\ toggles = 0 => sampler = intended.sampler
                            /\ focus # "prompt" => prompt = D!Stored(data, chosen).prompt
BY DEF ModelInv, OneWrite, Promises, DataIsCurrent, BoxFollows, D!Ready, D!Quiet

(* The administrator turns to something, and nothing is sent.              *)
LEMMA ModelTurns ==
  ASSUME Assumptions, ModelInv, D!Quiet,
         UNCHANGED <<hidden, sampler, data, reread, writes, failures, toggles, written>>,
         chosen' \in Pairs, focus' \in {None, "number", "prompt"}, typed' \in Typed \union {None},
         prompt' \in Prompts \union {None},
         intended' \in [hidden : SUBSET Pairs, sampler : [Pairs -> D!Samplers]],
         failures = 0 => /\ hidden = intended'.hidden /\ (toggles = 0 => sampler = intended'.sampler)
                         /\ focus' = "prompt" \/ prompt' = data.sampler[chosen'].prompt
  PROVE  ModelInv'
<1>1. D!TypeOK'
  BY DEF ModelInv, D!TypeOK
<1>2. OneWrite'
  BY DEF ModelInv, OneWrite, D!Quiet
<1>3. Promises'
  BY DEF Promises, D!Quiet
<1>4. DataIsCurrent'
  BY DEF ModelInv, DataIsCurrent, D!Quiet
<1>5. BoxFollows'
  BY DEF BoxFollows, D!Stored
<1>6. QED
  BY <1>1, <1>2, <1>3, <1>4, <1>5 DEF ModelInv

(* The administrator asks for something: it is the only request.           *)
LEMMA ModelAsks ==
  ASSUME Assumptions, ModelInv, D!Quiet,
         NEW w \in D!Writes, ~w.served, writes' = writes \union {w}, focus' = None,
         UNCHANGED <<hidden, sampler, data, reread, chosen, prompt, failures>>,
         typed' \in Typed \union {None}, written' \in Nat, toggles' \in Nat,
         intended' \in [hidden : SUBSET Pairs, sampler : [Pairs -> D!Samplers]],
         failures = 0 =>
             /\ intended'.hidden = IF w.field = "hidden" THEN w.value ELSE hidden
             /\ toggles' = 0 => /\ w.field # "hidden"
                                /\ intended'.sampler =
                                       [sampler EXCEPT ![w.model] = D!Patched(sampler[w.model], w)]
             /\ \/ prompt = data.sampler[chosen].prompt
                \/ w.field = "prompt" /\ w.model = chosen /\ w.value = prompt
  PROVE  ModelInv'
<1>1. reread = {} /\ writes = {} /\ writes' = {w}
  BY DEF D!Quiet
<1>2. D!TypeOK'
  BY <1>1 DEF ModelInv, D!TypeOK
<1>3. OneWrite'
  BY <1>1 DEF OneWrite
<1>4. Promises'
  BY <1>1 DEF Promises, Promised, D!Patched, D!Unset
<1>5. DataIsCurrent'
  BY <1>1 DEF DataIsCurrent, D!Quiet
<1>6. BoxFollows'
  BY <1>1 DEF BoxFollows, D!Stored
<1>7. QED
  BY <1>2, <1>3, <1>4, <1>5, <1>6 DEF ModelInv

(* A sampler of the chosen model is meant.                                 *)
LEMMA ModelMeans ==
  ASSUME ModelInv, NEW s \in D!Samplers
  PROVE  LET after == [intended EXCEPT !.sampler = [intended.sampler EXCEPT ![chosen] = s]]
         IN  /\ after \in [hidden : SUBSET Pairs, sampler : [Pairs -> D!Samplers]]
             /\ after.hidden = intended.hidden
             /\ after.sampler = [intended.sampler EXCEPT ![chosen] = s]
<1>1. intended \in [hidden : SUBSET Pairs, sampler : [Pairs -> D!Samplers]]
  BY DEF ModelInv, D!TypeOK
<1>2. PICK samplers \in [Pairs -> D!Samplers] : samplers = [intended.sampler EXCEPT ![chosen] = s]
  BY <1>1
<1>3. /\ [intended EXCEPT !.sampler = samplers] \in [hidden : SUBSET Pairs, sampler : [Pairs -> D!Samplers]]
      /\ [intended EXCEPT !.sampler = samplers].hidden = intended.hidden
      /\ [intended EXCEPT !.sampler = samplers].sampler = samplers
  BY <1>1
<1>4. QED
  BY <1>2, <1>3

(* What each kind of write asks of the sampler of the chosen model.        *)
LEMMA ModelSends ==
  ASSUME Assumptions, ModelInv, D!Quiet,
         NEW field \in {"number", "prompt", "all"}, NEW value,
         field = "number" => value \in (0 .. Top) \union {None},
         field = "prompt" => value \in Prompts \union {None},
         field = "all" => value = None,
         D!Save(field, chosen, value), focus' = None, typed' \in Typed \union {None},
         UNCHANGED <<hidden, sampler, data, reread, chosen, prompt, toggles, failures>>,
         NEW s \in D!Samplers, intended' = [intended EXCEPT !.sampler = [intended.sampler EXCEPT ![chosen] = s]],
         failures = 0 /\ toggles = 0 =>
             s = IF field = "all" THEN D!Unset ELSE [sampler[chosen] EXCEPT ![field] = value],
         field = "prompt" => value = prompt,
         field # "prompt" /\ failures = 0 => prompt = data.sampler[chosen].prompt
  PROVE  ModelInv'
<1>0. written \in Nat /\ toggles \in Nat /\ chosen \in Pairs
  BY DEF ModelInv, D!TypeOK
<1>1. PICK w : w = [id |-> written, field |-> field, model |-> chosen, value |-> value, served |-> FALSE]
  OBVIOUS
<1>2. w.field = field /\ w.model = chosen /\ w.value = value /\ ~w.served
  BY <1>1
<1>3. w \in D!Writes
  <2>1. CASE field = "number"
    BY <1>0, <1>1, <2>1 DEF D!Writes, D!Write
  <2>2. CASE field = "prompt"
    BY <1>0, <1>1, <2>2 DEF D!Writes, D!Write
  <2>3. CASE field = "all"
    BY <1>0, <1>1, <2>3 DEF D!Writes, D!Write
  <2>4. QED
    BY <2>1, <2>2, <2>3
<1>4. writes' = writes \union {w} /\ written' \in Nat /\ toggles' \in Nat
  BY <1>0, <1>1 DEF D!Save
<1>5. /\ intended' \in [hidden : SUBSET Pairs, sampler : [Pairs -> D!Samplers]]
      /\ intended'.hidden = intended.hidden
      /\ intended'.sampler = [intended.sampler EXCEPT ![chosen] = s]
  BY ModelMeans
<1>6. failures = 0 => hidden = intended.hidden /\ (toggles = 0 => sampler = intended.sampler)
  BY DEF ModelInv, Promises, D!Quiet
<1>7. failures = 0 /\ toggles = 0 => s = D!Patched(sampler[w.model], w)
  BY <1>2 DEF D!Patched
<1>8. failures = 0 =>
        /\ intended'.hidden = IF w.field = "hidden" THEN w.value ELSE hidden
        /\ toggles' = 0 => /\ w.field # "hidden"
                           /\ intended'.sampler =
                                  [sampler EXCEPT ![w.model] = D!Patched(sampler[w.model], w)]
        /\ \/ prompt = data.sampler[chosen].prompt
           \/ w.field = "prompt" /\ w.model = chosen /\ w.value = prompt
  BY <1>2, <1>5, <1>6, <1>7
<1>9. QED
  BY <1>2, <1>3, <1>4, <1>5, <1>8, ModelAsks

LEMMA ModelTypes ==
  ASSUME ModelInv
  PROVE  /\ hidden \in SUBSET Pairs /\ sampler \in [Pairs -> D!Samplers] /\ data \in D!Settings
         /\ chosen \in Pairs /\ typed \in Typed \union {None} /\ prompt \in Prompts \union {None}
         /\ focus \in {None, "number", "prompt"}
         /\ sampler[chosen] \in D!Samplers /\ data.sampler[chosen] \in D!Samplers
         /\ intended \in [hidden : SUBSET Pairs, sampler : [Pairs -> D!Samplers]]
         /\ intended.sampler[chosen] \in D!Samplers
         /\ written \in Nat /\ toggles \in Nat /\ failures \in Nat
         /\ data.hidden \in SUBSET Pairs /\ data.sampler \in [Pairs -> D!Samplers]
BY DEF ModelInv, D!TypeOK, D!Settings

LEMMA ModelPicks ==
  ASSUME Assumptions, ModelInv,
         \/ \E m \in Pairs : D!Pick(m)
         \/ \E box \in {"number", "prompt"} : D!Focus(box)
         \/ \E text \in Typed : D!TypeNumber(text)
         \/ \E text \in Prompts \union {None} : D!TypePrompt(text)
  PROVE  ModelInv'
<1>0. None # "prompt" /\ None # "number"
  BY DEF Assumptions, D!ModelSettingsAssumption
<1>1. CASE \E m \in Pairs : D!Pick(m)
  <2>1. PICK m \in Pairs : D!Pick(m)
    BY <1>1
  <2>2. /\ D!Ready /\ focus' = focus /\ chosen' = m /\ intended' = intended
        /\ UNCHANGED <<hidden, sampler, data, reread, writes, failures, toggles, written>>
        /\ prompt' = data.sampler[m].prompt /\ typed' = None
    BY <2>1 DEF D!Pick, D!Render, D!Restarts, D!Stored
  <2>3. prompt' \in Prompts \union {None}
    BY <2>2, ModelTypes DEF D!Samplers
  <2>4. QED
    BY <2>2, <2>3, ModelReady, ModelTypes, ModelTurns
<1>2. CASE \E box \in {"number", "prompt"} : D!Focus(box)
  <2>1. PICK box \in {"number", "prompt"} : D!Focus(box)
    BY <1>2
  <2>2. /\ D!Ready /\ focus = None /\ focus' = box
        /\ UNCHANGED <<hidden, sampler, data, reread, writes, failures, toggles, written, chosen,
                       typed, prompt, intended>>
    BY <2>1 DEF D!Focus
  <2>3. QED
    BY <1>0, <2>2, ModelReady, ModelTypes, ModelTurns DEF D!Stored
<1>3. CASE \E text \in Typed : D!TypeNumber(text)
  <2>1. PICK text \in Typed : D!TypeNumber(text)
    BY <1>3
  <2>2. /\ focus = "number" /\ focus' = focus /\ typed' = text
        /\ UNCHANGED <<hidden, sampler, data, reread, writes, failures, toggles, written, chosen,
                       prompt, intended>>
    BY <2>1 DEF D!TypeNumber
  <2>3. QED
    BY <1>0, <2>2, ModelReady, ModelTypes, ModelTurns DEF D!Stored
<1>4. CASE \E text \in Prompts \union {None} : D!TypePrompt(text)
  <2>1. PICK text \in Prompts \union {None} : D!TypePrompt(text)
    BY <1>4
  <2>2. /\ focus = "prompt" /\ focus' = focus /\ prompt' = text
        /\ UNCHANGED <<hidden, sampler, data, reread, writes, failures, toggles, written, chosen,
                       typed, intended>>
    BY <2>1 DEF D!TypePrompt
  <2>3. QED
    BY <1>0, <2>2, ModelReady, ModelTypes, ModelTurns
<1>5. QED
  BY <1>1, <1>2, <1>3, <1>4

LEMMA ModelToggles ==
  ASSUME Assumptions, ModelInv, NEW m \in Pairs, D!Toggle(m)
  PROVE  ModelInv'
<1>1. /\ D!Ready /\ focus = None /\ D!Save("hidden", m, D!Toggled(m)) /\ toggles' = toggles + 1
      /\ intended' = [intended EXCEPT !.hidden = IF m \in data.hidden THEN intended.hidden \ {m}
                                                 ELSE intended.hidden \union {m}]
      /\ UNCHANGED <<hidden, sampler, data, reread, chosen, focus, typed, prompt, failures>>
  BY DEF D!Toggle
<1>2. PICK hide \in SUBSET Pairs : hide = D!Toggled(m)
  BY ModelTypes DEF D!Toggled
<1>3. PICK w : w = [id |-> written, field |-> "hidden", model |-> m, value |-> hide, served |-> FALSE]
  OBVIOUS
<1>4. w.field = "hidden" /\ w.value = hide /\ ~w.served /\ w \in D!Writes
  BY <1>3, ModelTypes DEF D!Writes, D!Write
<1>5. writes' = writes \union {w} /\ written' \in Nat /\ toggles' \in Nat /\ toggles' # 0
  BY <1>1, <1>2, <1>3, ModelTypes DEF D!Save
<1>6. PICK after \in SUBSET Pairs : after = IF m \in data.hidden THEN intended.hidden \ {m}
                                            ELSE intended.hidden \union {m}
  BY ModelTypes
<1>7. /\ intended' \in [hidden : SUBSET Pairs, sampler : [Pairs -> D!Samplers]]
      /\ intended'.hidden = after
  BY <1>1, <1>6, ModelTypes
<1>8. None # "prompt"
  BY DEF Assumptions, D!ModelSettingsAssumption
<1>9. D!Quiet /\ (failures = 0 => data.hidden = intended.hidden /\ prompt = data.sampler[chosen].prompt)
  BY <1>1, <1>8, ModelReady DEF D!Stored
<1>10. failures = 0 => intended'.hidden = hide
  BY <1>2, <1>6, <1>7, <1>9 DEF D!Toggled
<1>11. QED
  BY <1>1, <1>4, <1>5, <1>7, <1>9, <1>10, ModelTypes, ModelAsks

LEMMA ModelSlides ==
  ASSUME Assumptions, ModelInv,
         (\E number \in 0 .. Top : D!Slide(number)) \/ D!Undo \/ D!ResetAll
  PROVE  ModelInv'
<1>0. /\ D!Ready /\ focus = None
      /\ UNCHANGED <<hidden, sampler, data, reread, chosen, focus, typed, prompt, toggles, failures>>
  BY DEF D!Slide, D!Undo, D!ResetAll
<1>1. None # "prompt"
  BY DEF Assumptions, D!ModelSettingsAssumption
<1>2. /\ D!Quiet
      /\ failures = 0 => prompt = data.sampler[chosen].prompt
      /\ failures = 0 /\ toggles = 0 => intended.sampler[chosen] = sampler[chosen]
  BY <1>0, <1>1, ModelReady DEF D!Stored
<1>3. CASE (\E number \in 0 .. Top : D!Slide(number)) \/ D!Undo
  <2>1. PICK number \in (0 .. Top) \union {None} :
           /\ D!Save("number", chosen, number)
           /\ intended' = [intended EXCEPT !.sampler = [intended.sampler EXCEPT
                               ![chosen] = [intended.sampler[chosen] EXCEPT !.number = number]]]
    BY <1>3 DEF D!Slide, D!Undo
  <2>2. PICK s \in D!Samplers : s = [intended.sampler[chosen] EXCEPT !.number = number]
    BY ModelTypes DEF D!Samplers
  <2>3. intended' = [intended EXCEPT !.sampler = [intended.sampler EXCEPT ![chosen] = s]]
    BY <2>1, <2>2
  <2>4. failures = 0 /\ toggles = 0 => s = [sampler[chosen] EXCEPT !["number"] = number]
    BY <1>2, <2>2
  <2>5. QED
    BY <1>0, <1>2, <2>1, <2>3, <2>4, ModelTypes, ModelSends
<1>4. CASE D!ResetAll
  <2>1. /\ D!Save("all", chosen, None)
        /\ intended' = [intended EXCEPT !.sampler = [intended.sampler EXCEPT ![chosen] = D!Unset]]
    BY <1>4 DEF D!ResetAll
  <2>2. D!Unset \in D!Samplers
    BY DEF D!Unset, D!Samplers
  <2>3. QED
    BY <1>0, <1>2, <2>1, <2>2, ModelTypes, ModelSends
<1>5. QED
  BY <1>3, <1>4

LEMMA ModelLeavesNumber ==
  ASSUME Assumptions, ModelInv, D!BlurNumber
  PROVE  ModelInv'
<1>0. /\ focus = "number" /\ focus' = None /\ typed' = None /\ None # "number" /\ None # "prompt"
      /\ UNCHANGED <<hidden, sampler, data, reread, chosen, prompt, toggles, failures>>
  BY DEF D!BlurNumber, Assumptions, D!ModelSettingsAssumption
<1>1. /\ D!Quiet
      /\ failures = 0 => prompt = data.sampler[chosen].prompt /\ hidden = intended.hidden
      /\ failures = 0 /\ toggles = 0 => intended.sampler = sampler
  BY <1>0, ModelReady DEF D!Stored
<1>2. CASE typed \in {None, D!Shown}
  <2>1. UNCHANGED <<writes, intended, written>>
    BY <1>2 DEF D!BlurNumber
  <2>2. QED
    BY <1>0, <1>1, <2>1, ModelTypes, ModelTurns
<1>3. CASE typed \notin {None, D!Shown}
  <2>1. /\ D!Save("number", chosen, D!Clamped(typed))
        /\ intended' = [intended EXCEPT !.sampler = [intended.sampler EXCEPT
                            ![chosen] = [intended.sampler[chosen] EXCEPT !.number = D!Meaning(typed)]]]
    BY <1>3 DEF D!BlurNumber
  <2>2. typed \in Typed /\ typed # D!Empty /\ typed \in -1 .. Top + 1 /\ Top \in Nat
    BY <1>3, ModelTypes DEF Assumptions, D!ModelSettingsAssumption
  <2>3. D!Meaning(typed) = D!Clamped(typed)
    BY <2>2 DEF D!Meaning, D!Clamped
  <2>4. PICK number \in (0 .. Top) \union {None} : number = D!Clamped(typed)
    BY <2>2 DEF D!Clamped, D!Empty
  <2>5. PICK s \in D!Samplers : s = [intended.sampler[chosen] EXCEPT !.number = number]
    BY ModelTypes DEF D!Samplers
  <2>6. intended' = [intended EXCEPT !.sampler = [intended.sampler EXCEPT ![chosen] = s]]
    BY <2>1, <2>3, <2>4, <2>5
  <2>7. failures = 0 /\ toggles = 0 => s = [sampler[chosen] EXCEPT !["number"] = number]
    BY <1>1, <2>5
  <2>8. QED
    BY <1>0, <1>1, <2>1, <2>4, <2>6, <2>7, ModelTypes, ModelSends
<1>4. QED
  BY <1>2, <1>3

LEMMA ModelLeavesPrompt ==
  ASSUME Assumptions, ModelInv, D!BlurPrompt
  PROVE  ModelInv'
<1>0. /\ focus = "prompt" /\ focus' = None /\ None # "prompt"
      /\ UNCHANGED <<hidden, sampler, data, reread, chosen, typed, prompt, toggles, failures>>
      /\ intended' = [intended EXCEPT !.sampler = [intended.sampler EXCEPT
                          ![chosen] = [intended.sampler[chosen] EXCEPT !.prompt = prompt]]]
  BY DEF D!BlurPrompt, Assumptions, D!ModelSettingsAssumption
<1>1. /\ D!Quiet
      /\ failures = 0 => hidden = intended.hidden /\ data.sampler = sampler
      /\ failures = 0 /\ toggles = 0 => intended.sampler = sampler
  BY <1>0, ModelReady
<1>2. PICK s \in D!Samplers : s = [intended.sampler[chosen] EXCEPT !.prompt = prompt]
  BY ModelTypes DEF D!Samplers
<1>3. intended' = [intended EXCEPT !.sampler = [intended.sampler EXCEPT ![chosen] = s]]
  BY <1>0, <1>2
<1>4. CASE D!PromptIsNew
  <2>1. D!Save("prompt", chosen, prompt)
    BY <1>4 DEF D!BlurPrompt
  <2>2. failures = 0 /\ toggles = 0 => s = [sampler[chosen] EXCEPT !["prompt"] = prompt]
    BY <1>1, <1>2
  <2>3. QED
    BY <1>0, <1>1, <1>3, <2>1, <2>2, ModelTypes, ModelSends
<1>5. CASE ~D!PromptIsNew
  <2>1. UNCHANGED <<writes, written>> /\ prompt = data.sampler[chosen].prompt
    BY <1>5 DEF D!BlurPrompt, D!PromptIsNew, D!Stored
  <2>2. failures = 0 /\ toggles = 0 => s = sampler[chosen]
    BY <1>1, <1>2, <2>1, ModelTypes DEF D!Samplers
  <2>3. /\ intended' \in [hidden : SUBSET Pairs, sampler : [Pairs -> D!Samplers]]
        /\ intended'.hidden = intended.hidden
        /\ intended'.sampler = [intended.sampler EXCEPT ![chosen] = s]
    BY <1>3, ModelMeans
  <2>4. failures = 0 /\ toggles = 0 => intended'.sampler = sampler
    BY <1>1, <2>2, <2>3, ModelTypes
  <2>5. QED
    BY <1>0, <1>1, <2>1, <2>3, <2>4, ModelTypes, ModelTurns
<1>6. QED
  BY <1>4, <1>5

LEMMA ModelServes ==
  ASSUME Assumptions, ModelInv, NEW w \in writes, D!Serve(w)
  PROVE  ModelInv'
<1>1. /\ ~w.served /\ writes' = (writes \ {w}) \union {[w EXCEPT !.served = TRUE]}
      /\ UNCHANGED <<data, reread, chosen, focus, typed, prompt, intended, written, toggles, failures>>
  BY DEF D!Serve
<1>2. writes = {w} /\ reread = {} /\ focus = None /\ w \in D!Writes
  BY DEF ModelInv, OneWrite, D!Quiet, D!TypeOK
<1>3. PICK new : new = [w EXCEPT !.served = TRUE]
  OBVIOUS
<1>4. /\ writes' = {new} /\ new \in D!Writes /\ new.served
      /\ new.field = w.field /\ new.model = w.model /\ new.value = w.value
  BY <1>1, <1>2, <1>3 DEF D!Writes, D!Write
<1>5. /\ hidden' = (IF w.field = "hidden" THEN w.value ELSE hidden)
      /\ sampler' = IF w.field = "hidden" THEN [m \in Pairs |-> D!Unset]
                    ELSE [sampler EXCEPT ![w.model] = D!Patched(sampler[w.model], w)]
  BY DEF D!Serve
<1>6. /\ w.field = "hidden" => w.value \in SUBSET Pairs
      /\ w.field = "number" => w.value \in (0 .. Top) \union {None}
      /\ w.field = "prompt" => w.value \in Prompts \union {None}
      /\ w.field \in {"hidden", "number", "prompt", "all"} /\ w.model \in Pairs
  BY <1>2 DEF D!Writes, D!Write
<1>7. D!Patched(sampler[w.model], w) \in D!Samplers \/ w.field = "hidden"
  <2>1. sampler[w.model] \in D!Samplers
    BY <1>6, ModelTypes
  <2>2. CASE w.field = "all"
    BY <2>2 DEF D!Patched, D!Unset, D!Samplers
  <2>3. CASE w.field = "number"
    BY <1>6, <2>1, <2>3 DEF D!Patched, D!Samplers
  <2>4. CASE w.field = "prompt"
    BY <1>6, <2>1, <2>4 DEF D!Patched, D!Samplers
  <2>5. QED
    BY <1>6, <2>2, <2>3, <2>4
<1>8. hidden' \in SUBSET Pairs /\ sampler' \in [Pairs -> D!Samplers]
  <2>1. D!Unset \in D!Samplers
    BY DEF D!Unset, D!Samplers
  <2>2. QED
    BY <1>5, <1>6, <1>7, <2>1, ModelTypes
<1>9. D!TypeOK'
  BY <1>1, <1>4, <1>8 DEF ModelInv, D!TypeOK
<1>10. OneWrite'
  BY <1>1, <1>2, <1>4 DEF ModelInv, OneWrite, D!Quiet
<1>11. Promises'
  <2>1. failures = 0 => Promised(w)
    BY DEF ModelInv, Promises
  <2>2. failures = 0 => hidden' = intended.hidden /\ (toggles = 0 => sampler' = intended.sampler)
    BY <1>1, <1>5, <2>1 DEF Promised
  <2>3. QED
    BY <1>1, <1>4, <2>2 DEF Promises, Promised
<1>12. DataIsCurrent'
  BY <1>1, <1>2, <1>4 DEF DataIsCurrent, D!Quiet
<1>13. BoxFollows'
  <2>1. SUFFICES ASSUME failures = 0, focus # "prompt", prompt # data.sampler[chosen].prompt
                 PROVE  sampler'[chosen].prompt = prompt
    BY <1>1, <1>4 DEF BoxFollows, D!Stored, D!Quiet
  <2>2. w.field = "prompt" /\ w.model = chosen /\ w.value = prompt
    BY <1>1, <1>2, <2>1 DEF ModelInv, BoxFollows, D!Stored
  <2>3. sampler'[chosen] = [sampler[chosen] EXCEPT !["prompt"] = prompt]
    BY <1>5, <2>2, ModelTypes DEF D!Patched
  <2>4. QED
    BY <2>3, ModelTypes DEF D!Samplers
<1>14. QED
  BY <1>9, <1>10, <1>11, <1>12, <1>13 DEF ModelInv

LEMMA ModelLands ==
  ASSUME Assumptions, ModelInv, NEW w \in writes, D!WriteLands(w)
  PROVE  ModelInv'
<1>1. /\ w.served /\ writes' = writes \ {w} /\ reread' = {[answer |-> D!Unknown]}
      /\ UNCHANGED <<hidden, sampler, data, chosen, focus, typed, prompt, intended, written, toggles,
                     failures>>
  BY DEF D!WriteLands, D!ReadAgain, D!Request
<1>2. writes = {w} /\ reread = {} /\ focus = None
  BY DEF ModelInv, OneWrite, D!Quiet
<1>3. writes' = {} /\ reread' # {}
  BY <1>1, <1>2
<1>4. D!Unknown \in D!Settings /\ ~D!Unknown.known
  BY DEF D!Unknown, D!Unset, D!Settings, D!Samplers
<1>5. \A q \in reread' : q.answer = D!Unknown
  BY <1>1
<1>6. D!TypeOK'
  BY <1>1, <1>3, <1>4 DEF ModelInv, D!TypeOK
<1>7. OneWrite'
  BY <1>1, <1>2, <1>3 DEF ModelInv, OneWrite, D!Quiet
<1>8. Promises'
  BY <1>1, <1>3 DEF ModelInv, Promises, Promised
<1>9. DataIsCurrent'
  BY <1>3, <1>4, <1>5 DEF DataIsCurrent, D!Quiet
<1>10. BoxFollows'
  BY <1>1, <1>2, <1>3 DEF ModelInv, BoxFollows, D!Stored, D!Quiet
<1>11. QED
  BY <1>6, <1>7, <1>8, <1>9, <1>10 DEF ModelInv

LEMMA ModelReads ==
  ASSUME Assumptions, ModelInv, NEW q \in reread,
         D!AnswerSettings(q) \/ D!SettingsLand(q) \/ D!SettingsFail(q)
  PROVE  ModelInv'
<1>0. /\ writes = {} /\ reread = {q} /\ focus = None /\ q.answer \in D!Settings
      /\ UNCHANGED <<hidden, sampler, writes, focus, intended, written, toggles>>
  BY DEF ModelInv, OneWrite, D!Quiet, D!TypeOK, D!AnswerSettings, D!SettingsLand, D!SettingsFail
<1>1. CASE D!AnswerSettings(q)
  <2>1. PICK a : a = [hidden |-> hidden, sampler |-> sampler, known |-> TRUE]
    OBVIOUS
  <2>2. a \in D!Settings /\ a.hidden = hidden /\ a.sampler = sampler
    BY <2>1, ModelTypes DEF D!Settings
  <2>3. reread' = {[answer |-> a]} /\ UNCHANGED <<data, chosen, typed, prompt, failures>>
    BY <1>1, <2>1 DEF D!AnswerSettings
  <2>4. \A b \in reread' : b.answer = a
    BY <2>3
  <2>5. D!TypeOK'
    BY <1>0, <2>2, <2>3 DEF ModelInv, D!TypeOK
  <2>6. OneWrite'
    BY <1>0, <2>3 DEF ModelInv, OneWrite, D!Quiet
  <2>7. Promises'
    BY <1>0, <2>3 DEF ModelInv, Promises
  <2>8. DataIsCurrent'
    BY <1>0, <2>2, <2>3, <2>4 DEF DataIsCurrent, D!Quiet
  <2>9. BoxFollows'
    BY <1>0, <2>3 DEF ModelInv, BoxFollows, D!Stored, D!Quiet
  <2>10. QED
    BY <2>5, <2>6, <2>7, <2>8, <2>9 DEF ModelInv
<1>2. CASE D!SettingsLand(q)
  <2>1. /\ q.answer.known /\ reread' = {} /\ data' = q.answer /\ chosen' = chosen /\ failures' = failures
        /\ IF D!Stored(q.answer, chosen).prompt # D!Stored(data, chosen).prompt
           THEN prompt' = D!Stored(q.answer, chosen).prompt /\ typed' = None
           ELSE UNCHANGED <<prompt, typed>>
    BY <1>2 DEF D!SettingsLand, D!Render, D!Restarts
  <2>2. D!Stored(q.answer, chosen).prompt \in Prompts \union {None}
    BY <1>0, ModelTypes DEF D!Stored, D!Settings, D!Samplers
  <2>3. prompt' \in Prompts \union {None} /\ typed' \in Typed \union {None}
    BY <2>1, <2>2, ModelTypes
  <2>4. D!TypeOK'
    BY <1>0, <2>1, <2>3 DEF ModelInv, D!TypeOK
  <2>5. OneWrite'
    BY <1>0, <2>1 DEF ModelInv, OneWrite, D!Quiet
  <2>6. Promises'
    BY <1>0, <2>1 DEF ModelInv, Promises
  <2>7. failures = 0 => q.answer.hidden = hidden /\ q.answer.sampler = sampler
    BY <2>1 DEF ModelInv, DataIsCurrent
  <2>8. DataIsCurrent'
    BY <1>0, <2>1, <2>7 DEF DataIsCurrent
  <2>9. BoxFollows'
    BY <1>0, <2>1, <2>7 DEF ModelInv, BoxFollows, D!Stored
  <2>10. QED
    BY <2>4, <2>5, <2>6, <2>8, <2>9 DEF ModelInv
<1>3. CASE D!SettingsFail(q)
  <2>1. /\ failures' = failures + 1 /\ reread' = {}
        /\ UNCHANGED <<data, chosen, typed, prompt>>
    BY <1>3 DEF D!SettingsFail
  <2>2. failures' \in Nat /\ failures' # 0
    BY <2>1, ModelTypes
  <2>3. D!TypeOK'
    BY <1>0, <2>1, <2>2 DEF ModelInv, D!TypeOK
  <2>4. OneWrite'
    BY <1>0, <2>1 DEF ModelInv, OneWrite, D!Quiet
  <2>5. QED
    BY <2>2, <2>3, <2>4 DEF ModelInv, Promises, DataIsCurrent, BoxFollows
<1>4. QED
  BY <1>1, <1>2, <1>3

LEMMA ModelStay ==
  ASSUME ModelInv, UNCHANGED modelVars
  PROVE  ModelInv'
<1>1. UNCHANGED <<hidden, sampler, data, reread, writes, chosen, focus, typed, prompt, intended,
                  written, toggles, failures>>
  BY DEF modelVars
<1>2. D!TypeOK' /\ OneWrite'
  BY <1>1 DEF ModelInv, D!TypeOK, OneWrite, D!Quiet
<1>3. Promises'
  BY <1>1 DEF ModelInv, Promises, Promised, D!Patched, D!Unset
<1>4. DataIsCurrent' /\ BoxFollows'
  BY <1>1 DEF ModelInv, DataIsCurrent, BoxFollows, D!Stored, D!Quiet
<1>5. QED
  BY <1>2, <1>3, <1>4 DEF ModelInv

LEMMA ModelStep ==
  ASSUME Assumptions, ModelInv, D!Next
  PROVE  ModelInv'
<1>1. CASE \E w \in writes : D!Serve(w) \/ D!WriteLands(w)
  BY <1>1, ModelServes, ModelLands
<1>2. CASE \E q \in reread : D!AnswerSettings(q) \/ D!SettingsLand(q) \/ D!SettingsFail(q)
  BY <1>2, ModelReads
<1>3. CASE \E m \in Pairs : D!Toggle(m)
  BY <1>3, ModelToggles
<1>4. CASE \/ \E m \in Pairs : D!Pick(m)
           \/ \E box \in {"number", "prompt"} : D!Focus(box)
           \/ \E text \in Typed : D!TypeNumber(text)
           \/ \E text \in Prompts \union {None} : D!TypePrompt(text)
  BY <1>4, ModelPicks
<1>5. CASE D!BlurNumber \/ D!BlurPrompt
  BY <1>5, ModelLeavesNumber, ModelLeavesPrompt
<1>6. CASE (\E number \in 0 .. Top : D!Slide(number)) \/ D!Undo \/ D!ResetAll
  BY <1>6, ModelSlides
<1>7. QED
  BY <1>1, <1>2, <1>3, <1>4, <1>5, <1>6 DEF D!Next

-----------------------------------------------------------------------------
(* The providers.                                                          *)

Serving == Readers \union Editors \union {Warm}

(* A request holds a client that its provider has had, and has found what  *)
(* an endpoint of the provider offers.                                     *)
Asks(r) ==
    /\ pc[r] # "idle" => job[r] \in P!Job
    /\ pc[r] \in {"get", "again", "wait", "woken"} => job[r].id \in Ids /\ held[r] \in served[job[r].id]
    /\ pc[r] \in {"save", "swap"} => next[r] \in P!Entries
    /\ pc[r] = "found" => /\ job[r].id \in Ids
                          /\ \E url \in served[job[r].id] : job[r].model \in Offers[url]

(* So do the client in force and every discovery, and a cache has only     *)
(* what one of these endpoints offers.                                     *)
Had ==
    /\ \A i \in Ids : entry[i] # None => entry[i] \in served[i]
    /\ \A f \in Fetches : fetch[f] # None => fetch[f].url \in served[fetch[f].id]
    /\ \A i \in Ids : cache[i] # None =>
           \A m \in cache[i].models : \E url \in served[i] : m \in Offers[url]

(* A discovery that is not forgotten is the one its cache knows of.        *)
OneInFlight ==
    \A f \in Fetches : fetch[f] # None /\ fetch[f].known =>
        cache[fetch[f].id] # None /\ cache[fetch[f].id].flight = f

ProviderInv ==
    /\ P!TypeOK
    /\ \A r \in Serving : Asks(r)
    /\ boot.at # "loaded" => pc[Warm] = "idle"
    /\ Had
    /\ OneInFlight

LEMMA ProviderSays ==
  ASSUME Assumptions, ProviderInv
  PROVE  P!AcceptedWasOffered /\ P!OneDiscoveryEach
<1>1. P!AcceptedWasOffered
  BY DEF ProviderInv, Asks, Serving, P!AcceptedWasOffered
<1>2. P!OneDiscoveryEach
  BY DEF ProviderInv, OneInFlight, P!OneDiscoveryEach
<1>3. QED
  BY <1>1, <1>2

LEMMA NoneOfThese ==
  ASSUME Assumptions
  PROVE  /\ None \notin Ids /\ None \notin Urls /\ None \notin Fetches /\ None \notin Serving
         /\ None \notin P!Cache /\ None \notin P!Flight /\ None \notin P!Job
         /\ Offers \in [Urls -> SUBSET Models]
BY DEF Assumptions, P!NoneAssumption, P!OffersAssumption, Serving

LEMMA ProviderBegin ==
  ASSUME Assumptions, Init
  PROVE  ProviderInv
<1>1. P!Init
  BY DEF Init
<1>2. P!TypeOK
  BY <1>1 DEF P!Init, P!TypeOK, P!Entries
<1>3. QED
  BY <1>1, <1>2 DEF P!Init, ProviderInv, Asks, Serving, Had, OneInFlight

LEMMA ProviderTypes ==
  ASSUME ProviderInv
  PROVE  /\ file \in P!Entries /\ entry \in P!Entries
         /\ boot \in [at : {"reading", "read", "loaded"}, got : P!Entries]
         /\ cache \in [Ids -> P!Cache \union {None}]
         /\ fetch \in [Fetches -> P!Flight \union {None}]
         /\ pc \in [Serving -> {"idle", "start", "get", "again", "wait", "woken", "save", "swap",
                                "found", "absent", "done", "refused"}]
         /\ job \in [Serving -> P!Job \union {None}]
         /\ held \in [Serving -> Urls \union {None}]
         /\ on \in [Serving -> Fetches \union {None}]
         /\ todo \in [Serving -> SUBSET Ids]
         /\ next \in [Serving -> P!Entries \union {None}]
         /\ served \in [Ids -> SUBSET Urls]
BY DEF ProviderInv, P!TypeOK, Serving

(* One request moves; what providers have had only grows.                  *)
LEMMA OneAsks ==
  ASSUME Assumptions, ProviderInv, P!TypeOK', NEW r \in Serving, Asks(r)',
         \A s \in Serving \ {r} :
             pc'[s] = pc[s] /\ job'[s] = job[s] /\ held'[s] = held[s] /\ next'[s] = next[s],
         \A i \in Ids : served[i] \subseteq served'[i]
  PROVE  \A s \in Serving : Asks(s)'
<1>1. SUFFICES ASSUME NEW s \in Serving, s # r
               PROVE  Asks(s)'
  OBVIOUS
<1>2. Asks(s) /\ pc'[s] = pc[s] /\ job'[s] = job[s] /\ held'[s] = held[s] /\ next'[s] = next[s]
  BY <1>1 DEF ProviderInv
<1>3. QED
  BY <1>2 DEF Asks

(* A cache that is not there has nothing in it.                            *)
LEMMA CachedHas ==
  ASSUME Assumptions, ProviderInv, NEW i \in Ids
  PROVE  /\ P!Cached(i) \in P!Cache
         /\ \A m \in P!Cached(i).models : \E url \in served[i] : m \in Offers[url]
         /\ P!Cached(i).flight # None => cache[i] # None
<1>1. P!Empty \in P!Cache /\ P!Empty.models = {} /\ P!Empty.flight = None
  BY DEF P!Empty, P!Cache
<1>2. QED
  BY <1>1, ProviderTypes DEF P!Cached, ProviderInv, Had

LEMMA DiscoveryBegins ==
  ASSUME Assumptions, ProviderInv, NEW i \in Ids, NEW url \in served[i], NEW f \in Fetches,
         P!Started(i, url, f), P!Cached(i).flight = None, UNCHANGED <<served, entry>>
  PROVE  /\ cache' \in [Ids -> P!Cache \union {None}] /\ fetch' \in [Fetches -> P!Flight \union {None}]
         /\ Had' /\ OneInFlight'
<1>1. PICK c : c = [P!Cached(i) EXCEPT !.flight = f]
  OBVIOUS
<1>2. c \in P!Cache /\ c.flight = f /\ c.models = P!Cached(i).models /\ c # None
  BY <1>1, CachedHas, NoneOfThese DEF P!Cache
<1>3. PICK x : x = [id |-> i, url |-> url, known |-> TRUE]
  OBVIOUS
<1>4. x \in P!Flight /\ x.id = i /\ x.url = url /\ x.known
  BY <1>3, ProviderTypes DEF P!Flight
<1>5. fetch[f] = None /\ fetch' = [fetch EXCEPT ![f] = x] /\ cache' = [cache EXCEPT ![i] = c]
  BY <1>1, <1>3 DEF P!Started, P!Free
<1>6. cache' \in [Ids -> P!Cache \union {None}] /\ fetch' \in [Fetches -> P!Flight \union {None}]
  BY <1>2, <1>4, <1>5, ProviderTypes
<1>7. /\ cache'[i] = c /\ \A j \in Ids \ {i} : cache'[j] = cache[j]
      /\ fetch'[f] = x /\ \A g \in Fetches \ {f} : fetch'[g] = fetch[g]
  BY <1>5, ProviderTypes
<1>8. Had'
  BY <1>2, <1>4, <1>7, CachedHas DEF ProviderInv, Had
<1>9. OneInFlight'
  <2>1. SUFFICES ASSUME NEW g \in Fetches, fetch'[g] # None, fetch'[g].known
                 PROVE  cache'[fetch'[g].id] # None /\ cache'[fetch'[g].id].flight = g
    BY DEF OneInFlight
  <2>2. CASE g = f
    BY <1>2, <1>4, <1>7, <2>2
  <2>3. CASE g # f
    <3>1. /\ fetch'[g] = fetch[g] /\ fetch[g] \in P!Flight
          /\ cache[fetch[g].id] # None /\ cache[fetch[g].id].flight = g
      BY <1>7, <2>1, <2>3, ProviderTypes DEF ProviderInv, OneInFlight
    <3>2. fetch[g].id # i
      BY <3>1, NoneOfThese DEF P!Cached
    <3>3. QED
      BY <1>7, <3>1, <3>2 DEF P!Flight
  <2>4. QED
    BY <2>2, <2>3
<1>10. QED
  BY <1>6, <1>8, <1>9

LEMMA RequestRefreshes ==
  ASSUME Assumptions, ProviderInv, NEW r \in Serving, NEW i \in Ids, NEW url \in served[i],
         P!Refresh(r, i, url), UNCHANGED <<served, entry>>
  PROVE  /\ cache' \in [Ids -> P!Cache \union {None}] /\ fetch' \in [Fetches -> P!Flight \union {None}]
         /\ on' \in [Serving -> Fetches \union {None}]
         /\ Had' /\ OneInFlight'
<1>1. CASE P!Cached(i).flight # None /\ on' = [on EXCEPT ![r] = P!Cached(i).flight] /\ UNCHANGED <<cache, fetch>>
  <2>1. P!Cached(i).flight \in Fetches
    BY <1>1, CachedHas DEF P!Cache
  <2>2. PICK f \in Fetches : f = P!Cached(i).flight
    BY <2>1
  <2>3. on' \in [Serving -> Fetches \union {None}]
    BY <1>1, <2>2, ProviderTypes
  <2>4. QED
    BY <1>1, <2>3, ProviderTypes DEF ProviderInv, Had, OneInFlight
<1>2. CASE P!Cached(i).flight = None /\ \E f \in Fetches : P!Started(i, url, f) /\ on' = [on EXCEPT ![r] = f]
  <2>1. PICK f \in Fetches : P!Started(i, url, f) /\ on' = [on EXCEPT ![r] = f]
    BY <1>2
  <2>2. on' \in [Serving -> Fetches \union {None}]
    BY <2>1, ProviderTypes
  <2>3. QED
    BY <1>2, <2>1, <2>2, DiscoveryBegins
<1>3. QED
  BY <1>1, <1>2 DEF P!Refresh

(* The list is replaced: a provider that goes takes its cache with it, and *)
(* its discoveries are forgotten.                                          *)
LEMMA ProvidersSet ==
  ASSUME Assumptions, ProviderInv, NEW es \in P!Entries, P!SetProviders(es)
  PROVE  /\ entry' \in P!Entries /\ cache' \in [Ids -> P!Cache \union {None}]
         /\ fetch' \in [Fetches -> P!Flight \union {None}] /\ served' \in [Ids -> SUBSET Urls]
         /\ \A i \in Ids : served[i] \subseteq served'[i]
         /\ Had' /\ OneInFlight'
<1> DEFINE gone == {i \in Ids : entry[i] # None /\ es[i] = None}
<1>1. /\ entry' = es /\ served' = [i \in Ids |-> served[i] \union ({es[i]} \ {None})]
      /\ cache' = [i \in Ids |-> IF i \in gone THEN None ELSE cache[i]]
      /\ fetch' = [f \in Fetches |-> IF fetch[f] # None /\ fetch[f].id \in gone
                                     THEN [fetch[f] EXCEPT !.known = FALSE] ELSE fetch[f]]
  BY DEF P!SetProviders
<1> HIDE DEF gone
<1>2. \A i \in Ids : es[i] \in Urls \union {None}
  BY DEF P!Entries
<1>3. /\ served' \in [Ids -> SUBSET Urls]
      /\ \A i \in Ids : served[i] \subseteq served'[i] /\ (es[i] # None => es[i] \in served'[i])
  BY <1>1, <1>2, ProviderTypes
<1>4. cache' \in [Ids -> P!Cache \union {None}]
      /\ \A i \in Ids : cache'[i] # None => cache'[i] = cache[i] /\ i \notin gone
  BY <1>1, ProviderTypes
<1>5. \A f \in Fetches : fetch'[f] # None =>
        /\ fetch[f] # None /\ fetch'[f] \in P!Flight
        /\ fetch'[f].id = fetch[f].id /\ fetch'[f].url = fetch[f].url
        /\ fetch'[f].known => fetch[f].known /\ fetch[f].id \notin gone
  <2>1. SUFFICES ASSUME NEW f \in Fetches, fetch'[f] # None
                 PROVE  /\ fetch[f] # None /\ fetch'[f] \in P!Flight
                        /\ fetch'[f].id = fetch[f].id /\ fetch'[f].url = fetch[f].url
                        /\ fetch'[f].known => fetch[f].known /\ fetch[f].id \notin gone
    OBVIOUS
  <2>2. CASE fetch[f] # None /\ fetch[f].id \in gone
    <3>1. fetch'[f] = [fetch[f] EXCEPT !.known = FALSE] /\ fetch[f] \in P!Flight
      BY <1>1, <2>2, ProviderTypes
    <3>2. QED
      BY <2>2, <3>1 DEF P!Flight
  <2>3. CASE ~(fetch[f] # None /\ fetch[f].id \in gone)
    <3>1. fetch'[f] = fetch[f]
      BY <1>1, <2>3
    <3>2. QED
      BY <2>1, <2>3, <3>1, ProviderTypes
  <2>4. QED
    BY <2>2, <2>3
<1>6. fetch' \in [Fetches -> P!Flight \union {None}]
  <2>1. \A f \in Fetches : fetch'[f] \in P!Flight \union {None}
    BY <1>5
  <2>2. fetch' = [f \in Fetches |-> fetch'[f]]
    BY <1>1
  <2>3. QED
    BY <2>1, <2>2
<1>7. \A f \in Fetches : fetch[f] # None => fetch[f].id \in Ids
  BY ProviderTypes DEF P!Flight
<1>8. Had'
  <2>1. \A i \in Ids : entry'[i] # None => entry'[i] \in served'[i]
    BY <1>1, <1>3
  <2>2. \A f \in Fetches : fetch'[f] # None => fetch'[f].url \in served'[fetch'[f].id]
    BY <1>3, <1>5, <1>7 DEF ProviderInv, Had
  <2>3. \A i \in Ids : cache'[i] # None => \A m \in cache'[i].models : \E url \in served'[i] : m \in Offers[url]
    BY <1>3, <1>4 DEF ProviderInv, Had
  <2>4. QED
    BY <2>1, <2>2, <2>3 DEF Had
<1>9. OneInFlight'
  <2>1. SUFFICES ASSUME NEW f \in Fetches, fetch'[f] # None, fetch'[f].known
                 PROVE  cache'[fetch'[f].id] # None /\ cache'[fetch'[f].id].flight = f
    BY DEF OneInFlight
  <2>2. /\ fetch'[f].id = fetch[f].id /\ fetch[f].id \in Ids /\ fetch[f].id \notin gone
        /\ cache[fetch[f].id] # None /\ cache[fetch[f].id].flight = f
    BY <1>5, <1>7, <2>1 DEF ProviderInv, OneInFlight
  <2>3. cache'[fetch[f].id] = cache[fetch[f].id]
    BY <1>1, <2>2
  <2>4. QED
    BY <2>2, <2>3
<1>10. QED
  BY <1>1, <1>3, <1>4, <1>6, <1>8, <1>9

LEMMA ProviderLoads ==
  ASSUME Assumptions, ProviderInv, P!LoadReads \/ P!LoadLands
  PROVE  ProviderInv'
<1>0. Warm \in Serving
  BY DEF Serving
<1>1. CASE P!LoadReads
  <2>1. PICK got : got = [i \in Ids |-> IF file[i] \in Barred THEN None ELSE file[i]]
    OBVIOUS
  <2>2. /\ boot' = [at |-> "read", got |-> got] /\ boot.at = "reading"
        /\ UNCHANGED <<file, entry, cache, fetch, pc, job, held, on, todo, next, served>>
    BY <1>1, <2>1 DEF P!LoadReads, P!local
  <2>3. got \in P!Entries
    BY <2>1, ProviderTypes DEF P!Entries
  <2>4. P!TypeOK'
    BY <2>2, <2>3 DEF ProviderInv, P!TypeOK
  <2>5. QED
    BY <2>2, <2>4 DEF ProviderInv, Asks, Had, OneInFlight
<1>2. CASE P!LoadLands
  <2>1. PICK asked, visits : asked = [kind |-> "refresh", id |-> None] /\ visits = {i \in Ids : boot.got[i] # None}
    OBVIOUS
  <2>2. /\ boot.at = "read" /\ P!SetProviders(boot.got) /\ boot' = [boot EXCEPT !.at = "loaded"]
        /\ job' = [job EXCEPT ![Warm] = asked] /\ pc' = [pc EXCEPT ![Warm] = "start"]
        /\ todo' = [todo EXCEPT ![Warm] = visits] /\ UNCHANGED <<file, held, on, next>>
    BY <1>2, <2>1 DEF P!LoadLands
  <2>3. boot.got \in P!Entries /\ boot' \in [at : {"reading", "read", "loaded"}, got : P!Entries]
        /\ boot'.at = "loaded"
    BY <2>2, ProviderTypes
  <2>4. /\ entry' \in P!Entries /\ cache' \in [Ids -> P!Cache \union {None}]
        /\ fetch' \in [Fetches -> P!Flight \union {None}] /\ served' \in [Ids -> SUBSET Urls]
        /\ \A i \in Ids : served[i] \subseteq served'[i]
        /\ Had' /\ OneInFlight'
    BY <2>2, <2>3, ProvidersSet
  <2>5. asked \in P!Job /\ visits \in SUBSET Ids
    BY <2>1 DEF P!Job
  <2>6. P!TypeOK'
    BY <1>0, <2>2, <2>3, <2>4, <2>5, ProviderTypes DEF P!TypeOK, Serving
  <2>7. pc'[Warm] = "start" /\ job'[Warm] = asked
    BY <1>0, <2>2, ProviderTypes
  <2>8. Asks(Warm)'
    BY <2>5, <2>7 DEF Asks
  <2>9. \A s \in Serving \ {Warm} :
             pc'[s] = pc[s] /\ job'[s] = job[s] /\ held'[s] = held[s] /\ next'[s] = next[s]
    BY <2>2, ProviderTypes
  <2>10. \A s \in Serving : Asks(s)'
    BY <1>0, <2>4, <2>6, <2>8, <2>9, OneAsks
  <2>11. QED
    BY <2>3, <2>4, <2>6, <2>10 DEF ProviderInv
<1>3. QED
  BY <1>1, <1>2

(* A request of its own: nothing of what the others see changes.           *)
LEMMA OnlyAsks ==
  ASSUME Assumptions, ProviderInv, NEW r \in Serving, Asks(r)', boot.at # "loaded" => r # Warm,
         file' \in P!Entries, UNCHANGED <<entry, boot, cache, fetch, served, on>>,
         pc' \in [Serving -> {"idle", "start", "get", "again", "wait", "woken", "save", "swap",
                              "found", "absent", "done", "refused"}],
         job' \in [Serving -> P!Job \union {None}], held' \in [Serving -> Urls \union {None}],
         todo' \in [Serving -> SUBSET Ids], next' \in [Serving -> P!Entries \union {None}],
         \A s \in Serving \ {r} :
             pc'[s] = pc[s] /\ job'[s] = job[s] /\ held'[s] = held[s] /\ next'[s] = next[s]
  PROVE  ProviderInv'
<1>1. P!TypeOK'
  BY ProviderTypes DEF P!TypeOK, Serving
<1>2. \A s \in Serving : Asks(s)'
  BY <1>1, OneAsks
<1>3. Warm \in Serving
  BY DEF Serving
<1>4. boot'.at # "loaded" => pc'[Warm] = "idle"
  BY <1>3 DEF ProviderInv
<1>5. QED
  BY <1>1, <1>2, <1>4 DEF ProviderInv, Had, OneInFlight

LEMMA WarmIsLate ==
  ASSUME ProviderInv, NEW r \in Serving, pc[r] # "idle" \/ r # Warm
  PROVE  boot.at # "loaded" => r # Warm
BY DEF ProviderInv

LEMMA RequestArrives ==
  ASSUME Assumptions, ProviderInv, NEW r \in Serving, NEW asked \in P!Job, P!Arrive(r, asked)
  PROVE  ProviderInv'
<1>1. PICK visits : visits = IF asked.kind \in {"list", "refresh"} THEN {i \in Ids : entry[i] # None} ELSE {}
  OBVIOUS
<1>2. /\ pc[r] = "idle" /\ r # Warm /\ job' = [job EXCEPT ![r] = asked] /\ pc' = [pc EXCEPT ![r] = "start"]
      /\ todo' = [todo EXCEPT ![r] = visits]
      /\ UNCHANGED <<file, entry, boot, cache, fetch, held, on, next, served>>
  BY <1>1 DEF P!Arrive, P!store
<1>3. visits \in SUBSET Ids
  BY <1>1
<1>4. pc'[r] = "start" /\ job'[r] = asked
  BY <1>2, ProviderTypes
<1>5. Asks(r)'
  BY <1>4 DEF Asks
<1>6. QED
  BY <1>2, <1>3, <1>5, ProviderTypes, OnlyAsks

LEMMA EditMoves ==
  ASSUME Assumptions, ProviderInv, NEW r \in Serving, P!EditBuilds(r) \/ P!SaveFails(r) \/ P!SaveLands(r)
  PROVE  ProviderInv'
<1>0. /\ pc[r] # "idle" /\ job[r] \in P!Job /\ (pc[r] \in {"save", "swap"} => next[r] \in P!Entries)
      /\ UNCHANGED <<entry, boot, cache, fetch, served, on, job, held, todo>>
  BY DEF P!EditBuilds, P!SaveFails, P!SaveLands, P!store, P!local, ProviderInv, Asks
<1>1. CASE P!EditBuilds(r)
  <2>1. PICK url \in Urls \union {None} : url = IF job[r].kind = "remove" THEN None ELSE job[r].url
    <3>1. job[r].kind \in {"add", "edit", "remove"}
      BY <1>1 DEF P!EditBuilds, P!Edits
    <3>2. job[r].kind # "remove" => job[r].url \in Urls
      BY <1>0, <3>1 DEF P!Job
    <3>3. QED
      BY <3>2
  <2>2. PICK list : list = [entry EXCEPT ![job[r].id] = url]
    OBVIOUS
  <2>3. list \in P!Entries
    BY <2>1, <2>2, ProviderTypes DEF P!Entries
  <2>4. /\ file' = file
        /\ \/ pc' = [pc EXCEPT ![r] = "refused"] /\ next' = next
           \/ pc' = [pc EXCEPT ![r] = "save"] /\ next' = [next EXCEPT ![r] = list]
    BY <1>1, <2>1, <2>2 DEF P!EditBuilds, P!store
  <2>5. /\ pc' \in [Serving -> {"idle", "start", "get", "again", "wait", "woken", "save", "swap",
                                "found", "absent", "done", "refused"}]
        /\ next' \in [Serving -> P!Entries \union {None}]
        /\ pc'[r] = "refused" \/ (pc'[r] = "save" /\ next'[r] = list)
        /\ \A s \in Serving \ {r} : pc'[s] = pc[s] /\ next'[s] = next[s]
    BY <2>3, <2>4, ProviderTypes
  <2>6. Asks(r)'
    BY <1>0, <2>3, <2>5 DEF Asks
  <2>7. QED
    BY <1>0, <2>4, <2>5, <2>6, ProviderTypes, WarmIsLate, OnlyAsks
<1>2. CASE P!SaveFails(r)
  <2>1. pc' = [pc EXCEPT ![r] = "refused"] /\ file' = file /\ next' = next
    BY <1>2 DEF P!SaveFails, P!store, P!local
  <2>2. pc'[r] = "refused"
    BY <2>1, ProviderTypes
  <2>3. Asks(r)'
    BY <1>0, <2>2 DEF Asks
  <2>4. QED
    BY <1>0, <2>1, <2>3, ProviderTypes, WarmIsLate, OnlyAsks
<1>3. CASE P!SaveLands(r)
  <2>1. pc' = [pc EXCEPT ![r] = "swap"] /\ file' = next[r] /\ next' = next /\ next[r] \in P!Entries
    BY <1>0, <1>3 DEF P!SaveLands, P!local
  <2>2. pc'[r] = "swap"
    BY <2>1, ProviderTypes
  <2>3. Asks(r)'
    BY <1>0, <2>1, <2>2 DEF Asks
  <2>4. QED
    BY <1>0, <2>1, <2>3, ProviderTypes, WarmIsLate, OnlyAsks
<1>4. QED
  BY <1>1, <1>2, <1>3

LEMMA EditSwaps ==
  ASSUME Assumptions, ProviderInv, NEW r \in Serving, P!Swap(r)
  PROVE  ProviderInv'
<1>1. /\ pc[r] = "swap" /\ P!SetProviders(next[r]) /\ pc' = [pc EXCEPT ![r] = "done"]
      /\ UNCHANGED <<file, boot, job, held, on, todo, next>>
  BY DEF P!Swap, P!local
<1>2. next[r] \in P!Entries /\ job[r] \in P!Job
  BY <1>1 DEF ProviderInv, Asks
<1>3. /\ entry' \in P!Entries /\ cache' \in [Ids -> P!Cache \union {None}]
      /\ fetch' \in [Fetches -> P!Flight \union {None}] /\ served' \in [Ids -> SUBSET Urls]
      /\ \A i \in Ids : served[i] \subseteq served'[i]
      /\ Had' /\ OneInFlight'
  BY <1>1, <1>2, ProvidersSet
<1>4. P!TypeOK'
  BY <1>1, <1>3, ProviderTypes DEF P!TypeOK, Serving
<1>5. pc'[r] = "done" /\ \A s \in Serving \ {r} : pc'[s] = pc[s]
  BY <1>1, ProviderTypes
<1>6. Asks(r)'
  BY <1>1, <1>2, <1>5 DEF Asks
<1>7. \A s \in Serving : Asks(s)'
  BY <1>1, <1>3, <1>4, <1>5, <1>6, OneAsks
<1>8. boot'.at # "loaded" => pc'[Warm] = "idle"
  <2>1. Warm \in Serving
    BY DEF Serving
  <2>2. QED
    BY <1>1, <1>5, <2>1 DEF ProviderInv
<1>9. QED
  BY <1>3, <1>4, <1>7, <1>8 DEF ProviderInv

(* A request takes the client of the next provider it visits.              *)
LEMMA RequestStarts ==
  ASSUME Assumptions, ProviderInv, NEW r \in Serving, P!Start(r)
  PROVE  ProviderInv'
<1>0. /\ pc[r] = "start" /\ job[r] \in P!Job /\ job[r].kind \notin P!Edits
      /\ UNCHANGED <<file, entry, boot, cache, fetch, on, next, served>>
  BY DEF P!Start, P!store, ProviderInv, Asks
<1>1. CASE \E i \in Ids : P!Visits(r, i) /\ entry[i] # None
  <2>0. PICK i \in Ids, to \in {"again", "get"} :
           /\ P!Visits(r, i) /\ entry[i] # None /\ held' = [held EXCEPT ![r] = entry[i]]
           /\ todo' = [todo EXCEPT ![r] = todo[r] \ {i}]
           /\ job' = [job EXCEPT ![r] = IF job[r].kind = "resolve" THEN job[r]
                                        ELSE [job[r] EXCEPT !.id = i]]
           /\ pc' = [pc EXCEPT ![r] = to]
    <3>1. PICK i \in Ids :
             /\ P!Visits(r, i) /\ entry[i] # None /\ held' = [held EXCEPT ![r] = entry[i]]
             /\ todo' = [todo EXCEPT ![r] = todo[r] \ {i}]
             /\ job' = [job EXCEPT ![r] = IF job[r].kind = "resolve" THEN job[r]
                                          ELSE [job[r] EXCEPT !.id = i]]
             /\ pc' = [pc EXCEPT ![r] = IF job[r].kind = "refresh" THEN "again" ELSE "get"]
      BY <1>1 DEF P!Start
    <3>2. QED
      BY <3>1
  <2>1. PICK asked :
           /\ P!Visits(r, i) /\ entry[i] # None /\ held' = [held EXCEPT ![r] = entry[i]]
           /\ todo' = [todo EXCEPT ![r] = todo[r] \ {i}]
           /\ asked = (IF job[r].kind = "resolve" THEN job[r] ELSE [job[r] EXCEPT !.id = i])
           /\ job' = [job EXCEPT ![r] = asked]
           /\ pc' = [pc EXCEPT ![r] = to]
    BY <2>0
  <2>2. asked \in P!Job /\ asked.id = i
    <3>1. CASE job[r].kind = "resolve"
      BY <1>0, <2>1, <3>1 DEF P!Visits
    <3>2. CASE job[r].kind # "resolve"
      <4>1. job[r] \in [kind : {"list", "refresh"}, id : Ids \union {None}]
        BY <1>0, <3>2 DEF P!Job, P!Edits
      <4>2. [job[r] EXCEPT !.id = i] \in [kind : {"list", "refresh"}, id : Ids \union {None}]
            /\ [job[r] EXCEPT !.id = i].id = i
        BY <4>1
      <4>3. QED
        BY <2>1, <3>2, <4>2 DEF P!Job
    <3>3. QED
      BY <3>1, <3>2
  <2>3. entry[i] \in Urls /\ entry[i] \in served[i]
    BY <2>1, ProviderTypes DEF P!Entries, ProviderInv, Had
  <2>4. PICK url \in Urls : url = entry[i]
    BY <2>3
  <2>5. PICK visits \in SUBSET Ids : visits = todo[r] \ {i}
    BY ProviderTypes
  <2>6. /\ pc' \in [Serving -> {"idle", "start", "get", "again", "wait", "woken", "save", "swap",
                                "found", "absent", "done", "refused"}]
        /\ job' \in [Serving -> P!Job \union {None}] /\ held' \in [Serving -> Urls \union {None}]
        /\ todo' \in [Serving -> SUBSET Ids]
        /\ pc'[r] = to /\ job'[r] = asked /\ held'[r] = url
        /\ \A s \in Serving \ {r} : pc'[s] = pc[s] /\ job'[s] = job[s] /\ held'[s] = held[s]
    BY <2>1, <2>2, <2>4, <2>5, ProviderTypes
  <2>7. Asks(r)'
    BY <1>0, <2>2, <2>3, <2>4, <2>6 DEF Asks
  <2>8. QED
    BY <1>0, <2>6, <2>7, ProviderTypes, WarmIsLate, OnlyAsks
<1>2. CASE ~\E i \in Ids : P!Visits(r, i) /\ entry[i] # None
  <2>1. PICK to \in {"refused", "done"} : pc' = [pc EXCEPT ![r] = to] /\ UNCHANGED <<held, todo, job>>
    <3>1. /\ pc' = [pc EXCEPT ![r] = IF job[r].kind = "resolve" THEN "refused" ELSE "done"]
          /\ UNCHANGED <<held, todo, job>>
      BY <1>2 DEF P!Start
    <3>2. QED
      BY <3>1
  <2>2. /\ pc'[r] = to /\ \A s \in Serving \ {r} : pc'[s] = pc[s]
        /\ pc' \in [Serving -> {"idle", "start", "get", "again", "wait", "woken", "save", "swap",
                                "found", "absent", "done", "refused"}]
    BY <2>1, ProviderTypes
  <2>3. Asks(r)'
    BY <1>0, <2>1, <2>2 DEF Asks
  <2>4. QED
    BY <1>0, <2>1, <2>2, <2>3, ProviderTypes, WarmIsLate, OnlyAsks
<1>3. QED
  BY <1>1, <1>2

(* What a request is told is what the list it was given says.              *)
LEMMA AnswerSays ==
  ASSUME Assumptions, ProviderInv, NEW r \in Serving, NEW models, NEW otherwise \in {"again", "absent"},
         job[r] \in P!Job, job[r].id \in Ids, held[r] \in served[job[r].id], P!Answer(r, models, otherwise),
         \A m \in models : \E url \in served[job[r].id] : m \in Offers[url],
         UNCHANGED <<job, held, served, next>>
  PROVE  /\ pc' \in [Serving -> {"idle", "start", "get", "again", "wait", "woken", "save", "swap",
                                 "found", "absent", "done", "refused"}]
         /\ \A s \in Serving \ {r} : pc'[s] = pc[s]
         /\ Asks(r)'
<1>1. PICK to \in {"start", "found", "again", "absent"} :
         pc' = [pc EXCEPT ![r] = to] /\ (to = "found" => job[r].model \in models)
  <2>1. PICK to : to = IF job[r].kind # "resolve" THEN "start"
                       ELSE IF job[r].model \in models THEN "found" ELSE otherwise
    OBVIOUS
  <2>2. to \in {"start", "found", "again", "absent"} /\ (to = "found" => job[r].model \in models)
    BY <2>1
  <2>3. QED
    BY <2>1, <2>2 DEF P!Answer
<1>2. /\ pc' \in [Serving -> {"idle", "start", "get", "again", "wait", "woken", "save", "swap",
                              "found", "absent", "done", "refused"}]
      /\ pc'[r] = to /\ \A s \in Serving \ {r} : pc'[s] = pc[s]
  BY <1>1, ProviderTypes
<1>3. Asks(r)'
  BY <1>1, <1>2 DEF Asks
<1>4. QED
  BY <1>2, <1>3

(* A request looks into the cache, and may begin a discovery.              *)
LEMMA RequestLooks ==
  ASSUME Assumptions, ProviderInv, NEW r \in Serving, P!Get(r) \/ P!Again(r) \/ P!Woken(r)
  PROVE  ProviderInv'
<1> DEFINE i == job[r].id
<1>0. /\ pc[r] \in {"get", "again", "wait", "woken"}
      /\ UNCHANGED <<file, entry, boot, job, held, todo, next, served>>
  BY DEF P!Get, P!Again, P!Woken, P!store
<1>1. job[r] \in P!Job /\ i \in Ids /\ held[r] \in served[i]
  BY <1>0 DEF ProviderInv, Asks
<1>2. /\ pc' \in [Serving -> {"idle", "start", "get", "again", "wait", "woken", "save", "swap",
                              "found", "absent", "done", "refused"}]
      /\ \A s \in Serving \ {r} : pc'[s] = pc[s]
      /\ Asks(r)'
      /\ cache' \in [Ids -> P!Cache \union {None}] /\ fetch' \in [Fetches -> P!Flight \union {None}]
      /\ on' \in [Serving -> Fetches \union {None}]
      /\ Had' /\ OneInFlight'
  <2>1. CASE P!Get(r) /\ P!Cached(i).ever
    <3>1. P!Revalidate(i, held[r]) /\ P!Answer(r, P!Cached(i).models, "again") /\ on' = on
      BY <2>1 DEF P!Get
    <3>2. /\ pc' \in [Serving -> {"idle", "start", "get", "again", "wait", "woken", "save", "swap",
                                  "found", "absent", "done", "refused"}]
          /\ \A s \in Serving \ {r} : pc'[s] = pc[s]
          /\ Asks(r)'
      BY <1>0, <1>1, <3>1, CachedHas, AnswerSays
    <3>3. CASE ~P!Cached(i).fresh /\ P!Cached(i).flight = None
      <4>1. PICK f \in Fetches : P!Started(i, held[r], f)
        BY <3>1, <3>3 DEF P!Revalidate
      <4>2. QED
        BY <1>0, <1>1, <3>1, <3>2, <3>3, <4>1, DiscoveryBegins, ProviderTypes
    <3>4. CASE ~(~P!Cached(i).fresh /\ P!Cached(i).flight = None)
      <4>1. UNCHANGED <<cache, fetch>>
        BY <3>1, <3>4 DEF P!Revalidate
      <4>2. Had' /\ OneInFlight'
        BY <1>0, <4>1 DEF ProviderInv, Had, OneInFlight
      <4>3. QED
        BY <3>1, <3>2, <4>1, <4>2, ProviderTypes
    <3>5. QED
      BY <3>3, <3>4
  <2>2. CASE (P!Get(r) /\ ~P!Cached(i).ever) \/ P!Again(r)
    <3>1. PICK to \in {"wait", "woken"} : P!Refresh(r, i, held[r]) /\ pc' = [pc EXCEPT ![r] = to]
      BY <2>2 DEF P!Get, P!Again
    <3>2. /\ pc' \in [Serving -> {"idle", "start", "get", "again", "wait", "woken", "save", "swap",
                                  "found", "absent", "done", "refused"}]
          /\ pc'[r] = to /\ \A s \in Serving \ {r} : pc'[s] = pc[s]
      BY <3>1, ProviderTypes
    <3>3. Asks(r)'
      BY <1>0, <1>1, <3>2 DEF Asks
    <3>4. QED
      BY <1>0, <1>1, <3>1, <3>2, <3>3, RequestRefreshes
  <2>3. CASE P!Woken(r)
    <3>1. /\ on' = [on EXCEPT ![r] = None] /\ cache' = [cache EXCEPT ![i] = P!Cached(i)] /\ fetch' = fetch
          /\ P!Answer(r, P!Cached(i).models, IF pc[r] = "wait" THEN "again" ELSE "absent")
      BY <2>3 DEF P!Woken
    <3>2. /\ pc' \in [Serving -> {"idle", "start", "get", "again", "wait", "woken", "save", "swap",
                                  "found", "absent", "done", "refused"}]
          /\ \A s \in Serving \ {r} : pc'[s] = pc[s]
          /\ Asks(r)'
      BY <1>0, <1>1, <3>1, CachedHas, AnswerSays
    <3>3. PICK c : c = P!Cached(i)
      OBVIOUS
    <3>4. /\ c \in P!Cache /\ c # None /\ \A m \in c.models : \E url \in served[i] : m \in Offers[url]
          /\ cache[i] # None => c = cache[i]
      BY <1>1, <3>3, CachedHas, NoneOfThese DEF P!Cached
    <3>5. /\ cache' \in [Ids -> P!Cache \union {None}] /\ cache'[i] = c
          /\ \A j \in Ids : j # i => cache'[j] = cache[j]
      BY <1>1, <3>1, <3>3, <3>4, ProviderTypes
    <3>6. Had'
      BY <1>0, <3>1, <3>4, <3>5 DEF ProviderInv, Had
    <3>7. OneInFlight'
      <4>1. \A f \in Fetches : fetch[f] # None => fetch[f].id \in Ids
        BY ProviderTypes DEF P!Flight
      <4>2. QED
        BY <3>1, <3>4, <3>5, <4>1 DEF ProviderInv, OneInFlight
    <3>8. on' \in [Serving -> Fetches \union {None}]
      BY <3>1, ProviderTypes
    <3>9. QED
      BY <3>1, <3>2, <3>5, <3>6, <3>7, <3>8, ProviderTypes
  <2>4. QED
    BY <2>1, <2>2, <2>3
<1>3. P!TypeOK'
  BY <1>0, <1>2, ProviderTypes DEF P!TypeOK, Serving
<1>4. \A s \in Serving : Asks(s)'
  BY <1>0, <1>2, <1>3, OneAsks
<1>5. boot'.at # "loaded" => pc'[Warm] = "idle"
  <2>1. Warm \in Serving
    BY DEF Serving
  <2>2. boot.at # "loaded" => r # Warm
    BY <1>0, WarmIsLate
  <2>3. QED
    BY <1>0, <1>2, <2>1, <2>2 DEF ProviderInv
<1>6. QED
  BY <1>2, <1>3, <1>4, <1>5 DEF ProviderInv

(* A discovery ends, and if it is not forgotten its cache has what it      *)
(* brought and knows of no other.                                          *)
LEMMA DiscoveryLands ==
  ASSUME Assumptions, ProviderInv, NEW f \in Fetches, fetch[f] # None, NEW i \in Ids, i = fetch[f].id,
         NEW c \in P!Cache, c.flight = None, P!Landed(f, i, c),
         fetch[f].known => \A m \in c.models : \E url \in served[i] : m \in Offers[url],
         UNCHANGED <<file, entry, boot, pc, job, held, on, todo, next, served>>
  PROVE  ProviderInv'
<1>1. fetch' = [fetch EXCEPT ![f] = None] /\ cache' = [cache EXCEPT ![i] = IF fetch[f].known THEN c ELSE cache[i]]
  BY DEF P!Landed
<1>2. /\ fetch'[f] = None /\ \A g \in Fetches : g # f => fetch'[g] = fetch[g]
      /\ fetch' \in [Fetches -> P!Flight \union {None}]
      /\ cache'[i] = (IF fetch[f].known THEN c ELSE cache[i])
      /\ \A j \in Ids : j # i => cache'[j] = cache[j]
      /\ cache' \in [Ids -> P!Cache \union {None}]
  BY <1>1, ProviderTypes
<1>3. P!TypeOK'
  BY <1>2, ProviderTypes DEF P!TypeOK, Serving
<1>4. Had'
  BY <1>2 DEF ProviderInv, Had
<1>5. OneInFlight'
  <2>1. SUFFICES ASSUME NEW g \in Fetches, g # f, fetch[g] # None, fetch[g].known
                 PROVE  cache'[fetch[g].id] # None /\ cache'[fetch[g].id].flight = g
    BY <1>2 DEF OneInFlight
  <2>2. fetch[g].id \in Ids /\ cache[fetch[g].id] # None /\ cache[fetch[g].id].flight = g
    BY <2>1, ProviderTypes DEF P!Flight, ProviderInv, OneInFlight
  <2>3. fetch[f].known => fetch[g].id # i
    BY <2>1, <2>2 DEF ProviderInv, OneInFlight
  <2>4. QED
    BY <1>2, <2>2, <2>3
<1>6. QED
  BY <1>3, <1>4, <1>5 DEF ProviderInv, Asks

LEMMA ProviderDiscovers ==
  ASSUME Assumptions, ProviderInv, NEW f \in Fetches, P!Discovery(f)
  PROVE  ProviderInv'
<1>0. /\ fetch[f] # None /\ UNCHANGED <<file, entry, boot, pc, job, held, on, todo, next, served>>
  BY DEF P!Discovery, P!FetchSucceeds, P!FetchFails, P!store, P!local
<1>1. fetch[f] \in P!Flight
  BY <1>0, ProviderTypes
<1>2. PICK i \in Ids : i = fetch[f].id
  BY <1>1 DEF P!Flight
<1>3. CASE P!FetchSucceeds(f)
  <2>1. fetch[f].url \in Urls /\ fetch[f].url \in served[i]
    BY <1>0, <1>1, <1>2 DEF P!Flight, ProviderInv, Had
  <2>2. PICK url \in Urls : url = fetch[f].url
    BY <2>1
  <2>3. PICK c : c = [models |-> Offers[url], ever |-> TRUE, stale |-> FALSE, fresh |-> TRUE, flight |-> None]
    OBVIOUS
  <2>4. c \in P!Cache /\ c.flight = None /\ c.models = Offers[url]
    BY <2>3, NoneOfThese DEF P!Cache
  <2>5. P!Landed(f, i, c)
    BY <1>2, <1>3, <2>2, <2>3 DEF P!FetchSucceeds
  <2>6. \A m \in c.models : \E x \in served[i] : m \in Offers[x]
    BY <2>1, <2>2, <2>4
  <2>7. QED
    BY <1>0, <1>2, <2>4, <2>5, <2>6, DiscoveryLands
<1>4. CASE P!FetchFails(f)
  <2>1. PICK c : c = [P!Cached(i) EXCEPT !.stale = TRUE, !.flight = None]
    OBVIOUS
  <2>2. c \in P!Cache /\ c.flight = None /\ c.models = P!Cached(i).models
    BY <2>1, CachedHas DEF P!Cache
  <2>3. P!Landed(f, i, c)
    BY <1>2, <1>4, <2>1 DEF P!FetchFails
  <2>4. \A m \in c.models : \E x \in served[i] : m \in Offers[x]
    BY <2>2, CachedHas
  <2>5. QED
    BY <1>0, <1>2, <2>2, <2>3, <2>4, DiscoveryLands
<1>5. QED
  BY <1>3, <1>4 DEF P!Discovery

LEMMA ProviderExpires ==
  ASSUME Assumptions, ProviderInv, NEW i \in Ids, P!Expire(i)
  PROVE  ProviderInv'
<1>1. PICK c : c = [cache[i] EXCEPT !.fresh = FALSE]
  OBVIOUS
<1>2. /\ cache[i] # None /\ cache' = [cache EXCEPT ![i] = c]
      /\ UNCHANGED <<file, entry, boot, fetch, pc, job, held, on, todo, next, served>>
  BY <1>1 DEF P!Expire, P!store, P!local
<1>3. cache[i] \in P!Cache
  BY <1>2, ProviderTypes
<1>4. c \in P!Cache /\ c # None /\ c.models = cache[i].models /\ c.flight = cache[i].flight
  BY <1>1, <1>3, NoneOfThese DEF P!Cache
<1>5. /\ cache'[i] = c /\ \A j \in Ids : j # i => cache'[j] = cache[j]
      /\ cache' \in [Ids -> P!Cache \union {None}]
  BY <1>2, <1>4, ProviderTypes
<1>6. P!TypeOK'
  BY <1>2, <1>5, ProviderTypes DEF P!TypeOK, Serving
<1>7. Had'
  BY <1>2, <1>4, <1>5 DEF ProviderInv, Had
<1>8. OneInFlight'
  <2>1. \A f \in Fetches : fetch[f] # None => fetch[f].id \in Ids
    BY ProviderTypes DEF P!Flight
  <2>2. QED
    BY <1>2, <1>4, <1>5, <2>1 DEF ProviderInv, OneInFlight
<1>9. QED
  BY <1>2, <1>6, <1>7, <1>8 DEF ProviderInv, Asks

LEMMA ProviderStay ==
  ASSUME ProviderInv, UNCHANGED providerVars
  PROVE  ProviderInv'
<1>1. UNCHANGED <<file, entry, boot, cache, fetch, pc, job, held, on, todo, next, served>>
  BY DEF providerVars
<1>2. P!TypeOK'
  BY <1>1 DEF ProviderInv, P!TypeOK
<1>3. QED
  BY <1>1, <1>2 DEF ProviderInv, Asks, Had, OneInFlight

LEMMA ProviderStep ==
  ASSUME Assumptions, ProviderInv, ProvidersNext
  PROVE  ProviderInv'
<1>1. CASE P!LoadReads \/ P!LoadLands
  BY <1>1, ProviderLoads
<1>2. CASE \E r \in Serving : P!Step(r) \/ P!SaveFails(r)
  <2>1. PICK r \in Serving : P!Step(r) \/ P!SaveFails(r)
    BY <1>2
  <2>2. QED
    BY <2>1, EditMoves, EditSwaps, RequestStarts, RequestLooks DEF P!Step
<1>3. CASE \E r \in Serving, asked \in Reads \union Edits : P!Arrive(r, asked)
  <2>1. Reads \union Edits \subseteq P!Job
    BY DEF Reads, Edits, P!Job, Assumptions
  <2>2. QED
    BY <1>3, <2>1, RequestArrives
<1>4. CASE \E d \in Fetches : P!Discovery(d)
  BY <1>4, ProviderDiscovers
<1>5. CASE \E i \in Ids : P!Expire(i)
  BY <1>5, ProviderExpires
<1>6. QED
  BY <1>1, <1>2, <1>3, <1>4, <1>5 DEF ProvidersNext, Serving

-----------------------------------------------------------------------------
(* All of it.                                                              *)

(* Each part keeps its own state as it is in the behaviours of the others. *)
IInv == ProviderInv /\ FormInv /\ ModelInv /\ SettingsInv

(* The inductive invariant of what an administrator sets: no two requests  *)
(* of one form are under way, one save is, and what is remembered of a     *)
(* provider is of an endpoint it has had.                                  *)
THEOREM Administered == Spec => []IInv
<1>0. Assumptions
  BY Assumptions
<1>1. Init => IInv
  BY <1>0, ProviderBegin, FormBegin, ModelBegin, SettingsBegin DEF IInv
<1>2. IInv /\ [Next]_vars => IInv'
  <2>1. SUFFICES ASSUME IInv, [Next]_vars
                 PROVE  IInv'
    OBVIOUS
  <2>2. ProviderInv'
    <3>1. ProvidersNext \/ UNCHANGED providerVars
      BY <2>1 DEF Next, vars
    <3>2. QED
      BY <1>0, <2>1, <3>1, ProviderStep, ProviderStay DEF IInv
  <2>3. FormInv'
    <3>1. F!Next \/ UNCHANGED formVars
      BY <2>1 DEF Next, vars
    <3>2. QED
      BY <1>0, <2>1, <3>1, FormStep, FormStay DEF IInv
  <2>4. ModelInv'
    <3>1. D!Next \/ UNCHANGED modelVars
      BY <2>1 DEF Next, vars
    <3>2. QED
      BY <1>0, <2>1, <3>1, ModelStep, ModelStay DEF IInv
  <2>5. SettingsInv'
    <3>1. SettingsNext \/ UNCHANGED settingsVars
      BY <2>1 DEF Next, vars
    <3>2. UNCHANGED settingsVars => UNCHANGED <<saved, current, up, at, body, document>>
      BY DEF settingsVars
    <3>3. QED
      BY <1>0, <2>1, <3>1, <3>2, SettingsStep, SettingsStay DEF IInv
  <2>6. QED
    BY <2>2, <2>3, <2>4, <2>5 DEF IInv
<1>3. QED
  BY <1>1, <1>2, PTL DEF Spec, vars

(* "A model valid on provider A is rejected against provider B" (INV-18),  *)
(* and "Several callers hitting a cold provider must not each fetch"       *)
(* (catalog.ts:73): for any providers, requests and discoveries, and       *)
(* whatever edits come in between.                                         *)
THEOREM AcceptsWhatWasOffered == Spec => []AcceptedWasOffered
<1>0. Assumptions
  BY Assumptions
<1>1. IInv => AcceptedWasOffered
  BY <1>0, ProviderSays DEF IInv, AcceptedWasOffered
<1>2. QED
  BY <1>1, Administered, PTL

(* Providers are as they were entered last, a key that was left blank as   *)
(* it was (buildEntry(), routes/admin.ts): for any providers, any number   *)
(* of requests of one who waits for each, until the first restart.         *)
THEOREM EntersWhatWasTyped == Spec => []StoredAsEntered
<1>0. Assumptions
  BY Assumptions
<1>1. IInv => StoredAsEntered
  BY <1>0, FormSays DEF IInv, StoredAsEntered
<1>2. QED
  BY <1>1, Administered, PTL

(* What is stored of a model is what was asked for, and what its prompt's  *)
(* box says (SamplerPanel.tsx): for any models, numbers and prompts, any   *)
(* number of requests of one who waits for each.                           *)
THEOREM StoresWhatWasMeant == Spec => []StoredAsMeant
<1>0. Assumptions
  BY Assumptions
<1>1. IInv => StoredAsMeant
  BY <1>0, ModelSays DEF IInv, StoredAsMeant
<1>2. QED
  BY <1>1, Administered, PTL

(* When no save is in flight, the settings in force are those a restart    *)
(* would read (SettingsStore.save(), load()): for any requests and bodies, *)
(* over failing writes, crashes and edits by hand, and saves that do not   *)
(* overlap.                                                                *)
THEOREM RestartChangesNothing == Spec => []FileIsInForce
<1>1. IInv => FileIsInForce
  BY DEF IInv, SettingsInv, FileIsInForce
<1>2. QED
  BY <1>1, Administered, PTL

=============================================================================
