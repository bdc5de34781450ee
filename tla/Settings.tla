------------------------------ MODULE Settings ------------------------------
(***************************************************************************)
(* The settings of an instance: the store of server/admin/settings.ts and  *)
(* the three requests that save to it, the settings form and the sampler   *)
(* form of routes/admin.ts and the first registration (app.ts), which      *)
(* closes the door behind the founder.                                     *)
(*                                                                         *)
(* A request builds the whole next document from the one in memory, writes *)
(* it, and only after the write gives it to the rest of the server.  A     *)
(* sampler is the set of the knobs it sets: their values are not told      *)
(* apart.  The attachment limits have no request and are written by hand.  *)
(***************************************************************************)
EXTENDS FiniteSets

CONSTANTS Requests, Pairs, Knobs, None,
          Absent,   \* a field the body of a request leaves out
          Broken,   \* a settings.json that does not parse
          Fallback  \* REGISTRATION_MODE of the environment

FallbackAssumption == Fallback \in {"open", "closed"}

VARIABLES file,     \* _system/settings.json
          current,  \* SettingsStore.#current
          up,
          pc, body, \* each request
          next      \* the document it saves

vars == <<file, current, up, pc, body, next>>

Mode == {"open", "closed"}
Doc == [registration : Mode \union {None}, model : Pairs \union {None}, hidden : SUBSET Pairs,
        samplers : [Pairs -> SUBSET Knobs], limits : BOOLEAN]
Nothing == [registration |-> None, model |-> None, hidden |-> {},
            samplers |-> [p \in Pairs |-> {}], limits |-> FALSE]

Form == [kind : {"settings"}, registration : Mode \union {Absent},
         model : Pairs \union {None, Absent}, hidden : (SUBSET Pairs) \union {Absent}]
Sampler == [kind : {"sampler"}, pair : Pairs, set : SUBSET Knobs, clear : SUBSET Knobs]
Founder == [kind : {"founder"}]
Body == Form \union Sampler \union Founder

NoneAssumption ==
    /\ None \notin Pairs \union Doc \union Body /\ Absent \notin Pairs \union {None}
    /\ Broken \notin Doc

TypeOK ==
    /\ file \in Doc \union {None, Broken}
    /\ current \in Doc
    /\ up \in BOOLEAN
    /\ pc \in [Requests -> {"idle", "resolve", "build", "write", "apply", "done", "failed"}]
    /\ body \in [Requests -> Body \union {None}]
    /\ next \in [Requests -> Doc \union {None}]

(* load(): a file that is absent or does not parse says nothing.           *)
Load(f) == IF f \in {None, Broken} THEN Nothing ELSE f

Init ==
    /\ file \in Doc \union {None, Broken}
    /\ current = Load(file)
    /\ up = TRUE
    /\ pc = [r \in Requests |-> "idle"]
    /\ body = [r \in Requests |-> None]
    /\ next = [r \in Requests |-> None]
-----------------------------------------------------------------------------
(* The effective mode, asked for by every registration.                    *)
Registration == IF current.registration = None THEN Fallback ELSE current.registration

Arrive(r, b) ==
    /\ up /\ pc[r] = "idle"
    /\ b.kind = "founder" => Registration = "open"
    /\ body' = [body EXCEPT ![r] = b]
    /\ pc' = [pc EXCEPT ![r] = IF b.kind = "sampler" THEN "resolve" ELSE "build"]
    /\ UNCHANGED <<file, current, up, next>>

(* The sampler form looks its pair up first, and may not find it.          *)
Resolve(r) ==
    /\ pc[r] = "resolve"
    /\ \E answer \in {"build", "failed"} : pc' = [pc EXCEPT ![r] = answer]
    /\ UNCHANGED <<file, current, up, body, next>>

(* The settings form names three fields, and carries over those three.     *)
Patched(b) ==
    [Nothing EXCEPT
        !.registration = IF b.registration = Absent THEN current.registration ELSE b.registration,
        !.model = IF b.model = Absent THEN current.model ELSE b.model,
        !.hidden = IF b.hidden = Absent THEN current.hidden ELSE b.hidden]

(* The sampler form merges the knobs of one pair; null takes one out.      *)
Sampled(b) ==
    [current EXCEPT !.samplers[b.pair] = (@ \ b.clear) \union b.set, !.limits = FALSE]

Closed == [current EXCEPT !.registration = "closed"]

Built(b) ==
    CASE b.kind = "settings" -> Patched(b)
      [] b.kind = "sampler" -> Sampled(b)
      [] b.kind = "founder" -> Closed

Build(r) ==
    /\ pc[r] = "build"
    /\ next' = [next EXCEPT ![r] = Built(body[r])]
    /\ pc' = [pc EXCEPT ![r] = "write"]
    /\ UNCHANGED <<file, current, up, body>>

SaveLands(r) ==
    /\ pc[r] = "write"
    /\ file' = next[r]
    /\ pc' = [pc EXCEPT ![r] = "apply"]
    /\ UNCHANGED <<current, up, body, next>>

(* A slip: the failure is reported after the document is in force.         *)
SaveFailsApplied(r) ==
    /\ pc[r] = "write"
    /\ current' = next[r]
    /\ pc' = [pc EXCEPT ![r] = "failed"]
    /\ UNCHANGED <<file, up, body, next>>

SaveFails(r) ==
    /\ pc[r] = "write"
    /\ pc' = [pc EXCEPT ![r] = "failed"]
    /\ UNCHANGED <<file, current, up, body, next>>

Apply(r) ==
    /\ pc[r] = "apply"
    /\ current' = next[r]
    /\ pc' = [pc EXCEPT ![r] = "done"]
    /\ UNCHANGED <<file, up, body, next>>

-----------------------------------------------------------------------------
(* The process dies; whoever was waiting gets no answer.  Between two runs *)
(* the file may be edited by hand.                                         *)
Crash ==
    /\ up
    /\ up' = FALSE
    /\ current' = Nothing
    /\ pc' = [r \in Requests |-> IF pc[r] \in {"idle", "done"} THEN pc[r] ELSE "failed"]
    /\ UNCHANGED <<file, body, next>>

Boot ==
    /\ ~up
    /\ up' = TRUE
    /\ current' = Load(file)
    /\ UNCHANGED <<file, pc, body, next>>

ByHand(f) ==
    /\ ~up
    /\ file' = f
    /\ UNCHANGED <<current, up, pc, body, next>>

Step(r) == Resolve(r) \/ Build(r) \/ SaveLands(r) \/ Apply(r)
-----------------------------------------------------------------------------
Saving(r) == pc[r] \in {"write", "apply"}
Quiet == \A r \in Requests : ~Saving(r)

(* When no save is in flight, the settings in force are those a restart    *)
(* would read: a save that failed left both alone, one that was answered   *)
(* is in both.  (SettingsStore.save(), load().)                            *)
FileIsInForce == (up /\ Quiet) => current = Load(file)

=============================================================================
