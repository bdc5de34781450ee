----------------------------- MODULE Providers -----------------------------
(***************************************************************************)
(* The provider list of server/provider/registry.ts and routes/admin.ts,   *)
(* the hub that serves it (hub.ts) and the cache of what each provider     *)
(* offers (catalog.ts).                                                    *)
(*                                                                         *)
(* A request runs from one await to the next.  The client of a provider is *)
(* made from its entry and kept by whoever looked it up, so it is the      *)
(* endpoint.  What an endpoint offers does not change; it may not answer.  *)
(* A fetch holds the cache object it was started for: forgetting a         *)
(* provider leaves its fetch with an object nobody else has.               *)
(***************************************************************************)
EXTENDS Integers, FiniteSets

CONSTANTS Ids, Urls, Models, Requests, Fetches, None,
          Warm,    \* the request that warms the cache after the load
          Offers,  \* the models an endpoint serves
          Barred   \* the endpoints the host policy refuses

OffersAssumption == Offers \in [Urls -> SUBSET Models]
BarredAssumption == Barred \subseteq Urls
WarmAssumption == Warm \in Requests

VARIABLES file,     \* providers.json: each id's endpoint, or None
          entry,    \* ProviderHub.#entries and #clients
          boot,     \* the load that runs beside the listener: what it read
          cache,    \* ModelCatalog.#entries
          fetch,    \* discoveries in flight
          pc, job,  \* each request
          held,     \* the endpoint of the client a request holds
          on,       \* the discovery it waits for
          todo,     \* the providers a listing has still to visit
          next,     \* the list an edit is about to write
          served    \* history: the endpoints each provider has had

store == <<file, entry, boot>>
local == <<job, held, on, todo, next>>
vars == <<store, cache, fetch, pc, local, served>>

Entries == [Ids -> Urls \union {None}]
Cache == [models : SUBSET Models, ever : BOOLEAN, stale : BOOLEAN, fresh : BOOLEAN,
          flight : Fetches \union {None}]
Flight == [id : Ids, url : Urls, known : BOOLEAN]
Job ==
    [kind : {"resolve"}, id : Ids, model : Models]
    \union [kind : {"list", "refresh"}, id : Ids \union {None}]
    \union [kind : {"add", "edit"}, id : Ids, url : Urls]
    \union [kind : {"remove"}, id : Ids]

NoneAssumption ==
    /\ None \notin Ids \union Urls \union Fetches \union Requests
    /\ None \notin Cache \union Flight \union Job

TypeOK ==
    /\ file \in Entries /\ entry \in Entries
    /\ boot \in [at : {"reading", "read", "loaded"}, got : Entries]
    /\ cache \in [Ids -> Cache \union {None}]
    /\ fetch \in [Fetches -> Flight \union {None}]
    /\ pc \in [Requests -> {"idle", "start", "get", "again", "wait", "woken", "save", "swap",
                            "found", "absent", "done", "refused"}]
    /\ job \in [Requests -> Job \union {None}]
    /\ held \in [Requests -> Urls \union {None}]
    /\ on \in [Requests -> Fetches \union {None}]
    /\ todo \in [Requests -> SUBSET Ids]
    /\ next \in [Requests -> Entries \union {None}]
    /\ served \in [Ids -> SUBSET Urls]

Init ==
    /\ file \in Entries
    /\ entry = [i \in Ids |-> None]
    /\ boot = [at |-> "reading", got |-> entry]
    /\ cache = [i \in Ids |-> None]
    /\ fetch = [f \in Fetches |-> None]
    /\ pc = [r \in Requests |-> "idle"]
    /\ job = [r \in Requests |-> None]
    /\ held = [r \in Requests |-> None]
    /\ on = [r \in Requests |-> None]
    /\ todo = [r \in Requests |-> {}]
    /\ next = [r \in Requests |-> None]
    /\ served = [i \in Ids |-> {}]
-----------------------------------------------------------------------------
(* setProviders(): a provider that is gone takes its cache with it; one    *)
(* that stays keeps it, whatever endpoint it has now.                      *)
Empty == [models |-> {}, ever |-> FALSE, stale |-> FALSE, fresh |-> FALSE, flight |-> None]
Cached(i) == IF cache[i] = None THEN Empty ELSE cache[i]

SetProviders(es) ==
    LET gone == {i \in Ids : entry[i] # None /\ es[i] = None}
    IN  /\ entry' = es
        /\ cache' = [i \in Ids |-> IF i \in gone THEN None ELSE cache[i]]
        /\ fetch' = [f \in Fetches |->
               IF fetch[f] # None /\ fetch[f].id \in gone
               THEN [fetch[f] EXCEPT !.known = FALSE] ELSE fetch[f]]
        /\ served' = [i \in Ids |-> served[i] \union ({es[i]} \ {None})]

(* registry.load(): the file as it is, without the entries that the host   *)
(* policy refuses, and some time later the hub is given them and warmed.   *)
LoadReads ==
    /\ boot.at = "reading"
    /\ boot' = [at |-> "read", got |-> [i \in Ids |-> IF file[i] \in Barred THEN None ELSE file[i]]]
    /\ UNCHANGED <<file, entry, cache, fetch, pc, local, served>>

LoadLands ==
    /\ boot.at = "read"
    /\ SetProviders(boot.got)
    /\ boot' = [boot EXCEPT !.at = "loaded"]
    /\ job' = [job EXCEPT ![Warm] = [kind |-> "refresh", id |-> None]]
    /\ pc' = [pc EXCEPT ![Warm] = "start"]
    /\ todo' = [todo EXCEPT ![Warm] = {i \in Ids : boot.got[i] # None}]
    /\ UNCHANGED <<file, held, on, next>>

-----------------------------------------------------------------------------
(* An administrator's edit: the list is built from what the hub has now,   *)
(* written, and then given to the hub.                                     *)
Edits == {"add", "edit", "remove"}
Arrive(r, asked) ==
    /\ pc[r] = "idle" /\ r # Warm
    /\ job' = [job EXCEPT ![r] = asked]
    /\ pc' = [pc EXCEPT ![r] = "start"]
    /\ todo' = [todo EXCEPT ![r] = IF asked.kind \in {"list", "refresh"}
                                   THEN {i \in Ids : entry[i] # None} ELSE {}]
    /\ UNCHANGED <<store, cache, fetch, held, on, next, served>>

EditBuilds(r) ==
    /\ pc[r] = "start" /\ job[r].kind \in Edits
    /\ IF \/ (job[r].kind = "add") = (entry[job[r].id] # None)
          \/ job[r].kind # "remove" /\ job[r].url \in Barred
       THEN pc' = [pc EXCEPT ![r] = "refused"] /\ UNCHANGED next
       ELSE /\ pc' = [pc EXCEPT ![r] = "save"]
            /\ next' = [next EXCEPT ![r] = [entry EXCEPT ![job[r].id] =
                            IF job[r].kind = "remove" THEN None ELSE job[r].url]]
    /\ UNCHANGED <<store, cache, fetch, job, held, on, todo, served>>

SaveFails(r) ==
    /\ pc[r] = "save"
    /\ pc' = [pc EXCEPT ![r] = "refused"]
    /\ UNCHANGED <<store, cache, fetch, local, served>>

SaveLands(r) ==
    /\ pc[r] = "save"
    /\ file' = next[r]
    /\ pc' = [pc EXCEPT ![r] = "swap"]
    /\ UNCHANGED <<entry, boot, cache, fetch, local, served>>

Swap(r) ==
    /\ pc[r] = "swap"
    /\ SetProviders(next[r])
    /\ pc' = [pc EXCEPT ![r] = "done"]
    /\ UNCHANGED <<file, boot, local>>

-----------------------------------------------------------------------------
(* ModelCatalog.refresh(): join the discovery that is in flight for this   *)
(* cache object, or start one.                                             *)
Free(f) == fetch[f] = None /\ \A q \in Requests : on[q] # f

Started(i, url, f) ==
    /\ Free(f)
    /\ fetch' = [fetch EXCEPT ![f] = [id |-> i, url |-> url, known |-> TRUE]]
    /\ cache' = [cache EXCEPT ![i] = [Cached(i) EXCEPT !.flight = f]]

Refresh(r, i, url) ==
    \/ /\ Cached(i).flight # None
       /\ on' = [on EXCEPT ![r] = Cached(i).flight]
       /\ UNCHANGED <<cache, fetch>>
    \/ /\ Cached(i).flight = None
       /\ \E f \in Fetches :
              /\ Started(i, url, f)
              /\ on' = [on EXCEPT ![r] = f]

(* An expired list is served now and discovered again behind.              *)
Revalidate(i, url) ==
    IF ~Cached(i).fresh /\ Cached(i).flight = None
    THEN \E f \in Fetches : Started(i, url, f)
    ELSE UNCHANGED <<cache, fetch>>

(* Which provider a request is asking about, with the client it took; a    *)
(* listing takes the next one that is still configured.                    *)
Visits(r, i) ==
    IF job[r].kind = "resolve" THEN i = job[r].id ELSE i \in todo[r]

Start(r) ==
    /\ pc[r] = "start" /\ job[r].kind \notin Edits
    /\ \/ \E i \in Ids :
              /\ Visits(r, i) /\ entry[i] # None
              /\ held' = [held EXCEPT ![r] = entry[i]]
              /\ todo' = [todo EXCEPT ![r] = @ \ {i}]
              /\ job' = [job EXCEPT ![r] = IF job[r].kind = "resolve" THEN @
                                           ELSE [@ EXCEPT !.id = i]]
              /\ pc' = [pc EXCEPT ![r] = IF job[r].kind = "refresh" THEN "again" ELSE "get"]
       \/ /\ \A i \in Ids : Visits(r, i) => entry[i] = None
          /\ pc' = [pc EXCEPT ![r] = IF job[r].kind = "resolve" THEN "refused" ELSE "done"]
          /\ UNCHANGED <<held, todo, job>>
    /\ UNCHANGED <<store, cache, fetch, on, next, served>>

(* What a request does with the list it was given.                         *)
Answer(r, models, otherwise) ==
    pc' = [pc EXCEPT ![r] = IF job[r].kind # "resolve" THEN "start"
                            ELSE IF job[r].model \in models THEN "found" ELSE otherwise]

GetFromAny(r) ==
    /\ pc[r] = "get"
    /\ LET i == job[r].id
       IN  IF Cached(i).ever
           THEN /\ Revalidate(i, held[r])
                /\ Answer(r, UNION {Cached(j).models : j \in Ids}, "again")
                /\ UNCHANGED on
           ELSE /\ Refresh(r, i, held[r])
                /\ pc' = [pc EXCEPT ![r] = "wait"]
    /\ UNCHANGED <<store, job, held, todo, next, served>>

Get(r) ==
    /\ pc[r] = "get"
    /\ LET i == job[r].id
       IN  IF Cached(i).ever
           THEN /\ Revalidate(i, held[r])
                /\ Answer(r, Cached(i).models, "again")
                /\ UNCHANGED on
           ELSE /\ Refresh(r, i, held[r])
                /\ pc' = [pc EXCEPT ![r] = "wait"]
    /\ UNCHANGED <<store, job, held, todo, next, served>>

(* A second look after a miss, and the forced rediscovery.                 *)
Again(r) ==
    /\ pc[r] = "again"
    /\ Refresh(r, job[r].id, held[r])
    /\ pc' = [pc EXCEPT ![r] = "woken"]
    /\ UNCHANGED <<store, job, held, todo, next, served>>

Woken(r) ==
    /\ pc[r] \in {"wait", "woken"}
    /\ fetch[on[r]] = None
    /\ on' = [on EXCEPT ![r] = None]
    /\ cache' = [cache EXCEPT ![job[r].id] = Cached(job[r].id)]
    /\ Answer(r, Cached(job[r].id).models, IF pc[r] = "wait" THEN "again" ELSE "absent")
    /\ UNCHANGED <<store, fetch, job, held, todo, next, served>>

Landed(f, i, change) ==
    /\ fetch' = [fetch EXCEPT ![f] = None]
    /\ cache' = [cache EXCEPT ![i] = IF fetch[f].known THEN change ELSE @]

FetchSucceeds(f) ==
    /\ fetch[f] # None
    /\ LET i == fetch[f].id
       IN  /\ Landed(f, i, [models |-> Offers[fetch[f].url], ever |-> TRUE, stale |-> FALSE,
                            fresh |-> TRUE, flight |-> None])
    /\ UNCHANGED <<store, pc, local, served>>

FetchFails(f) ==
    /\ fetch[f] # None
    /\ LET i == fetch[f].id
       IN  /\ Landed(f, i, [Cached(i) EXCEPT !.stale = TRUE, !.flight = None])
    /\ UNCHANGED <<store, pc, local, served>>

(* The list is older than its time to live.                                *)
Expire(i) ==
    /\ cache[i] # None /\ cache[i].fresh
    /\ cache' = [cache EXCEPT ![i].fresh = FALSE]
    /\ UNCHANGED <<store, fetch, pc, local, served>>

-----------------------------------------------------------------------------
Step(r) ==
    \/ EditBuilds(r) \/ SaveLands(r) \/ Swap(r)
    \/ Start(r) \/ Get(r) \/ Again(r) \/ Woken(r)

Discovery(f) == FetchSucceeds(f) \/ FetchFails(f)

Next ==
    \/ LoadReads \/ LoadLands
    \/ \E r \in Requests : Step(r) \/ SaveFails(r) \/ \E asked \in Job : Arrive(r, asked)
    \/ \E f \in Fetches : Discovery(f)
    \/ \E i \in Ids : Expire(i)

Spec == Init /\ [][Next]_vars

-----------------------------------------------------------------------------
(* "A model valid on provider A is rejected against provider B" (INV-18):  *)
(* a pair is accepted only for a model that an endpoint of that provider   *)
(* offers, whatever edits and discoveries came in between.                 *)
AcceptedWasOffered ==
    \A r \in Requests : pc[r] = "found" =>
        \E u \in served[job[r].id] : job[r].model \in Offers[u]

(* "Several callers hitting a cold provider must not each fetch"           *)
(* (catalog.ts:73): no cache object is being filled twice.                 *)
OneDiscoveryEach ==
    \A f, g \in Fetches :
        (fetch[f] # None /\ fetch[g] # None /\ f # g /\ fetch[f].known /\ fetch[g].known)
            => fetch[f].id # fetch[g].id
=============================================================================
