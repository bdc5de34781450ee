---------------------------- MODULE ProviderForm ----------------------------
(***************************************************************************)
(* An administrator's form on the providers (ProvidersSection in           *)
(* client/AdminPanel.tsx), the routes it calls (server/routes/admin.ts)    *)
(* and the file a restart reads (server/provider/registry.ts).  Requests   *)
(* overlap; the steps inside one save are in Providers.                    *)
(***************************************************************************)
EXTENDS Integers, FiniteSets

CONSTANTS Ids, Names, Urls, Keys, None,
          Long,         \* the names of 101 to 128 characters
          Expected,     \* the key each endpoint answers to, None if to anyone
          Patient,      \* the administrator waits until nothing is in flight
          MaxRequests,  \* bound: requests
          MaxRestarts   \* bound: restarts of the server

Entries == [name : Names, url : Urls, key : Keys \union {None}]
Lines == [name : Names, url : Urls]
Drafts == [name : Names \union {None}, url : Urls \union {None}, key : Keys \union {None}]

ProviderFormAssumption ==
    /\ Long \subseteq Names /\ Expected \in [Urls -> Keys \union {None}]
    /\ Patient \in BOOLEAN /\ {MaxRequests, MaxRestarts} \subseteq Nat
    /\ None \notin Ids \union Names \union Urls \union Keys \union {"done", "refused"}
    /\ None \notin Entries \union Lines \union Drafts

VARIABLES hub, file,     \* the server: the providers in force, and those on disk
          shown,         \* providers.data, without the keys
          asking,        \* its request
          requests,      \* those in flight
          draft, editing,\* the form, and the provider it is for (None: another one)
          result,        \* testResult: whether the endpoint answered, and of which test
          meant,         \* history: the providers as they were last entered
          sent, restarts

server == <<hub, file, restarts>>
list == <<shown, asking>>
form == <<draft, editing, result>>
vars == <<server, list, requests, form, meant, sent>>

TypeOK ==
    /\ hub \in [Ids -> Entries \union {None}] /\ file \in [Ids -> Entries \union {None}]
    /\ shown \in [Ids -> Lines \union {None}]
    /\ asking \subseteq [known : BOOLEAN, answer : [Ids -> Lines \union {None}]]
    /\ requests \subseteq [n : Nat, kind : {"add", "edit", "remove", "test"}, id : Ids \union {None},
                           body : Drafts, answer : {None, "done", "refused"}]
    /\ draft \in Drafts \union {None} /\ editing \in Ids \union {None}
    /\ result \in [url : Urls \union {None}, key : Keys \union {None}, id : Ids \union {None},
                   ok : BOOLEAN] \union {None}
    /\ meant \in [Ids -> Entries \union {None}]
    /\ sent \in Nat /\ restarts \in Nat

-----------------------------------------------------------------------------
(* The server.  What the form says nothing of, capabilities and the length *)
(* of a context, is left out.                                              *)

Entry(name, url, key) == [name |-> name, url |-> url, key |-> key]
Described(entries) == [i \in Ids |-> IF entries[i] = None THEN None
                                     ELSE [name |-> entries[i].name, url |-> entries[i].url]]

(* A slip: no key is a key that is empty.                                  *)
KeySent(body, previous) == body.key

KeyOf(body, previous) == IF body.key = None THEN previous ELSE body.key

(* buildEntry(): the rest comes from the body as it is.                    *)
Built(body, previous) == Entry(body.name, body.url, KeyOf(body, previous))

Persist(entries) == hub' = entries /\ file' = entries

Answered(q, ok) == requests' = (requests \ {q}) \union {[q EXCEPT !.answer = IF ok THEN "done" ELSE "refused"]}

Serve(q) ==
    /\ q.answer = None /\ (q.kind = "add" => \E i \in Ids : hub[i] = None)
    /\ CASE q.kind = "add" ->
              /\ \E i \in {j \in Ids : hub[j] = None} : /\ Persist([hub EXCEPT ![i] = Built(q.body, None)])
                                                        /\ meant' = [meant EXCEPT ![i] = q.body]
              /\ Answered(q, TRUE)
         [] q.kind = "edit" /\ hub[q.id] # None ->
              /\ Persist([hub EXCEPT ![q.id] = Built(q.body, hub[q.id].key)])
              /\ Answered(q, TRUE) /\ UNCHANGED meant
         [] q.kind = "remove" /\ hub[q.id] # None ->
              /\ Persist([hub EXCEPT ![q.id] = None])
              /\ Answered(q, TRUE) /\ UNCHANGED meant
         [] q.kind = "test" ->
              /\ Answered(q, Expected[q.body.url] \in {None, q.body.key}) /\ UNCHANGED <<hub, file, meant>>
         [] OTHER -> Answered(q, FALSE) /\ UNCHANGED <<hub, file, meant>>
    /\ UNCHANGED <<restarts, list, form, sent>>

(* An entry that is not valid, to the reader of the file, is disabled.     *)
Valid(e) == e # None /\ e.name \notin Long

Restart ==
    /\ restarts < MaxRestarts /\ restarts' = restarts + 1
    /\ hub' = [i \in Ids |-> IF Valid(file[i]) THEN file[i] ELSE None]
    /\ requests' = {[q EXCEPT !.answer = IF @ = None THEN "refused" ELSE @] : q \in requests}
    /\ UNCHANGED <<file, list, form, meant, sent>>

-----------------------------------------------------------------------------
(* What the client holds.                                                  *)

Request == {[known |-> FALSE, answer |-> [i \in Ids |-> None]]}

AnswerList(q) ==
    /\ ~q.known /\ asking' = {[known |-> TRUE, answer |-> Described(hub)]}
    /\ UNCHANGED <<server, shown, requests, form, meant, sent>>

ListLands(q) ==
    /\ q.known /\ shown' = q.answer /\ asking' = {}
    /\ UNCHANGED <<server, requests, form, meant, sent>>

(* invalidateQueries(): a read that has begun is thrown away.              *)
ReadAgain == Request

(* done(), whichever request it is that succeeded.                         *)
Done ==
    /\ draft' = None /\ editing' = None /\ result' = result
    /\ asking' = ReadAgain /\ UNCHANGED shown

Lands(q) ==
    /\ q.answer # None /\ requests' = requests \ {q}
    /\ IF q.kind = "test"
       THEN /\ result' = [url |-> q.body.url, key |-> q.body.key, id |-> q.id, ok |-> q.answer = "done"]
            /\ UNCHANGED <<draft, editing, list>>
       ELSE IF q.answer = "done" THEN Done ELSE UNCHANGED <<form, list>>
    /\ UNCHANGED <<server, meant, sent>>

-----------------------------------------------------------------------------
(* What the administrator does.                                            *)

Quiet == asking = {} /\ requests = {}
Ready == Patient => Quiet

Send(kind, id, body) ==
    /\ sent < MaxRequests /\ sent' = sent + 1
    /\ requests' = requests \union {[n |-> sent, kind |-> kind, id |-> id, body |-> body, answer |-> None]}

Blank == [name |-> None, url |-> None, key |-> None]

OfAnother == None

Add ==
    /\ Ready /\ draft = None
    /\ draft' = Blank /\ editing' = OfAnother /\ result' = None
    /\ UNCHANGED <<server, list, requests, meant, sent>>

BeginEdit(i) ==
    /\ Ready /\ shown[i] # None
    /\ draft' = [name |-> shown[i].name, url |-> shown[i].url, key |-> None]
    /\ editing' = i /\ result' = None
    /\ UNCHANGED <<server, list, requests, meant, sent>>

Fill(name, url, key) ==
    /\ draft # None /\ draft # [name |-> name, url |-> url, key |-> key]
    /\ draft' = [name |-> name, url |-> url, key |-> key]
    /\ UNCHANGED <<server, list, requests, editing, result, meant, sent>>

(* The form goes; which provider it was for stays.                         *)
Cancel ==
    /\ draft # None /\ draft' = None
    /\ UNCHANGED <<server, list, requests, editing, result, meant, sent>>

Entered(i, b) == [name |-> b.name, url |-> b.url,
                  key |-> IF b.key # None THEN b.key ELSE IF meant[i] = None THEN None ELSE meant[i].key]

(* The fields are required; nothing keeps the button from a second click.  *)
Submit ==
    /\ Ready /\ draft # None /\ draft.name # None /\ draft.url # None
    /\ IF editing = None
       THEN Send("add", None, draft) /\ UNCHANGED meant
       ELSE /\ Send("edit", editing, draft)
            /\ meant' = [meant EXCEPT ![editing] = Entered(editing, draft)]
    /\ UNCHANGED <<server, list, form>>

Test ==
    /\ Ready /\ draft # None /\ draft.url # None
    /\ Send("test", editing, draft)
    /\ UNCHANGED <<server, list, form, meant>>

Delete(i) ==
    /\ Ready /\ shown[i] # None
    /\ Send("remove", i, Blank)
    /\ meant' = [meant EXCEPT ![i] = None]
    /\ UNCHANGED <<server, list, form>>

Init ==
    /\ \E i \in Ids, name \in Names \ Long, url \in Urls :
           /\ hub = [j \in Ids |-> IF j = i THEN Entry(name, url, Expected[url]) ELSE None]
    /\ file = hub /\ shown = Described(hub) /\ asking = {} /\ requests = {}
    /\ draft = None /\ editing = None /\ result = None
    /\ meant = [i \in Ids |-> IF hub[i] = None THEN None
                              ELSE [name |-> hub[i].name, url |-> hub[i].url, key |-> hub[i].key]]
    /\ sent = 0 /\ restarts = 0

Next ==
    \/ \E q \in requests : Serve(q) \/ Lands(q)
    \/ \E q \in asking : AnswerList(q) \/ ListLands(q)
    \/ \E i \in Ids : BeginEdit(i) \/ Delete(i)
    \/ \E name \in Names, url \in Urls, key \in Keys \union {None} : Fill(name, url, key)
    \/ Add \/ Cancel \/ Submit \/ Test \/ Restart

Spec == Init /\ [][Next]_vars

-----------------------------------------------------------------------------
(* When everything is answered, the providers are as they were entered     *)
(* last, a key that was left blank as it was.  (buildEntry())              *)
StoredAsEntered ==
    Quiet /\ restarts = 0 =>
        \A i \in Ids : IF meant[i] = None THEN hub[i] = None
                       ELSE hub[i] # None /\ [name |-> hub[i].name, url |-> hub[i].url, key |-> hub[i].key] = meant[i]

=============================================================================
