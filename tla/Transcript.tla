----------------------------- MODULE Transcript -----------------------------
(***************************************************************************)
(* What the reader is shown of conversations: the cached copies and their  *)
(* requests (client/queries.ts), the run that is watched and the reply     *)
(* that is held until its stored form arrives (client/App.tsx).  React's   *)
(* effects run before anything else happens.                               *)
(*                                                                         *)
(* A turn is a number; its question and its reply are messages of it.  The *)
(* server is what its routes answer: a run appends its reply some time     *)
(* after the client could learn of its end.                                *)
(***************************************************************************)
EXTENDS Integers, SequencesExt, FiniteSetsExt

CONSTANTS Convs, None,
          Starts,       \* conversations the reader starts runs in
          Refusals,     \* the requests the server may refuse
          Patient,      \* whether the reader writes to a loaded transcript only
          StoredFirst,  \* whether a reply is stored by the time its run has ended
          MaxTurns,     \* bound: runs
          MaxEdits,     \* bound: edits
          MaxReloads,   \* bound: reloads
          MaxRequests   \* bound: writes in flight

TranscriptAssumption ==
    /\ Starts \subseteq Convs /\ {Patient, StoredFirst} \subseteq BOOLEAN
    /\ Refusals \subseteq {"send", "regenerate", "edit"}
    /\ {MaxTurns, MaxRequests} \subseteq Nat \ {0} /\ {MaxEdits, MaxReloads} \subseteq Nat

VARIABLES stored,      \* the server: each conversation's messages
          run,         \* the server: each conversation's run
          open,        \* currentId
          cache,       \* each conversation's data
          invalid,     \* queries that are to be fetched again when looked at
          fetch,       \* each query's request: None, asked, or the answer
          requests,    \* writes in flight
          generation,  \* the run that is watched
          live,        \* its state as the stream told it
          settled,     \* settledRef
          settling,    \* the finished reply that is held
          turns, edits, reloads

server == <<stored, run>>
watched == <<generation, live, settled, settling>>
vars == <<stored, run, open, cache, invalid, fetch, requests, generation, live, settled, settling,
          turns, edits, reloads>>

Messages == [of : Convs, type : {"user", "assistant"}, turn : Nat, edit : Nat, temporary : BOOLEAN]
Copies == [messages : Seq(Messages), active : Nat \union {None}]
Generations == [turn : Nat, of : Convs]
Runs == [turn : Nat \union {None}, ended : BOOLEAN]
Fetches == [asked : BOOLEAN, loaded : Seq(Messages) \union {None}, answer : Copies \union {None}]
Requests == [kind : {"send", "regenerate", "edit"}, of : Convs, turn : Nat,
             previous : Copies \union {None}, answer : {"none", "accepted", "refused"}]

NoneAssumption == None \notin Nat \union Seq(Messages) \union Copies \union Generations

TypeOK ==
    /\ stored \in [Convs -> Seq(Messages)] /\ run \in [Convs -> Runs]
    /\ open \in Convs /\ invalid \subseteq Convs
    /\ cache \in [Convs -> Copies \union {None}] /\ fetch \in [Convs -> Fetches]
    /\ requests \subseteq Requests
    /\ generation \in Generations \union {None} /\ live \in {"idle", "running", "ended"}
    /\ settled \in Nat \union {None} /\ settling \in Generations \union {None}
    /\ turns \in Nat /\ edits \in Nat /\ reloads \in Nat

Message(c, type, t) == [of |-> c, type |-> type, turn |-> t, edit |-> 0, temporary |-> FALSE]

(* activeGenerationId(): a run that has ended is no run.                   *)
ActiveRun(c) == IF run[c].ended THEN None ELSE run[c].turn

NoRun == [turn |-> None, ended |-> TRUE]
Nothing == [asked |-> FALSE, loaded |-> None, answer |-> None]
Asked == [Nothing EXCEPT !.asked = TRUE]

Init ==
    /\ stored = [c \in Convs |-> << >>] /\ run = [c \in Convs |-> NoRun]
    /\ open \in Convs
    /\ cache = [c \in Convs |-> None] /\ invalid = {}
    /\ fetch = [c \in Convs |-> IF c = open THEN Asked ELSE Nothing]
    /\ requests = {}
    /\ generation = None /\ live = "idle" /\ settled = None /\ settling = None
    /\ turns = 0 /\ edits = 0 /\ reloads = 0

Busy(c) == generation # None /\ generation.of = c /\ live = "running"

Idle(c) == fetch[c] = Nothing

-----------------------------------------------------------------------------
(* The effects.                                                            *)

Active(c, data) == IF data[c] = None THEN None ELSE data[c].active

(* A run found on a conversation is watched, with that conversation.       *)
Adopted(c, data) ==
    IF /\ Active(c, data) # None
       /\ <<Active(c, data), c>> # <<Active(open, cache), open>>
    THEN [turn |-> Active(c, data), of |-> c]
    ELSE generation

(* Another run is watched from its beginning.                              *)
LiveOf(now) == IF now = generation THEN live ELSE "running"

(* It is held until the transcript is updated or left.                     *)
Held(c, data) ==
    IF settling # None /\ settling.of = c /\ data[c] = cache[c] THEN settling ELSE None

(* The cached data became this, and this conversation is open.             *)
Commit(c, data) ==
    /\ open' = c /\ cache' = data
    /\ generation' = Adopted(c, data) /\ live' = LiveOf(Adopted(c, data))
    /\ settling' = Held(c, data)
    /\ UNCHANGED settled

-----------------------------------------------------------------------------
(* Reads.                                                                  *)

(* Looking at a conversation fetches it when it is not there or stale; the *)
(* request of the one that is left is cancelled.                           *)
Open(c) ==
    /\ c # open
    /\ Commit(c, cache)
    /\ fetch' = [fetch EXCEPT ![open] = Nothing,
                              ![c] = IF cache[c] = None \/ c \in invalid THEN Asked ELSE Nothing]
    /\ UNCHANGED <<server, invalid, requests, turns, edits, reloads>>

Load(c) ==
    /\ fetch[c] = Asked
    /\ fetch' = [fetch EXCEPT ![c] = [Asked EXCEPT !.loaded = stored[c]]]
    /\ UNCHANGED <<server, open, cache, invalid, requests, watched, turns, edits, reloads>>

(* The run is looked up after the file was read.                           *)
Answer(c) ==
    /\ fetch[c].loaded # None /\ fetch[c].answer = None
    /\ fetch' = [fetch EXCEPT ![c].answer = [messages |-> fetch[c].loaded, active |-> ActiveRun(c)]]
    /\ UNCHANGED <<server, open, cache, invalid, requests, watched, turns, edits, reloads>>

Land(c) ==
    /\ fetch[c].answer # None
    /\ Commit(open, [cache EXCEPT ![c] = fetch[c].answer])
    /\ invalid' = invalid \ {c}
    /\ fetch' = [fetch EXCEPT ![c] = Nothing]
    /\ UNCHANGED <<server, requests, turns, edits, reloads>>

-----------------------------------------------------------------------------
(* Writes.  cancelQueries(), then what is shown before the answer.         *)

Cancelled(c) == [fetch EXCEPT ![c] = Nothing]

Touched(c, data) == IF data[c] = cache[c] THEN invalid ELSE invalid \ {c}

Request(kind, c, previous) ==
    [kind |-> kind, of |-> c, turn |-> turns + 1, previous |-> previous, answer |-> "none"]

Optimistic(c) == [Message(c, "user", turns + 1) EXCEPT !.temporary = TRUE]

Ready ==
    /\ ~Busy(open) /\ Cardinality(requests) < MaxRequests
    /\ Patient => Idle(open) /\ cache[open] # None

Send ==
    /\ open \in Starts /\ Ready /\ turns < MaxTurns
    /\ LET data == IF cache[open] = None THEN cache
                   ELSE [cache EXCEPT ![open].messages = Append(@, Optimistic(open))]
       IN  Commit(open, data) /\ invalid' = Touched(open, data)
    /\ fetch' = Cancelled(open)
    /\ requests' = requests \union {Request("send", open, cache[open])}
    /\ turns' = turns + 1
    /\ UNCHANGED <<server, edits, reloads>>

LastIs(messages, type) == messages # << >> /\ Last(messages).type = type

Regenerate ==
    /\ open \in Starts /\ Ready /\ turns < MaxTurns
    /\ cache[open] # None /\ cache[open].messages # << >>
    /\ LET data == IF LastIs(cache[open].messages, "assistant")
                   THEN [cache EXCEPT ![open].messages = Front(@)] ELSE cache
       IN  Commit(open, data) /\ invalid' = Touched(open, data)
    /\ fetch' = Cancelled(open)
    /\ requests' = requests \union {Request("regenerate", open, None)}
    /\ turns' = turns + 1
    /\ UNCHANGED <<server, edits, reloads>>

(* The question is given another wording.                                  *)
Edit ==
    /\ edits < MaxEdits /\ Ready
    /\ cache[open] # None /\ cache[open].messages # << >>
    /\ ~Head(cache[open].messages).temporary
    /\ requests' = requests \union {[Request("edit", open, None) EXCEPT !.turn = 0]}
    /\ edits' = edits + 1
    /\ UNCHANGED <<server, open, cache, invalid, fetch, watched, turns, reloads>>

-----------------------------------------------------------------------------
(* The server.                                                             *)

Answered(r, a) == requests' = (requests \ {r}) \union {[r EXCEPT !.answer = a]}

Refuse(r) ==
    /\ r.answer = "none"
    /\ r.kind \in Refusals \/ run[r.of].turn # None
    /\ Answered(r, "refused")
    /\ UNCHANGED <<server, open, cache, invalid, fetch, watched, turns, edits, reloads>>

Question(r) ==
    IF r.kind = "send" THEN Append(stored[r.of], Message(r.of, "user", r.turn))
    ELSE IF LastIs(stored[r.of], "assistant") THEN Front(stored[r.of]) ELSE stored[r.of]

Start(r) ==
    /\ r.answer = "none" /\ r.kind \in {"send", "regenerate"} /\ run[r.of].turn = None
    /\ r.kind = "regenerate" => stored[r.of] # << >>
    /\ stored' = [stored EXCEPT ![r.of] = Question(r)]
    /\ run' = [run EXCEPT ![r.of] = [turn |-> r.turn, ended |-> FALSE]]
    /\ Answered(r, "accepted")
    /\ UNCHANGED <<open, cache, invalid, fetch, watched, turns, edits, reloads>>

ApplyEdit(r) ==
    /\ r.answer = "none" /\ r.kind = "edit" /\ run[r.of].turn = None
    /\ stored' = [stored EXCEPT ![r.of][1].edit = @ + 1]
    /\ requests' = (requests \ {r}) \union {[r EXCEPT !.answer = "accepted",
                       !.previous = [messages |-> stored'[r.of], active |-> None]]}
    /\ UNCHANGED <<run, open, cache, invalid, fetch, watched, turns, edits, reloads>>

StoreReply(c) ==
    /\ stored' = [stored EXCEPT ![c] = Append(@, Message(c, "assistant", run[c].turn))]
    /\ run' = [run EXCEPT ![c] = NoRun]

EndRun(c) ==
    /\ run[c].turn # None /\ ~run[c].ended
    /\ IF StoredFirst THEN StoreReply(c)
       ELSE run' = [run EXCEPT ![c].ended = TRUE] /\ UNCHANGED stored
    /\ UNCHANGED <<open, cache, invalid, fetch, requests, watched, turns, edits, reloads>>

Store(c) ==
    /\ run[c].turn # None /\ run[c].ended
    /\ StoreReply(c)
    /\ UNCHANGED <<open, cache, invalid, fetch, requests, watched, turns, edits, reloads>>

-----------------------------------------------------------------------------
(* Answers.                                                                *)

(* The temporary message becomes the server's.                             *)
Reconciled(r) ==
    IF cache[r.of] = None THEN cache
    ELSE [cache EXCEPT ![r.of].messages =
            [i \in DOMAIN @ |-> IF @[i].temporary /\ @[i].turn = r.turn
                                THEN [@[i] EXCEPT !.temporary = FALSE] ELSE @[i]]]

(* The run that was started is watched.                                    *)
Accepted(r) ==
    /\ r.answer = "accepted" /\ r.kind \in {"send", "regenerate"}
    /\ LET data == IF r.kind = "send" THEN Reconciled(r) ELSE cache
       IN  /\ cache' = data
           /\ settling' = Held(open, data)
           /\ invalid' = Touched(r.of, data)
    /\ generation' = [turn |-> r.turn, of |-> r.of] /\ live' = "running"
    /\ requests' = requests \ {r}
    /\ UNCHANGED <<server, open, fetch, settled, turns, edits, reloads>>

Edited(r) ==
    /\ r.answer = "accepted" /\ r.kind = "edit"
    /\ Commit(open, [cache EXCEPT ![r.of] = r.previous])
    /\ invalid' = invalid \ {r.of}
    /\ requests' = requests \ {r}
    /\ UNCHANGED <<server, fetch, turns, edits, reloads>>

(* A send is undone by the copy it took; the others leave what there is.   *)
Refused(r) ==
    /\ r.answer = "refused"
    /\ LET data == IF r.kind = "send" /\ r.previous # None
                   THEN [cache EXCEPT ![r.of] = r.previous] ELSE cache
       IN  Commit(open, data) /\ invalid' = Touched(r.of, data)
    /\ requests' = requests \ {r}
    /\ UNCHANGED <<server, fetch, turns, edits, reloads>>

-----------------------------------------------------------------------------
(* The end of the run that is watched.                                     *)

(* A slip: nothing is held.                                                *)
HoldNothing == None

(* Only in the conversation on the screen is there anything to hold.       *)
Hold == IF generation.of = open THEN generation ELSE settling

EndIsTold(g) == run[g.of].turn = g.turn => run[g.of].ended

(* A run is settled once; found again, it stays on the screen.             *)
Settle ==
    /\ generation # None /\ live = "running" /\ EndIsTold(generation)
    /\ IF settled = generation.turn
       THEN /\ live' = "ended"
            /\ UNCHANGED <<invalid, fetch, generation, settled, settling>>
       ELSE LET c == generation.of IN
            /\ settled' = generation.turn
            /\ generation' = None /\ live' = "idle"
            /\ settling' = Hold
            /\ invalid' = invalid \union {c}
            /\ fetch' = (IF c = open THEN [fetch EXCEPT ![c] = Asked] ELSE fetch)
    /\ UNCHANGED <<server, open, cache, requests, turns, edits, reloads>>

(* The page is loaded again.  The run that is watched is in the browser's  *)
(* storage; whoever waited for an answer is gone.                          *)
Reload ==
    /\ reloads < MaxReloads
    /\ reloads' = reloads + 1
    /\ cache' = [c \in Convs |-> None] /\ invalid' = {}
    /\ fetch' = [c \in Convs |-> IF c = open THEN Asked ELSE Nothing]
    /\ requests' = {}
    /\ live' = (IF generation = None THEN "idle" ELSE "running")
    /\ settled' = None /\ settling' = None
    /\ UNCHANGED <<server, open, generation, turns, edits>>

-----------------------------------------------------------------------------
Next ==
    \/ \E c \in Convs : Open(c) \/ Load(c) \/ Answer(c) \/ Land(c) \/ EndRun(c) \/ Store(c)
    \/ Send \/ Regenerate \/ Edit \/ Settle \/ Reload
    \/ \E r \in requests : \/ Refuse(r) \/ Start(r) \/ ApplyEdit(r)
                           \/ Accepted(r) \/ Edited(r) \/ Refused(r)

-----------------------------------------------------------------------------
(* The reply at the end of the transcript: the one that streams or has     *)
(* just ended, or the one that is held.                                    *)
Block ==
    IF generation # None /\ generation.of = open THEN {generation.turn}
    ELSE IF settling # None /\ settling.of = open THEN {settling.turn} ELSE {}

CachedMessages(c) == IF cache[c] = None THEN {} ELSE ToSet(cache[c].messages)

Quiet ==
    /\ requests = {} /\ \A c \in Convs : Idle(c) /\ run[c].turn = None
    /\ ~Busy(open)

(* When nothing is under way any more, the reader sees every message the   *)
(* server has of the open conversation, in its order and as it is worded   *)
(* there.  (useConversation: every change is followed by an invalidation.) *)
ShowsWhatIsStored ==
    Quiet => (IF cache[open] = None THEN << >> ELSE cache[open].messages) = stored[open]

(* A question that is shown stays shown, whatever lands meanwhile, unless  *)
(* its own send is refused or the page is loaded again.  (onMutate of      *)
(* useSendMessage.)                                                        *)
Questions(c) == {m.turn : m \in {n \in CachedMessages(c) : n.type = "user"}}
QuestionStays ==
    \A c \in Convs : \A t \in Questions(c) :
        \/ cache'[c] = None \/ t \in Questions(c)'
        \/ \E r \in requests : r.turn = t /\ r.answer = "refused"

(* App.tsx on the reply that is held: it stays until its stored form       *)
(* arrives.  So a reply that was shown and is stored remains shown while   *)
(* its conversation is open, until the reader asks for another in its      *)
(* place.                                                                  *)
ShownReplies ==
    {m.turn : m \in {n \in CachedMessages(open) : n.type = "assistant"}} \union Block
ReplyStaysOnScreen ==
    \A m \in ToSet(stored[open]) :
        /\ m.type = "assistant" /\ m.turn \in ShownReplies
        /\ open' = open /\ reloads' = reloads /\ ~ \E r \in requests' : r.kind = "regenerate"
        => m.turn \in ShownReplies'

=============================================================================
