----------------------------- MODULE Proposals -----------------------------
(***************************************************************************)
(* Memory changes a model asks for and the reader answers: the cards of    *)
(* one conversation (server/storage/proposals.ts), the notes they are      *)
(* about (server/storage/memories.ts), the runs that file them             *)
(* (generation/service.ts) and the requests that show, answer and remove   *)
(* them (routes/conversations.ts, routes/me.ts).                           *)
(*                                                                         *)
(* A run makes at most one call.  A note is the time it was last written,  *)
(* and every note is of size one.  The lock of the cards is a line in      *)
(* order of arrival, as KeyedLock is; the conversation lock and a note's   *)
(* are just held.  Reading the cards and writing them are two steps: the   *)
(* one writer that takes no lock, clear(), may come between.  The cards of *)
(* the file are known by when each was filed, which is their order.        *)
(***************************************************************************)
EXTENDS Integers, SequencesExt

CONSTANTS Runs, Requests, Names, None,
          Cap,   \* MAX_PENDING_PER_CONVERSATION
          Room   \* MEMORIES_MAX_TOTAL_BYTES, in notes

CapAssumption == Cap \in Nat \ {0} /\ Room \in Nat

VARIABLES there,    \* the conversation exists
          msgs,     \* its assistant messages, each by the run that wrote it
          cards,    \* the proposals file: each card by the number of its filing
          filings,  \* how many have been filed
          note,     \* each memory: when it was last written, or None
          clock,
          conv,     \* who holds the conversation lock
          line,     \* the lock of the cards
          held,     \* who holds the lock of each note
          pc,       \* each run and each request
          call,     \* the call a run made
          status,   \* how a run ended: the status of its message
          job,      \* what a request asks for
          ask, back, seen,  \* a change of the cards: what, where to next, what it read
          shown,    \* history: the cards the reader has been served
          applied    \* history: how often the change of each card was made

conversation == <<there, msgs, conv>>
notes == <<note, clock, held>>
change == <<ask, back, seen>>
history == <<shown, applied>>
calls == <<call, status>>
file == <<cards, filings>>
vars == <<conversation, file, notes, line, pc, calls, job, change, history>>

Actors == Runs \union Requests
Operations == {"create", "update", "delete"}
Card == [run : Runs, nth : {1, 2}, op : Operations, name : Names,
         base : Nat \union {None}, since : Nat]
Cards == UNION {[S -> Card] : S \in SUBSET (1..filings)}
Change ==
    [do : {"add", "take", "resolve"}, card : Card]
    \union [do : {"drop"}, run : Runs]
    \union [do : {"retain"}, present : SUBSET Runs]
Job ==
    [kind : {"get", "regenerate", "deleteConversation"}]
    \union [kind : {"answer"}, card : Card, accept : BOOLEAN]
    \union [kind : {"deleteMessage"}, of : Runs]
    \union [kind : {"put", "removeNote"}, name : Names]
NoneAssumption ==
    /\ None \notin Runs \union Requests \union Nat \union Card \union Change \union Job
    /\ Runs \intersect Requests = {}

Phases == {"idle", "streaming", "called", "completed", "broken", "stored", "filed", "start",
           "queued", "apply", "noteWait", "noteWrite", "write", "launch", "unlink", "clear",
           "done", "refused", "lost"}

TypeOK ==
    /\ there \in BOOLEAN
    /\ msgs \in Seq(Runs)
    /\ filings \in Nat /\ cards \in Cards /\ Cardinality(DOMAIN cards) <= Cap
    /\ note \in [Names -> Nat \union {None}]
    /\ clock \in Nat
    /\ conv \in Actors \union {None}
    /\ line \in Seq(Actors)
    /\ held \in [Names -> Actors \union {None}]
    /\ pc \in [Actors -> Phases]
    /\ call \in [Runs -> Card \union {None}]
    /\ status \in [Runs -> {None, "completed", "broken"}]
    /\ job \in [Requests -> Job \union {None}]
    /\ ask \in [Actors -> Change \union {None}]
    /\ back \in [Actors -> Phases]
    /\ seen \in [Actors -> Cards]
    /\ shown \subseteq Card
    /\ applied \in [Runs \X {1, 2} -> Nat]

Total == Cardinality({n \in Names : note[n] # None})

Init ==
    /\ there = TRUE
    /\ msgs = << >>
    /\ cards = << >> /\ filings = 0
    /\ note \in [Names -> {0, None}] /\ Total <= Room
    /\ clock = 0
    /\ conv = None
    /\ line = << >>
    /\ held = [n \in Names |-> None]
    /\ pc = [a \in Actors |-> "idle"]
    /\ call = [r \in Runs |-> None]
    /\ status = [r \in Runs |-> None]
    /\ job = [q \in Requests |-> None]
    /\ ask = [a \in Actors |-> None]
    /\ back = [a \in Actors |-> "done"]
    /\ seen = [a \in Actors |-> << >>]
    /\ shown = {}
    /\ applied = [i \in Runs \X {1, 2} |-> 0]
-----------------------------------------------------------------------------
(* What a change makes of the cards.                                       *)
Id(c) == <<c.run, c.nth>>
Same(c, d) == Id(c) = Id(d)

Contents(s) == {s[i] : i \in DOMAIN s}
Without(s, dropped) == Restrict(s, {i \in DOMAIN s : s[i] \notin dropped})
Oldest(s) == {s[i] : i \in {j \in DOMAIN s : \A k \in DOMAIN s : j <= k}}

(* add(): a call is recognised by its source; past the cap the oldest go.  *)
With(s, c) == [i \in DOMAIN s \union {filings + 1} |-> IF i = filings + 1 THEN c ELSE s[i]]
Filed(s, c) ==
    IF \E d \in Contents(s) : d.run = c.run THEN s
    ELSE IF Cardinality(DOMAIN s) < Cap THEN With(s, c)
    ELSE Without(With(s, c), Oldest(With(s, c)))

Dropped(x, s) ==
    {c \in Contents(s) : CASE x.do \in {"take", "resolve"} -> Same(c, x.card)
                       [] x.do = "drop" -> c.run = x.run
                       [] x.do = "retain" -> c.run \notin x.present}
Effect(x, s) == IF x.do = "add" THEN Filed(s, x.card) ELSE Without(s, Dropped(x, s))

Answers(x) == x.do \in {"take", "resolve"}
Gone(x, s) == Answers(x) /\ \A c \in Contents(s) : ~Same(c, x.card)

Go(a, phase) == pc' = [pc EXCEPT ![a] = phase]
Inside(a) == line # << >> /\ Head(line) = a
LeaveLine(a) == line' = IF Inside(a) THEN Tail(line) ELSE line

Enqueue(a, x, next) ==
    /\ ask' = [ask EXCEPT ![a] = x]
    /\ back' = [back EXCEPT ![a] = next]
    /\ line' = Append(line, a)
    /\ Go(a, "queued")
    /\ UNCHANGED seen

(* The cards a get ends with are served.                                   *)
Serves(a) == a \in Requests /\ job[a].kind = "get"
Served(a, s) == shown' = IF Serves(a) THEN shown \union Contents(s) ELSE shown

Enter(a) ==
    /\ pc[a] = "queued" /\ Inside(a)
    /\ seen' = [seen EXCEPT ![a] = cards]
    /\ LET x == ask[a]
       IN  \/ Gone(x, cards) /\ Go(a, "refused") /\ LeaveLine(a) /\ UNCHANGED shown
           \/ ~Gone(x, cards) /\ x.do = "resolve" /\ Go(a, "apply") /\ UNCHANGED <<line, shown>>
           \/ /\ ~Answers(x) /\ Effect(x, cards) = cards
              /\ Go(a, back[a]) /\ LeaveLine(a) /\ Served(a, cards)
           \/ /\ ~Gone(x, cards) /\ x.do # "resolve" /\ Effect(x, cards) # cards
              /\ Go(a, "write") /\ UNCHANGED <<line, shown>>
    /\ UNCHANGED <<conversation, file, notes, calls, job, ask, back, applied>>

WriteCards(a) ==
    /\ pc[a] = "write"
    /\ LET rest == Effect(ask[a], seen[a])
       IN  /\ cards' = rest
           /\ filings' = IF filings + 1 \in DOMAIN rest THEN filings + 1 ELSE filings
           /\ Served(a, rest)
    /\ LeaveLine(a)
    /\ Go(a, back[a])
    /\ UNCHANGED <<conversation, notes, calls, job, change, applied>>

(* A write that fails: a request is told, a run's persister lets go.       *)
WriteCardsFails(a) ==
    /\ pc[a] = "write"
    /\ LeaveLine(a)
    /\ Go(a, IF a \in Requests THEN "refused" ELSE IF back[a] = "called" THEN "broken" ELSE "done")
    /\ conv' = IF conv = a THEN None ELSE conv
    /\ UNCHANGED <<there, msgs, file, notes, calls, job, change, history>>

-----------------------------------------------------------------------------
(* Applying a card that was accepted, and a reader's own note: applyProposal() *)
(* looks first, then write() or removeIfUnchanged() checks under the       *)
(* note's lock.                                                            *)
Target(a) == IF a \in Requests /\ job[a].kind = "put" THEN job[a].name ELSE ask[a].card.name
Operation(a) == IF a \in Requests /\ job[a].kind = "put" THEN "put" ELSE ask[a].card.op
Base(a) == IF Operation(a) = "put" THEN None ELSE ask[a].card.base

Refuse(a) == Go(a, "refused") /\ LeaveLine(a)

Look(a) ==
    /\ pc[a] = "apply"
    /\ LET c == ask[a].card
       IN  IF c.op # "create" /\ c.base = None /\ note[c.name] # None /\ note[c.name] > c.since
           THEN Refuse(a)
           ELSE Go(a, "noteWait") /\ UNCHANGED line
    /\ UNCHANGED <<conversation, file, notes, calls, job, change, history>>

(* A slip: whatever note has the name is the one that was meant.           *)
ConflictIfMissing(a) ==
    CASE Operation(a) = "create" -> note[Target(a)] # None
      [] Operation(a) = "update" -> note[Target(a)] = None
      [] OTHER -> FALSE

Conflict(a) ==
    LET current == note[Target(a)]
        changed == Base(a) # None /\ current # Base(a)
    IN  CASE Operation(a) = "create" -> current # None
          [] Operation(a) = "update" -> current = None \/ changed
          [] Operation(a) = "delete" -> current # None /\ changed
          [] Operation(a) = "put" -> FALSE

TotalWith(n) == Cardinality({m \in Names \ {n} : note[m] # None}) + 1

CheckNote(a) ==
    /\ pc[a] = "noteWait" /\ held[Target(a)] = None
    /\ \/ /\ Conflict(a) \/ (Operation(a) # "delete" /\ TotalWith(Target(a)) > Room)
          /\ Refuse(a)
          /\ UNCHANGED <<note, held, applied>>
       \/ /\ ~Conflict(a) /\ Operation(a) = "delete"
          /\ note' = [note EXCEPT ![Target(a)] = None]
          /\ applied' = IF note[Target(a)] = None THEN applied
                        ELSE [applied EXCEPT ![Id(ask[a].card)] = @ + 1]
          /\ Go(a, "write")
          /\ UNCHANGED <<line, held>>
       \/ /\ ~Conflict(a) /\ Operation(a) # "delete" /\ TotalWith(Target(a)) <= Room
          /\ held' = [held EXCEPT ![Target(a)] = a]
          /\ Go(a, "noteWrite")
          /\ UNCHANGED <<line, note, applied>>
    /\ UNCHANGED <<conversation, file, clock, calls, job, change, shown>>

WriteNote(a) ==
    /\ pc[a] = "noteWrite"
    /\ clock' = clock + 1
    /\ note' = [note EXCEPT ![Target(a)] = clock + 1]
    /\ held' = [held EXCEPT ![Target(a)] = None]
    /\ IF Operation(a) = "put"
       THEN Go(a, "done") /\ UNCHANGED applied
       ELSE Go(a, "write") /\ applied' = [applied EXCEPT ![Id(ask[a].card)] = @ + 1]
    /\ UNCHANGED <<conversation, file, line, calls, job, change, shown>>

WriteNoteFails(a) ==
    /\ pc[a] = "noteWrite"
    /\ held' = [held EXCEPT ![Target(a)] = None]
    /\ Refuse(a)
    /\ UNCHANGED <<conversation, file, note, clock, calls, job, change, history>>

-----------------------------------------------------------------------------
(* A run: one at a time in the conversation.  It calls, and the call is    *)
(* filed while it goes on; it ends, its message is stored, and the call is *)
(* filed once more under the conversation lock.                            *)
Active == \E r \in Runs : pc[r] \notin {"idle", "done", "lost"}

Send(r) ==
    /\ there /\ conv = None /\ ~Active /\ pc[r] = "idle"
    /\ Go(r, "streaming")
    /\ UNCHANGED <<conversation, file, notes, line, calls, job, change, history>>

CardFor(r, n, op, name) ==
    [run |-> r, nth |-> n, op |-> op, name |-> name,
     base |-> IF op = "create" THEN None ELSE note[name], since |-> clock]

Call(r, op, name) ==
    /\ pc[r] = "streaming"
    /\ call' = [call EXCEPT ![r] = CardFor(r, 1, op, name)]
    /\ Enqueue(r, [do |-> "add", card |-> CardFor(r, 1, op, name)], "called")
    /\ UNCHANGED <<conversation, file, notes, status, job, history>>

End(r) ==
    /\ pc[r] \in {"streaming", "called"}
    /\ \E how \in {"completed", "broken"} : Go(r, how) /\ status' = [status EXCEPT ![r] = how]
    /\ UNCHANGED <<conversation, file, notes, line, call, job, change, history>>

Persist(r) ==
    /\ pc[r] \in {"completed", "broken"} /\ conv = None
    /\ IF there
       THEN /\ msgs' = Append(msgs, r)
            /\ conv' = r
            /\ Go(r, IF pc[r] = "completed" /\ call[r] # None THEN "stored" ELSE "filed")
       ELSE Go(r, "done") /\ UNCHANGED <<msgs, conv>>
    /\ UNCHANGED <<there, file, notes, line, calls, job, change, history>>

Record(r) ==
    /\ pc[r] = "stored"
    /\ Enqueue(r, [do |-> "add", card |-> CardFor(r, 2, call[r].op, call[r].name)], "filed")
    /\ UNCHANGED <<conversation, file, notes, calls, job, history>>

Finish(r) ==
    /\ pc[r] = "filed"
    /\ conv' = None
    /\ Go(r, "done")
    /\ UNCHANGED <<there, msgs, file, notes, line, calls, job, change, history>>

-----------------------------------------------------------------------------
(* Requests.  A reader answers a card that was served.                     *)
Arrive(q, j) ==
    /\ pc[q] = "idle"
    /\ j.kind = "answer" => j.card \in shown
    /\ job' = [job EXCEPT ![q] = j]
    /\ Go(q, IF j.kind = "put" THEN "noteWait" ELSE "start")
    /\ UNCHANGED <<conversation, file, notes, line, calls, change, history>>

Is(q, kind) == pc[q] = "start" /\ job[q].kind = kind

NotFound(q) ==
    /\ pc[q] = "start" /\ job[q].kind # "removeNote" /\ ~there
    /\ Go(q, "refused")
    /\ UNCHANGED <<conversation, file, notes, line, calls, job, change, history>>

(* The conversation is loaded, and its cards are reconciled with it.       *)
Get(q) ==
    /\ Is(q, "get") /\ there
    /\ Enqueue(q, [do |-> "retain", present |-> ToSet(msgs)], "done")
    /\ UNCHANGED <<conversation, file, notes, calls, job, history>>

Answer(q) ==
    /\ Is(q, "answer") /\ there
    /\ Enqueue(q, [do |-> IF job[q].accept THEN "resolve" ELSE "take", card |-> job[q].card], "done")
    /\ UNCHANGED <<conversation, file, notes, calls, job, history>>

Regenerate(q) ==
    /\ Is(q, "regenerate") /\ there /\ conv = None
    /\ IF Active \/ msgs = << >>
       THEN Go(q, "refused") /\ UNCHANGED <<msgs, conv, line, change>>
       ELSE /\ msgs' = Front(msgs)
            /\ conv' = q
            /\ Enqueue(q, [do |-> "drop", run |-> Last(msgs)], "launch")
    /\ UNCHANGED <<there, file, notes, calls, job, history>>

(* The run it starts is left out when there is none left to be it.         *)
LaunchAgain(q) ==
    /\ pc[q] = "launch"
    /\ conv' = None
    /\ LET idle == {r \in Runs : pc[r] = "idle"}
       IN  IF idle = {} THEN Go(q, "done")
           ELSE \E r \in idle : pc' = [pc EXCEPT ![q] = "done", ![r] = "streaming"]
    /\ UNCHANGED <<there, msgs, file, notes, line, calls, job, change, history>>

DeleteMessage(q) ==
    /\ Is(q, "deleteMessage") /\ there /\ conv = None
    /\ LET rest == SelectSeq(msgs, LAMBDA r : r # job[q].of)
       IN  IF rest = msgs
           THEN Go(q, "refused") /\ UNCHANGED <<msgs, line, change>>
           ELSE /\ msgs' = rest
                /\ Enqueue(q, [do |-> "retain", present |-> ToSet(rest)],
                           IF rest = << >> THEN "unlink" ELSE "done")
    /\ UNCHANGED <<there, conv, file, notes, calls, job, history>>

Unlink(q) ==
    /\ pc[q] = "unlink" \/ (Is(q, "deleteConversation") /\ there)
    /\ conv = None
    /\ there' = FALSE
    /\ msgs' = << >>
    /\ Go(q, IF pc[q] # "unlink" THEN "clear" ELSE IF there THEN "done" ELSE "refused")
    /\ UNCHANGED <<conv, file, notes, line, calls, job, change, history>>

(* clear(): without the lock.                                              *)
Clear(q) ==
    /\ pc[q] = "clear"
    /\ cards' = << >>
    /\ UNCHANGED filings
    /\ Go(q, "done")
    /\ UNCHANGED <<conversation, notes, line, calls, job, change, shown, applied>>

(* remove(): without the lock.                                             *)
RemoveNote(q) ==
    /\ Is(q, "removeNote")
    /\ note' = [note EXCEPT ![job[q].name] = None]
    /\ Go(q, IF note[job[q].name] = None THEN "refused" ELSE "done")
    /\ UNCHANGED <<conversation, file, clock, held, line, calls, job, change, history>>

-----------------------------------------------------------------------------
(* The process dies.  Recovery gives a run that was cut off its message.   *)
Crash ==
    /\ conv' = None
    /\ line' = << >>
    /\ held' = [n \in Names |-> None]
    /\ pc' = [a \in Actors |-> IF pc[a] \in {"idle", "done", "refused"} THEN pc[a] ELSE "lost"]
    /\ UNCHANGED <<there, msgs, file, note, clock, calls, job, change, history>>

Recover(r) ==
    /\ pc[r] = "lost"
    /\ msgs' = IF there /\ r \notin ToSet(msgs) THEN Append(msgs, r) ELSE msgs
    /\ Go(r, "done")
    /\ UNCHANGED <<there, conv, file, notes, line, calls, job, change, history>>

Changing(a) == Enter(a) \/ WriteCards(a) \/ Look(a) \/ CheckNote(a) \/ WriteNote(a)
Failing(a) == WriteCardsFails(a) \/ WriteNoteFails(a)
Running(r) == End(r) \/ Persist(r) \/ Record(r) \/ Finish(r) \/ Recover(r)
Requesting(q) ==
    \/ NotFound(q) \/ Get(q) \/ Answer(q) \/ Regenerate(q) \/ DeleteMessage(q)
    \/ Unlink(q) \/ Clear(q) \/ RemoveNote(q) \/ LaunchAgain(q)

-----------------------------------------------------------------------------
(* A call has one card at most, whoever filed it and however often.        *)
(* (ProposalStore.add().)                                                  *)
OneCardEach == \A i, j \in DOMAIN cards : cards[i].run = cards[j].run => i = j

(* One click or several, and an answer whose second half failed: what a    *)
(* card asks for is done once, unless a note was removed meanwhile: its    *)
(* name is free again then.  (resolve().)                                  *)
NoteRemoved ==
    \/ \E q \in Requests : job[q] # None /\ job[q].kind = "removeNote"
    \/ \E r \in Runs : call[r] # None /\ call[r].op = "delete"
DoneOnce == \A i \in Runs \X {1, 2} : applied[i] <= 1 \/ NoteRemoved

=============================================================================
