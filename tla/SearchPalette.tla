--------------------------- MODULE SearchPalette ----------------------------
(***************************************************************************)
(* Searching the conversations (client/SearchDialog.tsx, useSearch() in    *)
(* client/queries.ts, GET /conversations/search) and arriving at what was  *)
(* found (onOpenResult() in client/App.tsx).  A text either has a word or  *)
(* has not; effects run with the render that changed what they depend on.  *)
(***************************************************************************)
EXTENDS Integers, Sequences, FiniteSets, SequencesExt

CONSTANTS Chats, Words, None,
          Titles,          \* the words in the title of each conversation
          Bodies,          \* the words in every message of each
          Hits,            \* HITS_PER_CONVERSATION
          Limit,           \* SEARCH_RESULT_LIMIT
          Recent,          \* how many conversations are offered at first
          MaxMessages,     \* bound: messages of a conversation
          MaxChanges,      \* bound: changes on the server
          MaxFailures,     \* bound: lost answers
          MaxOpenings      \* bound: results opened

SearchAssumption ==
    /\ Titles \in [Chats -> SUBSET Words] /\ Bodies \in [Chats -> SUBSET Words]
    /\ {Hits, Limit, Recent, MaxMessages} \subseteq Nat \ {0}
    /\ {MaxChanges, MaxFailures, MaxOpenings} \subseteq Nat
    /\ None \notin Words \union Chats

VARIABLES
    order, stored,    \* the server: conversations, the latest first, and how many messages each has
    list,             \* the conversations the client knows of, in its order
    found,            \* what the data layer holds for each query
    asking,           \* the request in flight
    open, query, debounced, timer, active,   \* the palette
    current, held,    \* the conversation on the screen, and how many messages of each are cached
    focus, lit,       \* focusMessageId, and whether its timer runs
    opened,           \* history: what the palette opened last, and for which query
    changes, failures, openings

server == <<order, stored, changes>>
data == <<list, found, asking, failures>>
palette == <<open, query, debounced, timer, active>>
screen == <<current, held, focus, lit, opened, openings>>
vars == <<server, data, palette, screen>>

Row(c, m) == [chat |-> c, message |-> m]
Unknown == "unknown"

-----------------------------------------------------------------------------
(* The server.                                                             *)

Least(a, b) == IF a < b THEN a ELSE b

HitsIn(c, word) ==
    [i \in 1 .. (IF word \in Bodies[c] THEN Least(stored[c], Hits) ELSE 0) |-> Row(c, i)]

Heading(c, word) == IF word \in Titles[c] THEN << Row(c, None) >> ELSE << >>

RowsOf(c, word) == Heading(c, word) \o HitsIn(c, word)

FirstOf(s, n) == SubSeq(s, 1, Least(Len(s), n))

Matching(word) == FirstOf(SelectSeq(order, LAMBDA c : RowsOf(c, word) # << >>), Limit)

Results(word) == FlattenSeq([i \in DOMAIN Matching(word) |-> RowsOf(Matching(word)[i], word)])

(* A question is asked in a conversation, in this tab or in another.       *)
Change(c) ==
    /\ changes < MaxChanges /\ changes' = changes + 1
    /\ order' = << c >> \o SelectSeq(order, LAMBDA d : d # c)
    /\ stored' = [stored EXCEPT ![c] = IF @ < MaxMessages THEN @ + 1 ELSE @]
    /\ UNCHANGED <<data, palette, screen>>

-----------------------------------------------------------------------------
(* What the palette lists.                                                 *)

Listed(d, f, l) ==
    IF d = None THEN [i \in 1 .. Least(Len(l), Recent) |-> Row(l[i], None)]
    ELSE IF f[d] = Unknown THEN << >>
    ELSE f[d]

rows == Listed(debounced, found, list)

Resets(d, r) == d # debounced \/ Len(r) # Len(rows)

(* What the list depends on became this.                                   *)
Render(d, f, l) ==
    /\ debounced' = d /\ found' = f /\ list' = l
    /\ active' = IF open /\ Resets(d, Listed(d, f, l)) THEN 0 ELSE active

Init ==
    /\ order = SetToSeq(Chats) /\ stored = [c \in Chats |-> 1] /\ changes = 0
    /\ list = order /\ found = [w \in Words |-> Unknown] /\ asking = {} /\ failures = 0
    /\ open = FALSE /\ query = None /\ debounced = None /\ timer = FALSE /\ active = 0
    /\ current = None /\ held = [c \in Chats |-> 0]
    /\ focus = None /\ lit = FALSE /\ opened = None /\ openings = 0

Open ==
    /\ ~open /\ openings < MaxOpenings
    /\ open' = TRUE /\ query' = None /\ debounced' = None /\ timer' = FALSE /\ active' = 0
    /\ UNCHANGED <<server, data, screen>>

Close ==
    /\ open
    /\ open' = FALSE /\ asking' = {} /\ timer' = FALSE
    /\ UNCHANGED <<server, list, found, failures, query, debounced, active, screen>>

Type(text) ==
    /\ open /\ text # query
    /\ query' = text /\ timer' = TRUE
    /\ UNCHANGED <<server, data, open, debounced, active, screen>>

(* A slip: the query that was asked for before is asked for again.         *)
AskedBefore(text) == IF debounced = None THEN text ELSE debounced

Settled(text) == text

(* The request of another query is cancelled; what is held and is not old  *)
(* is not asked for.                                                       *)
Asks(d) ==
    IF d = None THEN { {} }
    ELSE {{[query |-> d, answer |-> Unknown]}} \union (IF found[d] = Unknown THEN {} ELSE { {} })

Debounce ==
    /\ timer
    /\ timer' = FALSE
    /\ LET d == Settled(query) IN
       /\ Render(d, found, list)
       /\ IF d = debounced THEN asking' = asking ELSE asking' \in Asks(d)
    /\ UNCHANGED <<server, failures, open, query, screen>>

AnswerSearch(q) ==
    /\ q.answer = Unknown
    /\ asking' = {[q EXCEPT !.answer = Results(q.query)]}
    /\ UNCHANGED <<server, list, found, failures, palette, screen>>

SearchLands(q) ==
    /\ q.answer # Unknown
    /\ asking' = {}
    /\ Render(debounced, [found EXCEPT ![q.query] = q.answer], list)
    /\ UNCHANGED <<server, failures, open, query, timer, screen>>

SearchFails(q) ==
    /\ failures < MaxFailures /\ failures' = failures + 1
    /\ asking' = {}
    /\ UNCHANGED <<server, list, found, palette, screen>>

ListLands ==
    /\ list # order
    /\ Render(debounced, found, order)
    /\ UNCHANGED <<server, asking, failures, open, query, timer, screen>>

-----------------------------------------------------------------------------
(* The cursor, from 0.                                                     *)

ArrowDown ==
    /\ open
    /\ active' = Least(active + 1, Len(rows) - 1)
    /\ UNCHANGED <<server, data, open, query, debounced, timer, screen>>

ArrowUp ==
    /\ open
    /\ active' = IF active > 1 THEN active - 1 ELSE 0
    /\ UNCHANGED <<server, data, open, query, debounced, timer, screen>>

Hover(i) ==
    /\ open
    /\ active' = i - 1
    /\ UNCHANGED <<server, data, open, query, debounced, timer, screen>>

-----------------------------------------------------------------------------
(* Arriving at what was found.                                             *)

OnPage(c, h, m) == c # None /\ m # None /\ m.chat = c /\ m.message <= h[c]

Reruns(c, h, f) == <<f, c, IF c = None THEN 0 ELSE h[c]>> # <<focus, current, IF current = None THEN 0 ELSE held[current]>>

(* The conversation, the messages and the one to go to became this.        *)
Arrive(c, h, f) ==
    /\ current' = c /\ held' = h /\ focus' = f
    /\ lit' = IF Reruns(c, h, f) THEN OnPage(c, h, f) ELSE lit

MessageOf(row) == IF row.message = None THEN None ELSE row

Choose(row) ==
    /\ open' = FALSE /\ timer' = FALSE /\ asking' = {}
    /\ opened' = [row |-> row, query |-> query, hasty |-> timer] /\ openings' = openings + 1
    /\ Arrive(row.chat, held, MessageOf(row))
    /\ UNCHANGED <<server, list, found, failures, query, debounced, active>>

Enter == open /\ active + 1 \in DOMAIN rows /\ Choose(rows[active + 1])

Click(i) == open /\ Choose(rows[i])

(* From the sidebar.                                                       *)
Select(c) ==
    /\ ~open /\ c # current
    /\ Arrive(c, held, focus)
    /\ UNCHANGED <<server, data, palette, opened, openings>>

(* The conversation on the screen is read, for the first time or again.    *)
MessagesLand ==
    /\ current # None /\ held[current] # stored[current]
    /\ Arrive(current, [held EXCEPT ![current] = stored[current]], focus)
    /\ UNCHANGED <<server, data, palette, opened, openings>>

HighlightEnds ==
    /\ lit
    /\ focus' = None /\ lit' = FALSE
    /\ UNCHANGED <<server, data, palette, current, held, opened, openings>>

-----------------------------------------------------------------------------
Next ==
    \/ \E c \in Chats : Change(c) \/ Select(c)
    \/ Open \/ Close \/ Debounce \/ ListLands
    \/ \E text \in Words \union {None} : Type(text)
    \/ \E q \in asking : AnswerSearch(q) \/ SearchLands(q) \/ SearchFails(q)
    \/ ArrowDown \/ ArrowUp \/ Enter
    \/ \E i \in DOMAIN rows : Hover(i) \/ Click(i)
    \/ MessagesLand \/ HighlightEnds

-----------------------------------------------------------------------------
Matches(row, word) == word \in IF row.message = None THEN Titles[row.chat] ELSE Bodies[row.chat]

ChatsIn(s) == {s[i].chat : i \in DOMAIN s}

(* A search finds the latest conversations that match, however many there  *)
(* are that do not.  (GET /conversations/search)                           *)
LatestAreFound ==
    \A word \in Words :
        LET all == {c \in Chats : word \in Titles[c] \union Bodies[c]}
            left == all \ ChatsIn(Results(word))
            at(c) == CHOOSE i \in DOMAIN order : order[i] = c
        IN  /\ ChatsIn(Results(word)) \subseteq all
            /\ left # {} => /\ Cardinality(all \ left) = Limit
                            /\ \A c \in left, d \in all \ left : at(d) < at(c)

(* What a reader opens once the palette has taken in what was typed does   *)
(* match it.  (SearchDialog.tsx: useSearch(debounced))                     *)
WhatIsOpenedMatches ==
    opened # None => opened.hasty \/ opened.query = None \/ Matches(opened.row, opened.query)

(* The message that was opened is gone to and marked as soon as it is on   *)
(* the page, however late its conversation comes.  (App.tsx, onOpenResult) *)
ReachedWhenShown == OnPage(current, held, focus) => lit

=============================================================================
