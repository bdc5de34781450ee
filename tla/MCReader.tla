------------------------------- MODULE MCReader -------------------------------
(***************************************************************************)
(* What the reader sees and does: the conversation on the screen           *)
(* (Transcript), what is written and attached (Composer), the place in the *)
(* page (ScrollPin) and the search (SearchPalette).  They share no         *)
(* variable, so a behaviour exercises one of them, and all are in every    *)
(* state.                                                                  *)
(***************************************************************************)
EXTENDS Integers, FiniteSets

CONSTANTS Parts,        \* what is exercised
          None,
          Convs, here,                        \* Transcript, and where the reader writes
          MaxTurns, MaxQuestions, MaxEdits, MaxReloads,
          MaxAttached, Keys, MaxWords, MaxFiles, MaxPresses, MaxLost,         \* Composer
          Gap, Threshold, Views, MaxAbove, MaxBelow, MaxScrolls,              \* ScrollPin
          there, cat, dog                     \* SearchPalette

VARIABLES part,
          stored, run, open, cache, invalid, fetch, requests, generation, live, settled, settling,
          turns, edits, reloads,
          tray, uploads, draft, place, sends, watched, file, deletes, chats, questions, running,
          dismissed, overtaken, words, files, presses, lost,
          above, below, view, top, event, pinned, userScrolled, scrollable, programmatic, smooth,
          smoothing, resizing, seen, effects, busy, noted, reading, squeezed, scrolls,
          order, lengths, list, found, asking, shown, query, debounced, timer, active, current,
          held, focus, lit, opened, changes, failures, openings

transcriptVars ==
    <<stored, run, open, cache, invalid, fetch, requests, generation, live, settled, settling,
      turns, edits, reloads>>
composerVars ==
    <<tray, uploads, draft, place, sends, watched, file, deletes, chats, questions, running,
      dismissed, overtaken, words, files, presses, lost>>
scrollVars ==
    <<above, below, view, top, event, pinned, userScrolled, scrollable, programmatic, smooth,
      smoothing, resizing, seen, effects, busy, noted, reading, squeezed, scrolls>>
searchVars ==
    <<order, lengths, list, found, asking, shown, query, debounced, timer, active, current, held,
      focus, lit, opened, changes, failures, openings>>

-----------------------------------------------------------------------------
(* Somebody who waits and leaves for other conversations, and of whom only *)
(* a send is refused; and somebody who stays, writes whatever is loaded,   *)
(* and loads the page again.                                               *)
P == INSTANCE Transcript WITH
         Starts <- {here}, Refusals <- {"send"}, Patient <- TRUE, StoredFirst <- TRUE,
         MaxReloads <- 0, MaxRequests <- 1

I == INSTANCE Transcript WITH
         Starts <- {here}, Refusals <- {"send", "regenerate", "edit"}, Patient <- FALSE,
         StoredFirst <- FALSE, MaxTurns <- MaxQuestions, MaxRequests <- 1

(* Nothing is typed or attached while a question is sent.                  *)
B == INSTANCE Composer WITH Patient <- TRUE

(* The window or the composer changes the height of the view.              *)
V == INSTANCE ScrollPin WITH Allowed <- {"composer", "resize"}

(* One conversation with a word in its title and its text, and one with    *)
(* that word and another in its text.                                      *)
S == INSTANCE SearchPalette WITH
         Chats <- {here, there}, Words <- {cat, dog},
         Titles <- [c \in {here, there} |-> IF c = here THEN {cat} ELSE {}],
         Bodies <- [c \in {here, there} |-> IF c = here THEN {cat} ELSE {cat, dog}],
         Hits <- 1, Limit <- 1, Recent <- 2, MaxMessages <- 2, MaxChanges <- 1,
         MaxFailures <- 1, MaxOpenings <- 2, stored <- lengths, open <- shown

-----------------------------------------------------------------------------
ASSUME Assumptions ==
    /\ here \in Convs
    /\ P!TranscriptAssumption /\ I!TranscriptAssumption /\ P!NoneAssumption
    /\ B!ComposerAssumption /\ V!ScrollPinAssumption /\ S!SearchAssumption
    /\ None \notin Int

Init ==
    /\ part \in Parts
    /\ P!Init /\ (part # "patient" => open = here)
    /\ B!Init
    /\ V!Init /\ (part # "scroll" => view = CHOOSE v \in Views : TRUE)
    /\ S!Init

Next ==
    \/ /\ part = "patient" /\ P!Next
       /\ UNCHANGED <<part, composerVars, scrollVars, searchVars>>
    \/ /\ part = "impatient" /\ I!Next /\ open' = open
       /\ UNCHANGED <<part, composerVars, scrollVars, searchVars>>
    \/ /\ part = "composer" /\ B!Next
       /\ UNCHANGED <<part, transcriptVars, scrollVars, searchVars>>
    \/ /\ part = "scroll" /\ V!Next
       /\ UNCHANGED <<part, transcriptVars, composerVars, searchVars>>
    \/ /\ part = "search" /\ S!Next
       /\ UNCHANGED <<part, transcriptVars, composerVars, scrollVars>>

Spec == Init /\ [][Next]_<<part, transcriptVars, composerVars, scrollVars, searchVars>>

-----------------------------------------------------------------------------
(* A reply that was shown and is stored stays on the screen while its      *)
(* conversation is open, for a reader who waits for the page; a question   *)
(* that is shown stays for whoever does not (App.tsx, settle; queries.ts). *)
WhatIsShownStays ==
    [][ /\ part = "patient" => P!ReplyStaysOnScreen
        /\ part = "impatient" => I!QuestionStays ]_<<part, transcriptVars>>

(* Every word is in the field, on its way or in a question, no file that   *)
(* was taken is lost but by a key pressed early, and what the tray keeps   *)
(* can be sent (App.tsx, send()); and when nothing is under way, every     *)
(* message that is stored is shown.                                        *)
NothingIsLost ==
    /\ B!NothingTypedIsLost /\ B!NoFileIsLost /\ B!ReadyCanBeSent
    /\ part = "patient" => P!ShowsWhatIsStored

(* Whoever scrolled up to read is not moved, who follows goes on           *)
(* following, and a question that is being answered stays where it is      *)
(* (useScrollPin.ts, useTailSpace.ts).                                     *)
ReaderKeepsThePlace ==
    [][ /\ V!ReaderKeepsThePlace /\ V!OnlyTheReaderUnpins
        /\ V!QuestionHoldsStill ]_<<part, scrollVars>>

(* What the palette opens matches what it has taken in, is among the       *)
(* latest that do, and is reached when its message is on the page          *)
(* (SearchDialog.tsx, onOpenResult() in App.tsx).                          *)
SearchLeadsToTheMatch == S!WhatIsOpenedMatches /\ S!LatestAreFound /\ S!ReachedWhenShown
=============================================================================
