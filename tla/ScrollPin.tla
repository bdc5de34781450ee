----------------------------- MODULE ScrollPin ------------------------------
(***************************************************************************)
(* Where the reader is in the transcript (client/useScrollPin.ts,          *)
(* client/useTailSpace.ts and the effects of client/App.tsx between them). *)
(* Lengths are in units larger than the code's tolerances for rounding.    *)
(* The browser: a position is clamped when the content gets shorter, and   *)
(* one scroll event, for whatever happened since, comes a frame later; the *)
(* reader's scrolls are committed with their event.                        *)
(***************************************************************************)
EXTENDS Integers

CONSTANTS None,
          Gap,         \* TOP_GAP_PX
          Threshold,   \* PIN_THRESHOLD_PX
          Views,       \* heights of the viewport
          Allowed,     \* what may happen beyond the plain course of things
          MaxAbove,    \* bound: height of what precedes the last question
          MaxBelow,    \* bound: height of the last question and its reply
          MaxScrolls   \* bound: the reader's scrolls

ScrollPinAssumption ==
    /\ {Gap, Threshold, MaxAbove, MaxBelow, MaxScrolls} \subseteq Nat /\ Views \subseteq Nat
    /\ Allowed \subseteq {"resize",       \* the window changes its height
                          "composer",     \* the composer does
                          "window",       \* the reader scrolls within a guard window
                          "coincidence",  \* ... or to the position last set by the program
                          "event first"}  \* a scroll event comes before the effects of a render

VARIABLES above, below,   \* the content, before and from the last question
          view,           \* clientHeight
          top,            \* scrollTop
          event,          \* whether a scroll event is to come
          pinned, userScrolled, scrollable,
          programmatic,   \* programmaticTop
          smooth,         \* where a smooth scroll is going
          smoothing,      \* before smoothUntil
          resizing,       \* before resizeUntil
          seen,           \* where the question was on the screen at the last layout
          effects,        \* whether a render's effects are to run
          busy, noted,    \* a reply is streaming; what release() was last told
          reading,        \* history: the reader has scrolled away and not been back
          squeezed,       \* history: the composer took height while an event was to come
          scrolls

content == <<above, below, view>>
pin == <<pinned, userScrolled>>
vars == <<above, below, view, top, event, pinned, userScrolled, scrollable, programmatic, smooth,
          smoothing, resizing, seen, effects, busy, noted, reading, squeezed, scrolls>>

Lengths ==
    /\ above \in Nat /\ below \in Nat /\ view \in Nat /\ top \in Nat /\ scrolls \in Nat
    /\ programmatic \in Nat \union {None} /\ smooth \in Nat \union {None}
    /\ seen \in Int \union {None}
Flags ==
    /\ event \in BOOLEAN /\ pinned \in BOOLEAN /\ userScrolled \in BOOLEAN
    /\ scrollable \in BOOLEAN /\ smoothing \in BOOLEAN /\ resizing \in BOOLEAN
    /\ effects \in BOOLEAN /\ busy \in BOOLEAN /\ reading \in BOOLEAN /\ squeezed \in BOOLEAN
    /\ noted \in BOOLEAN \X Nat
TypeOK == Lengths /\ Flags

-----------------------------------------------------------------------------
(* The reserve below the last turn.                                        *)
TailOf(b, v) == IF b = 0 \/ v < Gap + b THEN 0 ELSE v - Gap - b

Least(x, y) == IF x <= y THEN x ELSE y

Height(a, b, v) == a + b + TailOf(b, v)
End(a, b, v) == IF Height(a, b, v) <= v THEN 0 ELSE Height(a, b, v) - v
Bottom == End(above, below, view)
AtBottom(t) == Bottom - t <= Threshold

Overflows == Height(above, below, view) > view

(* A transcript that is not there yet has no height.                       *)
Contents == {<<0, 0>>} \union ((0 .. MaxAbove) \X (1 .. MaxBelow))

Init ==
    /\ above = 0 /\ below = 0 /\ view \in Views
    /\ top = 0 /\ event = FALSE
    /\ pinned = TRUE /\ userScrolled = FALSE /\ scrollable = FALSE /\ programmatic = None
    /\ smooth = None /\ smoothing = FALSE /\ resizing = FALSE
    /\ seen = None /\ effects = TRUE /\ busy = FALSE /\ noted = <<FALSE, 0>>
    /\ reading = FALSE /\ squeezed = FALSE /\ scrolls = 0

(* The program goes there at once.                                         *)
GoTo(t) ==
    /\ programmatic' = t /\ top' = t
    /\ event' = (event \/ t # top) /\ smooth' = None

-----------------------------------------------------------------------------
(* Scroll events.                                                          *)

SmoothIsOurs == smoothing

(* onScroll()                                                              *)
OnScroll(t) ==
    IF SmoothIsOurs THEN UNCHANGED <<pinned, userScrolled, programmatic, scrollable>>
    ELSE IF resizing THEN
        pinned' = (pinned \/ AtBottom(t)) /\ UNCHANGED <<userScrolled, programmatic, scrollable>>
    ELSE IF programmatic = t THEN programmatic' = None /\ UNCHANGED <<pinned, userScrolled,
                                                                      scrollable>>
    ELSE /\ pinned' = AtBottom(t) /\ userScrolled' = ~AtBottom(t)
         /\ scrollable' = Overflows
         /\ UNCHANGED programmatic

Dispatch ==
    /\ event /\ (effects => "event first" \in Allowed)
    /\ event' = FALSE
    /\ OnScroll(top)
    /\ squeezed' = FALSE
    /\ reading' = (reading /\ ~AtBottom(top))
    /\ UNCHANGED <<content, top, smooth, smoothing, resizing, seen, effects, busy, noted, scrolls>>

ReaderScrolls(t) ==
    /\ scrolls < MaxScrolls /\ t # top /\ t <= Bottom
    /\ effects => "event first" \in Allowed
    /\ smoothing \/ resizing => "window" \in Allowed
    /\ programmatic = t => "coincidence" \in Allowed
    /\ scrolls' = scrolls + 1
    /\ top' = t /\ event' = FALSE /\ smooth' = None
    /\ OnScroll(t)
    /\ squeezed' = FALSE
    /\ reading' = ~AtBottom(t)
    /\ UNCHANGED <<content, smoothing, resizing, seen, effects, busy, noted>>

-----------------------------------------------------------------------------
(* Layout.                                                                 *)

(* How far the question has come down since the last layout.  The reader's *)
(* position is left alone.                                                 *)
Drift(a, t) ==
    IF seen = None \/ userScrolled \/ a - t <= seen THEN 0 ELSE a - t - seen

(* The content or the viewport has become this; adjustBy().                *)
Layout(a, b, v) ==
    LET clamped == Least(top, End(a, b, v))
        t == Least(clamped + Drift(a, clamped), End(a, b, v))
    IN  /\ above' = a /\ below' = b /\ view' = v
        /\ top' = t
        /\ programmatic' = IF t = clamped THEN programmatic ELSE t
        /\ event' = (event \/ t # top)
        /\ smooth' = IF t = clamped THEN smooth ELSE None
        /\ seen' = IF b = 0 THEN None ELSE a - t

(* The transcript arrives, or one of its heights changes: a token, an      *)
(* image, a table that is laid out again.                                  *)
Render(a, b) ==
    /\ b # 0
    /\ below # 0 => (a # above) # (b # below)
    /\ Layout(a, b, view)
    /\ effects' = TRUE
    /\ UNCHANGED <<pin, scrollable, smoothing, resizing, busy, noted, reading, squeezed, scrolls>>

(* The composer takes or gives back height.                                *)
ComposerGrows(v) ==
    /\ "composer" \in Allowed /\ v # view
    /\ Layout(above, below, v)
    /\ effects' = (effects \/ TailOf(below, v) # TailOf(below, view))
    /\ squeezed' = (squeezed \/ (event /\ v < view))
    /\ UNCHANGED <<pin, scrollable, smoothing, resizing, busy, noted, reading, scrolls>>

(* markResize()                                                            *)
Resize(v) ==
    /\ "resize" \in Allowed /\ v # view
    /\ resizing' = TRUE
    /\ IF pinned
       THEN /\ view' = v /\ UNCHANGED <<above, below>>
            /\ GoTo(End(above, below, v))
            /\ seen' = IF below = 0 THEN None ELSE above - top'
       ELSE Layout(above, below, v)
    /\ effects' = (effects \/ TailOf(below, v) # TailOf(below, view))
    /\ UNCHANGED <<pin, scrollable, smoothing, busy, noted, reading, squeezed, scrolls>>

ResizeIsOver ==
    /\ resizing /\ ~event
    /\ resizing' = FALSE
    /\ UNCHANGED <<content, top, event, pin, scrollable, programmatic, smooth, smoothing, seen,
                   effects, busy, noted, reading, squeezed, scrolls>>

-----------------------------------------------------------------------------
(* What the application does.                                              *)

Tail == TailOf(below, view)

(* A slip: the end is followed in any case.                                *)
FollowsAlways == TRUE
Follows == pinned

Measured == Overflows

(* onContentChange(), then release() when the reply has filled its room.   *)
Effects ==
    /\ effects /\ effects' = FALSE
    /\ scrollable' = Measured
    /\ IF Follows THEN GoTo(Bottom) ELSE UNCHANGED <<programmatic, top, event, smooth>>
    /\ noted' = <<busy, Tail>>
    /\ pinned' = (pinned /\ ~(busy /\ Tail = 0 /\ noted # noted'))
    /\ UNCHANGED <<content, userScrolled, smoothing, resizing, seen, busy, reading, squeezed,
                   scrolls>>

ForgetUserScrolled == FALSE

(* A question is asked: pin(), and it is rendered.                         *)
Ask ==
    /\ ~busy /\ ~effects /\ above + below <= MaxAbove
    /\ pinned' = TRUE /\ userScrolled' = ForgetUserScrolled
    /\ above' = above + below /\ below' = 1
    /\ GoTo(Bottom)
    /\ seen' = above' - top' /\ effects' = TRUE /\ reading' = FALSE
    /\ UNCHANGED <<view, scrollable, smoothing, resizing, busy, noted, squeezed, scrolls>>

Stream(b) ==
    /\ busy # b /\ below # 0
    /\ busy' = b /\ effects' = TRUE
    /\ UNCHANGED <<content, top, event, pin, scrollable, programmatic, smooth, smoothing, resizing,
                   seen, noted, reading, squeezed, scrolls>>

ShowJumpToLatest == ~pinned /\ scrollable

JumpToLatest ==
    /\ ShowJumpToLatest
    /\ pinned' = TRUE /\ userScrolled' = ForgetUserScrolled /\ programmatic' = None
    /\ smoothing' = TRUE /\ smooth' = Bottom
    /\ reading' = FALSE
    /\ UNCHANGED <<content, top, event, scrollable, resizing, seen, effects, busy, noted, squeezed,
                   scrolls>>

SmoothScroll(t) ==
    /\ smooth # None /\ (t > top \/ smooth <= top) /\ t <= Least(smooth, Bottom)
    /\ top' = t /\ smooth' = IF t = Least(smooth, Bottom) THEN None ELSE smooth
    /\ event' = TRUE
    /\ UNCHANGED <<content, pin, scrollable, programmatic, smoothing, resizing, seen, effects, busy,
                   noted, reading, squeezed, scrolls>>

(* The window is longer than the scroll.                                   *)
SmoothIsOver ==
    /\ smoothing /\ smooth = None /\ ~event
    /\ smoothing' = FALSE
    /\ UNCHANGED <<content, top, event, pin, scrollable, programmatic, smooth, resizing, seen,
                   effects, busy, noted, reading, squeezed, scrolls>>

(* Another conversation: reset().                                          *)
Reset(a, b) ==
    /\ above' = a /\ below' = b
    /\ top' = End(a, b, view) /\ event' = (event \/ top' # top)
    /\ pinned' = TRUE /\ userScrolled' = FALSE /\ programmatic' = None
    /\ smooth' = None /\ smoothing' = FALSE /\ resizing' = FALSE
    /\ scrollable' = (Height(a, b, view) > view)
    /\ seen' = (IF b = 0 THEN None ELSE a - top')
    /\ effects' = (effects \/ <<a, b>> # <<above, below>>)
    /\ busy' = FALSE /\ reading' = FALSE
    /\ UNCHANGED <<view, noted, squeezed, scrolls>>

-----------------------------------------------------------------------------
Next ==
    \/ Dispatch \/ ResizeIsOver \/ Effects \/ Ask \/ JumpToLatest \/ SmoothIsOver
    \/ \E t \in 0 .. Bottom : ReaderScrolls(t) \/ SmoothScroll(t)
    \/ \E v \in Views : ComposerGrows(v) \/ Resize(v)
    \/ \E c \in Contents : Render(c[1], c[2]) \/ Reset(c[1], c[2])
    \/ \E b \in BOOLEAN : Stream(b)

-----------------------------------------------------------------------------
(* Whoever has scrolled up to read stays there, whatever is rendered, until *)
(* they scroll, jump, ask or leave.  (useScrollPin: "yanked to the bottom  *)
(* on the next token")                                                     *)
ReaderKeepsThePlace ==
    reading /\ reading' /\ scrolls' = scrolls => top' = Least(top, Bottom')

(* Only the reader, or a reply that has filled its room, stops the view    *)
(* from following, unless the composer has taken height since the position *)
(* changed.  (useScrollPin: "Everything else is the user.")                *)
OnlyTheReaderUnpins ==
    pinned /\ ~pinned' => scrolls' # scrolls \/ (busy /\ Tail = 0) \/ squeezed

(* While it is answered, a question the reader has not scrolled away from  *)
(* does not slide down the screen when what precedes it grows.             *)
(* (useTailSpace)                                                          *)
QuestionHoldsStill ==
    busy /\ busy' /\ above' # above /\ ~userScrolled /\ seen # None
        => above' - top' <= seen \/ top' = Bottom'
=============================================================================
