--------------------------- MODULE Reader_proofs ---------------------------
(***************************************************************************)
(* For any conversations, files, heights and bounds: nothing that is typed *)
(* or attached is lost, what is shown stays and is what is stored, and     *)
(* whoever reads is not moved.                                             *)
(***************************************************************************)
EXTENDS MCReader, FiniteSetTheorems, SequenceTheorems, TLAPS

vars == <<part, transcriptVars, composerVars, scrollVars, searchVars>>

-----------------------------------------------------------------------------
(* The place in the page.                                                  *)

(* The position is on the page, and a smooth scroll is in its window.      *)
Fits == top <= V!Bottom /\ (smooth # None => smoothing)

(* Whoever has scrolled away is not followed.                              *)
Away == reading => ~pinned /\ userScrolled /\ smooth = None

(* While the view follows, an event the program would take for the         *)
(* reader's is its own, or one at the end.                                 *)
Explained ==
    pinned /\ event /\ ~smoothing /\ ~resizing /\ ~effects /\ ~squeezed
        => programmatic = top \/ V!AtBottom(top)

(* The question is looked for as soon as there is one.                     *)
Seen == below = 0 <=> seen = None

Placed == V!Lengths /\ Fits /\ Away /\ Explained /\ Seen

ScrollInv == V!Flags /\ Placed

LEMMA EndIsNat ==
  ASSUME Assumptions, NEW a \in Nat, NEW b \in Nat, NEW v \in Nat
  PROVE  /\ V!TailOf(b, v) \in Nat
         /\ V!Height(a, b, v) \in Nat
         /\ V!End(a, b, v) \in Nat
<1>1. Gap \in Nat
  BY DEF Assumptions, V!ScrollPinAssumption
<1>2. QED
  BY <1>1 DEF V!TailOf, V!Height, V!End

LEMMA LayoutFits ==
  ASSUME Assumptions, V!TypeOK, Seen,
         NEW a \in Nat, NEW b \in Nat, NEW v \in Nat, V!Layout(a, b, v),
         below # 0 => b # 0
  PROVE  /\ above' \in Nat /\ below' \in Nat /\ view' \in Nat /\ top' \in Nat
         /\ programmatic' \in Nat \union {None} /\ smooth' \in Nat \union {None}
         /\ seen' \in Int \union {None}
         /\ top' <= V!Bottom' /\ (smooth' # None => smooth' = smooth)
         /\ b = 0 <=> seen' = None
<1> DEFINE end == V!End(a, b, v)
<1>1. end \in Nat /\ None \notin Int
  BY EndIsNat DEF Assumptions
<1> HIDE DEF end
<1> DEFINE clamped == V!Least(top, end)
           t == V!Least(clamped + V!Drift(a, clamped), end)
<1>2. clamped \in Nat
  BY <1>1 DEF V!Least, V!TypeOK, V!Lengths
<1> HIDE DEF clamped
<1>3. V!Drift(a, clamped) \in Nat
  BY <1>1, <1>2 DEF V!Drift, V!TypeOK, V!Lengths
<1>4. t \in Nat /\ t <= end
  BY <1>1, <1>2, <1>3 DEF V!Least
<1> HIDE DEF t
<1>5. /\ above' = a /\ below' = b /\ view' = v /\ top' = t
      /\ programmatic' = IF t = clamped THEN programmatic ELSE t
      /\ event' = (event \/ t # top)
      /\ smooth' = IF t = clamped THEN smooth ELSE None
      /\ seen' = IF b = 0 THEN None ELSE a - t
  BY DEF V!Layout, end, clamped, t
<1>6. V!Bottom' = end
  BY <1>5 DEF V!Bottom, end
<1>7. QED
  BY <1>1, <1>4, <1>5, <1>6 DEF V!TypeOK, V!Lengths

LEMMA ScrollInit ==
  ASSUME Assumptions, V!Init
  PROVE  ScrollInv
<1>1. Views \subseteq Nat
  BY DEF Assumptions, V!ScrollPinAssumption
<1>2. V!Lengths
  BY <1>1 DEF V!Init, V!Lengths
<1>3. V!Flags
  BY DEF V!Init, V!Flags
<1>4. V!End(above, below, view) \in Nat
  BY <1>2, EndIsNat DEF V!Lengths
<1>5. Fits
  BY <1>4 DEF V!Init, V!Bottom, Fits
<1>6. Away /\ Explained /\ Seen
  BY DEF V!Init, Away, Explained, Seen
<1>7. QED
  BY <1>2, <1>3, <1>5, <1>6 DEF ScrollInv, Placed

LEMMA OnScrollKeeps ==
  ASSUME Assumptions, V!TypeOK, NEW t \in Nat, V!OnScroll(t)
  PROVE  /\ pinned' \in BOOLEAN /\ userScrolled' \in BOOLEAN /\ scrollable' \in BOOLEAN
         /\ programmatic' \in Nat \union {None}
         /\ pinned /\ ~pinned' => ~V!AtBottom(t) /\ ~smoothing /\ ~resizing /\ programmatic # t
         /\ ~V!AtBottom(t) /\ ~pinned => ~pinned'
         /\ ~V!AtBottom(t) /\ userScrolled => userScrolled'
         /\ ~smoothing /\ ~resizing /\ programmatic # t /\ ~V!AtBottom(t) =>
                ~pinned' /\ userScrolled'
<1>1. V!AtBottom(t) \in BOOLEAN /\ V!Overflows \in BOOLEAN
  BY DEF V!AtBottom, V!Overflows
<1> DEFINE bottom == V!AtBottom(t)
           overflows == V!Overflows
<1>2. \/ UNCHANGED <<pinned, userScrolled, programmatic, scrollable>>
      \/ pinned' = (pinned \/ bottom) /\ UNCHANGED <<userScrolled, programmatic, scrollable>>
         /\ resizing
      \/ programmatic' = None /\ UNCHANGED <<pinned, userScrolled, scrollable>> /\ programmatic = t
      \/ pinned' = bottom /\ userScrolled' = ~bottom /\ scrollable' = overflows
         /\ UNCHANGED programmatic /\ ~smoothing /\ ~resizing /\ programmatic # t
  BY DEF V!OnScroll, V!SmoothIsOurs
<1>3. ~smoothing /\ ~resizing /\ programmatic # t => pinned' = bottom /\ userScrolled' = ~bottom
  BY DEF V!OnScroll, V!SmoothIsOurs
<1>4. bottom \in BOOLEAN /\ overflows \in BOOLEAN
  BY <1>1
<1> HIDE DEF bottom, overflows
<1>5. programmatic' \in Nat \union {None}
  BY <1>2 DEF V!TypeOK, V!Lengths
<1>6. pinned' \in BOOLEAN /\ userScrolled' \in BOOLEAN /\ scrollable' \in BOOLEAN
  BY <1>2, <1>4 DEF V!TypeOK, V!Flags
<1>7. QED
  BY <1>2, <1>3, <1>4, <1>5, <1>6 DEF bottom

LEMMA FlagsStep ==
  ASSUME Assumptions, V!TypeOK, V!Next
  PROVE  V!Flags'
<1>0. V!Flags /\ Views \subseteq Nat /\ above \in Nat /\ below \in Nat /\ view \in Nat
  BY DEF V!TypeOK, V!Lengths, Assumptions, V!ScrollPinAssumption
<1> USE DEF V!Flags, V!content, V!pin
<1>a. V!Overflows \in BOOLEAN
  BY DEF V!Overflows
<1>b. V!Tail \in Nat
  BY <1>0, EndIsNat DEF V!Tail
<1>1. CASE V!Dispatch
  <2>1. V!OnScroll(top) /\ top \in Nat
    BY <1>1 DEF V!Dispatch, V!TypeOK, V!Lengths
  <2>2. pinned' \in BOOLEAN /\ userScrolled' \in BOOLEAN /\ scrollable' \in BOOLEAN
    BY <2>1, OnScrollKeeps
  <2>3. QED
    BY <1>0, <1>1, <2>2 DEF V!Dispatch
<1>2. CASE V!ResizeIsOver
  BY <1>0, <1>2 DEF V!ResizeIsOver
<1>3. CASE V!Effects
  <2>1. event' \in BOOLEAN /\ scrollable' \in BOOLEAN /\ pinned' \in BOOLEAN
    BY <1>0, <1>3, <1>a DEF V!Effects, V!GoTo, V!Follows, V!Measured
  <2>2. noted' \in BOOLEAN \X Nat
    BY <1>0, <1>3, <1>b DEF V!Effects
  <2>3. QED
    BY <1>0, <1>3, <2>1, <2>2 DEF V!Effects
<1>4. CASE V!Ask
  BY <1>0, <1>4 DEF V!Ask, V!GoTo, V!ForgetUserScrolled
<1>5. CASE V!JumpToLatest
  BY <1>0, <1>5 DEF V!JumpToLatest, V!ForgetUserScrolled
<1>6. CASE V!SmoothIsOver
  BY <1>0, <1>6 DEF V!SmoothIsOver
<1>7. ASSUME NEW t \in 0 .. V!Bottom, V!ReaderScrolls(t)
      PROVE  V!Flags'
  <2>1. V!OnScroll(t) /\ t \in Nat
    BY <1>7 DEF V!ReaderScrolls
  <2>2. pinned' \in BOOLEAN /\ userScrolled' \in BOOLEAN /\ scrollable' \in BOOLEAN
    BY <2>1, OnScrollKeeps
  <2>3. QED
    BY <1>0, <1>7, <2>2 DEF V!ReaderScrolls
<1>8. ASSUME NEW t \in 0 .. V!Bottom, V!SmoothScroll(t)
      PROVE  V!Flags'
  BY <1>0, <1>8 DEF V!SmoothScroll
<1>9. ASSUME NEW v \in Views, V!ComposerGrows(v)
      PROVE  V!Flags'
  BY <1>0, <1>9 DEF V!ComposerGrows, V!Layout
<1>10. ASSUME NEW v \in Views, V!Resize(v)
       PROVE  V!Flags'
  <2>1. event' \in BOOLEAN
    BY <1>0, <1>10 DEF V!Resize, V!Layout, V!GoTo
  <2>2. QED
    BY <1>0, <1>10, <2>1 DEF V!Resize
<1>11. ASSUME NEW c \in V!Contents, V!Render(c[1], c[2])
       PROVE  V!Flags'
  BY <1>0, <1>11 DEF V!Render, V!Layout
<1>12. ASSUME NEW c \in V!Contents, V!Reset(c[1], c[2])
       PROVE  V!Flags'
  <2>1. scrollable' \in BOOLEAN
    BY <1>12 DEF V!Reset
  <2>2. effects' \in BOOLEAN /\ event' \in BOOLEAN
    BY <1>0, <1>12 DEF V!Reset
  <2>3. QED
    BY <1>0, <1>12, <2>1, <2>2 DEF V!Reset
<1>13. ASSUME NEW b \in BOOLEAN, V!Stream(b)
       PROVE  V!Flags'
  BY <1>0, <1>13 DEF V!Stream
<1>14. QED
  BY <1>1, <1>2, <1>3, <1>4, <1>5, <1>6, <1>7, <1>8, <1>9, <1>10, <1>11, <1>12, <1>13 DEF V!Next

LEMMA PlacedStep ==
  ASSUME Assumptions, ScrollInv, V!Next
  PROVE  Placed'
<1>0. /\ None \notin Int /\ Views \subseteq Nat
      /\ {Gap, Threshold, MaxAbove, MaxBelow, MaxScrolls} \subseteq Nat
      /\ V!TypeOK /\ V!Lengths /\ Fits /\ Away /\ Explained /\ Seen
  BY DEF Assumptions, V!ScrollPinAssumption, ScrollInv, Placed, V!TypeOK
<1>a. V!Bottom \in Nat
  BY <1>0, EndIsNat DEF V!Lengths, V!Bottom
<1>1. CASE V!Dispatch
  <2>1. V!OnScroll(top)
    BY <1>1 DEF V!Dispatch
  <2>2. V!Lengths'
    BY <1>0, <1>1, <2>1, OnScrollKeeps DEF V!Dispatch, V!Lengths, V!content, V!AtBottom
  <2>3. V!Bottom' = V!Bottom
    BY <1>1 DEF V!Dispatch, V!Bottom, V!content
  <2>4. Fits' /\ Explained' /\ Seen'
    BY <1>0, <1>1, <2>3 DEF V!Dispatch, Fits, Explained, Seen, V!content
  <2>5. Away'
    BY <1>0, <1>1, <2>1, OnScrollKeeps DEF V!Dispatch, Away, V!Lengths
  <2>6. QED
    BY <2>2, <2>4, <2>5 DEF Placed
<1>2. CASE V!ResizeIsOver
  <2>1. V!Bottom' = V!Bottom
    BY <1>2 DEF V!ResizeIsOver, V!content, V!Bottom
  <2>2. V!Lengths' /\ Fits' /\ Seen'
    BY <1>0, <1>2, <2>1 DEF V!ResizeIsOver, V!Lengths, V!content, V!pin, Fits, Seen
  <2>3. Away' /\ Explained'
    BY <1>0, <1>2, <2>1 DEF V!ResizeIsOver, V!content, V!pin, Away, Explained, V!AtBottom
  <2>4. QED
    BY <2>2, <2>3 DEF Placed
<1>3. CASE V!Effects
  <2>1. V!Bottom' = V!Bottom /\ UNCHANGED <<above, below, view>>
    BY <1>3 DEF V!Effects, V!Bottom, V!content
  <2>2. V!Lengths'
    BY <1>0, <1>3, <1>a, <2>1 DEF V!Effects, V!Lengths, V!GoTo, V!Follows
  <2>3. Fits'
    BY <1>3, <1>0, <1>a, <2>1 DEF V!Effects, V!Follows, V!GoTo, Fits
  <2>4. Away' /\ Seen'
    BY <1>0, <1>3, <2>1 DEF V!Effects, V!Follows, V!GoTo, Away, Seen
  <2>5. Explained'
    BY <1>3, <2>1 DEF V!Effects, V!Follows, V!GoTo, Explained
  <2>6. QED
    BY <2>2, <2>3, <2>4, <2>5 DEF Placed
<1>4. CASE V!Ask
  <2>1. above' = above + below /\ below' = 1 /\ view' = view
    BY <1>4 DEF V!Ask
  <2>2. V!Bottom <= V!Bottom'
    BY <1>0, <2>1 DEF V!Bottom, V!End, V!Height, V!TailOf, V!Lengths
  <2>3. V!Lengths'
    BY <1>4, <1>0, <1>a DEF V!Ask, V!Lengths, V!GoTo, V!ForgetUserScrolled
  <2>4. Fits'
    BY <1>4, <1>0, <1>a, <2>2, <2>3 DEF V!Ask, V!GoTo, Fits, V!Lengths
  <2>5. Away' /\ Explained' /\ Seen'
    BY <1>4, <1>0, <1>a DEF V!Ask, V!GoTo, Away, Explained, Seen, V!Lengths
  <2>6. QED
    BY <2>3, <2>4, <2>5 DEF Placed
<1>5. CASE V!JumpToLatest
  BY <1>0, <1>a, <1>5
  DEF Placed, V!JumpToLatest, V!ForgetUserScrolled, V!Lengths, V!content, Fits, Away, Explained, Seen, V!Bottom
<1>6. CASE V!SmoothIsOver
  <2>1. V!Bottom' = V!Bottom
    BY <1>6 DEF V!SmoothIsOver, V!content, V!Bottom
  <2>2. V!Lengths' /\ Fits' /\ Seen'
    BY <1>0, <1>6, <2>1 DEF V!SmoothIsOver, V!Lengths, V!content, V!pin, Fits, Seen
  <2>3. Away' /\ Explained'
    BY <1>0, <1>6, <2>1 DEF V!SmoothIsOver, V!content, V!pin, Away, Explained, V!AtBottom
  <2>4. QED
    BY <2>2, <2>3 DEF Placed
<1>7. ASSUME NEW t \in 0 .. V!Bottom, V!ReaderScrolls(t)
      PROVE  Placed'
  <2>1. t \in Nat /\ t <= V!Bottom /\ V!OnScroll(t) /\ V!Bottom' = V!Bottom
    BY <1>7, <1>a DEF V!ReaderScrolls, V!content, V!Bottom
  <2>2. V!Lengths'
    BY <1>0, <1>7, <2>1, OnScrollKeeps DEF V!ReaderScrolls, V!Lengths, V!content, V!AtBottom
  <2>3. Fits' /\ Explained' /\ Seen'
    BY <1>0, <1>7, <2>1 DEF V!ReaderScrolls, Fits, Explained, Seen, V!content
  <2>4. Away'
    BY <1>0, <1>7, <2>1, OnScrollKeeps DEF V!ReaderScrolls, Away
  <2>5. QED
    BY <2>2, <2>3, <2>4 DEF Placed
<1>8. ASSUME NEW t \in 0 .. V!Bottom, V!SmoothScroll(t)
      PROVE  Placed'
  <2>1. t \in Nat /\ t <= V!Bottom /\ V!Bottom' = V!Bottom /\ smoothing
    BY <1>0, <1>8, <1>a DEF V!SmoothScroll, V!content, V!Bottom, Fits
  <2>2. QED
    BY <1>0, <1>8, <2>1
    DEF Placed, V!SmoothScroll, V!Lengths, V!content, V!pin, Fits, Away, Explained, Seen
<1>9. ASSUME NEW v \in Views, V!ComposerGrows(v)
      PROVE  Placed'
  <2>1. v \in Nat /\ V!Layout(above, below, v)
    BY <1>0, <1>9 DEF V!ComposerGrows
  <2>2. /\ above' \in Nat /\ below' = below /\ view' \in Nat /\ top' \in Nat
        /\ programmatic' \in Nat \union {None} /\ smooth' \in Nat \union {None}
        /\ seen' \in Int \union {None} /\ (below = 0 <=> seen' = None)
        /\ top' <= V!Bottom' /\ (smooth' # None => smooth' = smooth)
    BY <1>0, <2>1, LayoutFits DEF V!Lengths, V!Layout
  <2>3. /\ UNCHANGED <<pinned, userScrolled, smoothing, resizing, reading, scrolls>>
        /\ effects => effects'
        /\ squeezed' = (squeezed \/ (event /\ v < view))
    BY <1>9 DEF V!ComposerGrows, V!pin
  <2>4. V!Lengths' /\ Fits' /\ Seen'
    BY <1>0, <2>2, <2>3 DEF V!Lengths, Fits, Seen
  <2>5. Away'
    BY <1>0, <2>2, <2>3 DEF Away
  <2> DEFINE end == V!End(above, below, v)
             clamped == V!Least(top, end)
             t == V!Least(clamped + V!Drift(above, clamped), end)
  <2>6. end \in Nat /\ V!Bottom' = end
    BY <1>0, <2>1, EndIsNat DEF V!Lengths, V!Layout, V!Bottom
  <2>7. /\ top' = t /\ programmatic' = IF t = clamped THEN programmatic ELSE t
        /\ event' = (event \/ t # top)
    BY <2>1 DEF V!Layout
  <2>8. clamped = top \/ clamped = end
    BY DEF V!Least
  <2>9. ~effects' /\ view < v => end <= V!Bottom
    <3>1. ~effects' => V!TailOf(below, v) = V!TailOf(below, view)
      BY <1>9 DEF V!ComposerGrows
    <3>2. V!TailOf(below, v) \in Nat
      BY <1>0, <2>1, EndIsNat DEF V!Lengths
    <3>3. QED
      BY <1>0, <2>1, <3>1, <3>2 DEF V!Lengths, V!End, V!Height, V!Bottom
  <2>10. view < v \/ v < view
    BY <1>0, <1>9, <2>1 DEF V!ComposerGrows, V!Lengths
  <2> HIDE DEF end, clamped, t
  <2>11. end - end <= Threshold
    BY <1>0, <2>6
  <2>12. Explained'
    <3>1. SUFFICES ASSUME pinned, event', ~smoothing, ~resizing, ~effects', ~squeezed', t = clamped,
                          programmatic # t
                   PROVE  end - t <= Threshold
      BY <2>3, <2>6, <2>7 DEF Explained, V!AtBottom
    <3>2. CASE clamped = end
      BY <2>11, <3>1, <3>2
    <3>3. CASE clamped = top
      <4>1. event /\ view < v /\ ~effects /\ ~squeezed
        BY <2>3, <2>7, <2>10, <3>1, <3>3
      <4>2. V!Bottom - top <= Threshold
        BY <1>0, <3>1, <3>3, <4>1 DEF Explained, V!AtBottom
      <4>3. end <= V!Bottom
        BY <2>9, <3>1, <4>1
      <4>4. t = top
        BY <3>1, <3>3
      <4>5. QED
        BY <1>0, <1>a, <2>6, <4>2, <4>3, <4>4 DEF V!Lengths
    <3>4. QED
      BY <2>8, <3>2, <3>3
  <2>13. QED
    BY <2>4, <2>5, <2>12 DEF Placed
<1>10. ASSUME NEW v \in Views, V!Resize(v)
       PROVE  Placed'
  <2>1. /\ v \in Nat /\ resizing'
        /\ UNCHANGED <<pinned, userScrolled, smoothing, reading, scrolls>>
    BY <1>0, <1>10 DEF V!Resize, V!pin
  <2>2. CASE pinned
    <3>1. /\ view' = v /\ above' = above /\ below' = below
          /\ top' = V!End(above, below, v) /\ programmatic' = top' /\ smooth' = None
          /\ seen' = IF below = 0 THEN None ELSE above - top'
      BY <1>10, <2>2 DEF V!Resize, V!GoTo
    <3>2. top' \in Nat /\ V!Bottom' = top'
      BY <1>0, <2>1, <3>1, EndIsNat DEF V!Lengths, V!Bottom
    <3>3. V!Lengths' /\ Fits' /\ Seen'
      BY <1>0, <2>1, <3>1, <3>2 DEF V!Lengths, Fits, Seen
    <3>4. Away' /\ Explained'
      BY <1>0, <2>1, <2>2, <3>1 DEF Away, Explained
    <3>5. QED
      BY <3>3, <3>4 DEF Placed
  <2>3. CASE ~pinned
    <3>1. V!Layout(above, below, v)
      BY <1>10, <2>3 DEF V!Resize
    <3>2. /\ above' \in Nat /\ below' = below /\ view' \in Nat /\ top' \in Nat
          /\ programmatic' \in Nat \union {None} /\ smooth' \in Nat \union {None}
          /\ seen' \in Int \union {None} /\ (below = 0 <=> seen' = None)
          /\ top' <= V!Bottom' /\ (smooth' # None => smooth' = smooth)
      BY <1>0, <2>1, <3>1, LayoutFits DEF V!Lengths, V!Layout
    <3>3. V!Lengths' /\ Fits' /\ Seen'
      BY <1>0, <2>1, <3>2 DEF V!Lengths, Fits, Seen
    <3>4. Away' /\ Explained'
      BY <1>0, <2>1, <2>3, <3>2 DEF Away, Explained
    <3>5. QED
      BY <3>3, <3>4 DEF Placed
  <2>4. QED
    BY <2>2, <2>3
<1>11. ASSUME NEW c \in V!Contents, V!Render(c[1], c[2])
       PROVE  Placed'
  <2> DEFINE a == c[1]
             b == c[2]
  <2>1. a \in Nat /\ b \in Nat /\ b # 0 /\ V!Layout(a, b, view) /\ view \in Nat
    BY <1>0, <1>11 DEF V!Render, V!Contents, V!Lengths
  <2> HIDE DEF a, b
  <2>2. /\ above' \in Nat /\ below' = b /\ view' \in Nat /\ top' \in Nat
        /\ programmatic' \in Nat \union {None} /\ smooth' \in Nat \union {None}
        /\ seen' \in Int \union {None} /\ (b = 0 <=> seen' = None)
        /\ top' <= V!Bottom' /\ (smooth' # None => smooth' = smooth)
    BY <1>0, <2>1, LayoutFits DEF V!Layout
  <2>3. UNCHANGED <<pinned, userScrolled, smoothing, resizing, reading, scrolls>> /\ effects'
    BY <1>11 DEF V!Render, V!pin
  <2>4. V!Lengths' /\ Fits' /\ Seen'
    BY <1>0, <2>1, <2>2, <2>3 DEF V!Lengths, Fits, Seen
  <2>5. Away' /\ Explained'
    BY <1>0, <2>2, <2>3 DEF Away, Explained
  <2>6. QED
    BY <2>4, <2>5 DEF Placed
<1>12. ASSUME NEW c \in V!Contents, V!Reset(c[1], c[2])
       PROVE  Placed'
  <2> DEFINE a == c[1]
             b == c[2]
  <2>1. a \in Nat /\ b \in Nat
    BY <1>0, <1>12 DEF V!Contents
  <2>2. /\ above' = a /\ below' = b /\ view' = view /\ top' = V!End(a, b, view)
        /\ V!End(a, b, view) \in Nat
    BY <1>0, <1>12, <2>1, EndIsNat DEF V!Reset, V!Lengths
  <2>3. V!Bottom' = top'
    BY <2>2 DEF V!Bottom
  <2>4. V!Lengths' /\ Seen'
    BY <1>0, <1>12, <2>1, <2>2 DEF V!Reset, V!Lengths, Seen
  <2>5. Fits' /\ Away' /\ Explained'
    BY <1>0, <1>12, <2>2, <2>3 DEF V!Reset, Fits, Away, Explained, V!AtBottom
  <2>6. QED
    BY <2>4, <2>5 DEF Placed
<1>13. ASSUME NEW b \in BOOLEAN, V!Stream(b)
       PROVE  Placed'
  <2>1. V!Bottom' = V!Bottom
    BY <1>13 DEF V!Stream, V!content, V!Bottom
  <2>2. V!Lengths' /\ Fits' /\ Seen'
    BY <1>0, <1>13, <2>1 DEF V!Stream, V!Lengths, V!content, V!pin, Fits, Seen
  <2>3. Away' /\ Explained'
    BY <1>0, <1>13, <2>1 DEF V!Stream, V!content, V!pin, Away, Explained, V!AtBottom
  <2>4. QED
    BY <2>2, <2>3 DEF Placed
<1>14. QED
  BY <1>1, <1>2, <1>3, <1>4, <1>5, <1>6, <1>7, <1>8, <1>9, <1>10, <1>11, <1>12, <1>13 DEF V!Next
LEMMA ReadingStays ==
  ASSUME Assumptions, ScrollInv, V!Next
  PROVE  V!ReaderKeepsThePlace
<1>0. /\ Views \subseteq Nat /\ V!TypeOK /\ V!Lengths /\ Fits /\ Away /\ V!Bottom \in Nat
  BY EndIsNat DEF Assumptions, V!ScrollPinAssumption, ScrollInv, Placed, V!TypeOK, V!Lengths, V!Bottom
<1>1. SUFFICES ASSUME reading, reading', scrolls' = scrolls
               PROVE  top' = V!Least(top, V!Bottom')
  BY DEF V!ReaderKeepsThePlace
<1>2. ~pinned /\ userScrolled /\ smooth = None
  BY <1>0, <1>1 DEF Away
<1>3. top = V!Least(top, V!Bottom)
  BY <1>0 DEF Fits, V!Least, V!Lengths
<1>4. ASSUME NEW a \in Nat, NEW b \in Nat, NEW v \in Nat, V!Layout(a, b, v)
      PROVE  top' = V!Least(top, V!Bottom')
  <2>1. V!End(a, b, v) \in Nat /\ V!Bottom' = V!End(a, b, v)
    BY <1>4, EndIsNat DEF V!Layout, V!Bottom
  <2>2. top' = V!Least(V!Least(top, V!End(a, b, v)) + 0, V!End(a, b, v))
    BY <1>2, <1>4 DEF V!Layout, V!Drift
  <2>3. QED
    BY <1>0, <2>1, <2>2 DEF V!Least, V!Lengths
<1>5. ASSUME UNCHANGED <<above, below, view, top>>
      PROVE  top' = V!Least(top, V!Bottom')
  BY <1>3, <1>5 DEF V!Bottom
<1>6. CASE V!Dispatch \/ V!ResizeIsOver \/ V!SmoothIsOver \/ V!Effects \/ \E b \in BOOLEAN : V!Stream(b)
  BY <1>2, <1>5, <1>6
  DEF V!Dispatch, V!ResizeIsOver, V!SmoothIsOver, V!Effects, V!Stream, V!Follows, V!content
<1>7. CASE V!Ask \/ V!JumpToLatest \/ \E c \in V!Contents : V!Reset(c[1], c[2])
  BY <1>1, <1>7 DEF V!Ask, V!JumpToLatest, V!Reset
<1>8. CASE \E t \in 0 .. V!Bottom : V!ReaderScrolls(t) \/ V!SmoothScroll(t)
  BY <1>0, <1>1, <1>2, <1>8 DEF V!ReaderScrolls, V!SmoothScroll, V!Lengths
<1>9. CASE \E v \in Views : V!ComposerGrows(v) \/ V!Resize(v)
  BY <1>0, <1>2, <1>4, <1>9 DEF V!ComposerGrows, V!Resize, V!Lengths
<1>10. CASE \E c \in V!Contents : V!Render(c[1], c[2])
  <2>1. PICK c \in V!Contents : V!Render(c[1], c[2])
    BY <1>10
  <2>2. c[1] \in Nat /\ c[2] \in Nat /\ V!Layout(c[1], c[2], view) /\ view \in Nat
    BY <1>0, <2>1 DEF V!Contents, V!Render, V!Lengths
  <2>3. QED
    BY <1>4, <2>2
<1>11. QED
  BY <1>6, <1>7, <1>8, <1>9, <1>10 DEF V!Next

LEMMA FollowingStays ==
  ASSUME Assumptions, ScrollInv, V!Next
  PROVE  V!OnlyTheReaderUnpins
<1>0. V!TypeOK /\ V!Lengths /\ Explained
  BY DEF ScrollInv, Placed, V!TypeOK
<1>1. SUFFICES ASSUME pinned, ~pinned', scrolls' = scrolls, ~squeezed
               PROVE  busy /\ V!Tail = 0
  BY DEF V!OnlyTheReaderUnpins
<1>2. ~V!Dispatch
  <2>1. SUFFICES ASSUME V!Dispatch PROVE FALSE
    OBVIOUS
  <2>2. event /\ ~effects /\ V!OnScroll(top) /\ top \in Nat
    BY <1>0, <2>1 DEF V!Dispatch, V!Lengths
  <2>3. ~V!AtBottom(top) /\ ~smoothing /\ ~resizing /\ programmatic # top
    BY <1>0, <1>1, <2>2, OnScrollKeeps
  <2>4. QED
    BY <1>0, <1>1, <2>2, <2>3 DEF Explained
<1>3. CASE V!Effects
  BY <1>1, <1>3 DEF V!Effects
<1>4. ~ \E t \in 0 .. V!Bottom : V!ReaderScrolls(t)
  BY <1>0, <1>1 DEF V!ReaderScrolls, V!Lengths
<1>5. QED
  BY <1>1, <1>2, <1>3, <1>4
  DEF V!Next, V!ResizeIsOver, V!Ask, V!JumpToLatest, V!SmoothIsOver, V!SmoothScroll,
      V!ComposerGrows, V!Resize, V!Render, V!Reset, V!Stream, V!pin

LEMMA QuestionStill ==
  ASSUME Assumptions, ScrollInv, V!Next
  PROVE  V!QuestionHoldsStill
<1>0. /\ V!TypeOK /\ V!Lengths /\ Seen
  BY DEF ScrollInv, Placed, V!TypeOK
<1>1. SUFFICES ASSUME busy, busy', above' # above, ~userScrolled, seen # None
               PROVE  above' - top' <= seen \/ top' = V!Bottom'
  BY DEF V!QuestionHoldsStill
<1>2. PICK c \in V!Contents : V!Render(c[1], c[2])
  <2>1. ~ \E v \in Views : V!ComposerGrows(v) \/ V!Resize(v)
    BY <1>1 DEF V!ComposerGrows, V!Resize, V!Layout
  <2>2. ~V!Ask /\ ~ \E d \in V!Contents : V!Reset(d[1], d[2])
    BY <1>1 DEF V!Ask, V!Reset
  <2>3. /\ ~(V!Dispatch \/ V!ResizeIsOver \/ V!Effects \/ V!JumpToLatest \/ V!SmoothIsOver)
        /\ ~ \E t \in 0 .. V!Bottom : V!ReaderScrolls(t) \/ V!SmoothScroll(t)
        /\ ~ \E b \in BOOLEAN : V!Stream(b)
    BY <1>1
    DEF V!Dispatch, V!ResizeIsOver, V!Effects, V!JumpToLatest, V!SmoothIsOver, V!ReaderScrolls,
        V!SmoothScroll, V!Stream, V!content
  <2>4. QED
    BY <2>1, <2>2, <2>3 DEF V!Next
<1> DEFINE a == c[1]
           b == c[2]
           end == V!End(a, b, view)
           clamped == V!Least(top, end)
<1>3. a \in Nat /\ b \in Nat /\ V!Layout(a, b, view) /\ view \in Nat
  BY <1>0, <1>2 DEF V!Contents, V!Render, V!Lengths
<1>4. /\ above' = a /\ below' = b /\ view' = view
      /\ top' = V!Least(clamped + V!Drift(a, clamped), end)
  BY <1>3 DEF V!Layout
<1>5. end \in Nat /\ V!Bottom' = end /\ top \in Nat
  BY <1>0, <1>3, <1>4, EndIsNat DEF V!Bottom, V!Lengths
<1>6. seen \in Int
  BY <1>0, <1>1 DEF V!Lengths
<1> HIDE DEF a, b, end
<1>7. clamped \in Nat /\ clamped <= end
  BY <1>5 DEF V!Least
<1> HIDE DEF clamped
<1>8. V!Drift(a, clamped) = IF a - clamped <= seen THEN 0 ELSE a - clamped - seen
  BY <1>1 DEF V!Drift
<1>9. QED
  BY <1>3, <1>4, <1>5, <1>6, <1>7, <1>8 DEF V!Least
-----------------------------------------------------------------------------
(* What is written and attached.                                           *)

OneSend == \A a, b \in sends : a = b

(* A file has one chip, which is uploading while its answer is awaited.    *)
OneOfEach ==
    /\ \A i \in tray \union uploads : i.id <= files
    /\ \A f \in deletes : f <= files /\ \A i \in tray \union uploads : i.id # f
    /\ \A a, b \in tray : a.id = b.id => a = b
    /\ \A a, b \in uploads : a.id = b.id => a = b
    /\ \A u \in uploads, i \in tray : u.id = i.id => i.status = "uploading"

(* What has become of a file whose answer is awaited, and of one whose     *)
(* chip says so.                                                           *)
Stands ==
    /\ \A f \in B!Files : f > files => file[f] = "none"
    /\ \A u \in uploads : /\ file[u.id] = IF u.answer = "ready" THEN "pending" ELSE "none"
                          /\ u.id \in overtaken \/ \E i \in tray : i.id = u.id
    /\ \A i \in tray :
        /\ i.status = "error" => file[i.id] = "none"
        /\ i.status = "ready" =>
               \/ file[i.id] = "pending" \/ lost > 0
               \/ \E s \in sends : s.step = "send" /\ s.answer = "accepted" /\ i.id \in s.files

(* While a question is sent the field is empty, the tray holds its files,  *)
(* and once the server has it they are its own.                            *)
SendHolds ==
    \A s \in sends :
        /\ draft = {} /\ \A f \in s.files : \E i \in tray : i.id = f /\ i.status = "ready"
        /\ \A i \in tray : i.status # "error" => i.id \in s.files \union overtaken
        /\ s.step = "send" /\ s.answer \in {"accepted", "lost"} =>
               /\ \A f \in s.files : file[f] = "linked"
               /\ \E q \in questions : s.words = q.words

(* Whoever the server has a file of knows it.                              *)
Kept ==
    \A f \in B!Files :
        file[f] = "pending" => f \in dismissed \union overtaken \/ \E i \in tray : i.id = f

Written == OneSend /\ OneOfEach /\ Stands /\ SendHolds /\ Kept /\ B!NothingTypedIsLost

ComposerInv == B!TypeOK /\ Written

LEMMA ComposerInit ==
  ASSUME Assumptions, B!Init
  PROVE  ComposerInv
<1>1. B!TypeOK
  BY DEF B!Init, B!TypeOK
<1>2. OneSend /\ OneOfEach /\ Stands /\ SendHolds /\ Kept /\ B!NothingTypedIsLost
  BY DEF B!Init, OneSend, OneOfEach, Stands, SendHolds, Kept, B!NothingTypedIsLost
<1>3. QED
  BY <1>1, <1>2 DEF ComposerInv, Written

LEMMA ComposerType ==
  ASSUME Assumptions, B!TypeOK, B!Next
  PROVE  B!TypeOK'
<1>0. MaxFiles \in Nat /\ B!Files \subseteq Nat
  BY DEF Assumptions, B!ComposerAssumption, B!Files
<1> USE DEF B!TypeOK, B!server
<1>1. ASSUME NEW n \in B!Files, B!Add(n)
      PROVE  B!TypeOK'
  <2>1. \A i \in 1 .. n : files + i \in B!Files
    BY <1>0, <1>1 DEF B!Add, B!Files
  <2>2. {[id |-> files + i, status |-> IF i <= B!Room THEN "uploading" ELSE "error"] :
           i \in 1 .. n} \subseteq B!Items
    BY <2>1 DEF B!Items
  <2>3. {[id |-> files + i, answer |-> "none"] : i \in {j \in 1 .. n : j <= B!Room}} \subseteq B!Uploads
    BY <2>1 DEF B!Uploads
  <2>4. n \in Nat
    BY <1>0
  <2>5. QED
    BY <1>1, <2>2, <2>3, <2>4 DEF B!Add
<1>2. ASSUME NEW u \in uploads, B!Uploaded(u)
      PROVE  B!TypeOK'
  <2>1. B!Replace(tray, u.id, u.answer) \subseteq B!Items
    BY <1>2 DEF B!Uploaded, B!Replace, B!Items, B!Uploads
  <2>2. QED
    BY <1>2, <2>1 DEF B!Uploaded
<1>3. ASSUME NEW u \in uploads, NEW a \in {"ready", "error"}, B!ServerStores(u, a)
      PROVE  B!TypeOK'
  <2>1. [u EXCEPT !.answer = a] \in B!Uploads /\ u.id \in B!Files
    BY DEF B!Uploads
  <2>2. QED
    BY <1>3, <2>1 DEF B!ServerStores
<1>4. ASSUME NEW item \in tray, B!Dismiss(item)
      PROVE  B!TypeOK'
  <2>1. item.id \in B!Files
    BY DEF B!Items
  <2>2. QED
    BY <1>4, <2>1 DEF B!Dismiss
<1>5. ASSUME NEW f \in deletes, B!Delete(f)
      PROVE  B!TypeOK'
  BY <1>5 DEF B!Delete
<1>6. CASE B!Type
  <2>1. draft \union {words + 1} \subseteq Nat /\ words + 1 \in Nat
    OBVIOUS
  <2>2. QED
    BY <1>6, <2>1 DEF B!Type
<1>7. ASSUME NEW key \in Keys, B!Press(key)
      PROVE  B!TypeOK'
  <2>1. \A status : B!With(status) \subseteq B!Files
    BY DEF B!With, B!Items
  <2>2. [id |-> presses + 1, words |-> draft, files |-> B!ReadyIds, chat |-> place,
         step |-> IF place = 0 THEN "create" ELSE "send", answer |-> "none"] \in B!Sends
    BY <2>1 DEF B!Sends, B!ReadyIds
  <2>3. QED
    BY <1>7, <2>1, <2>2 DEF B!Press, B!TrayWhileSending
<1>8. ASSUME NEW s \in sends,
             \/ B!CreateChat(s) \/ B!Accept(s) \/ B!Refuse(s) \/ B!LoseAnswer(s)
             \/ B!Created(s) \/ B!Started(s) \/ B!Failed(s)
      PROVE  B!TypeOK'
  <2> USE DEF B!Answer, B!SameComposer
  <2>1. /\ s \in B!Sends /\ s.words \subseteq Nat /\ s.files \subseteq B!Files /\ s.chat \in Nat
        /\ \A a \in {"none", "accepted", "refused", "lost"} : [s EXCEPT !.answer = a] \in B!Sends
    BY DEF B!Sends
  <2>2. CASE B!CreateChat(s)
    <3>1. chats + 1 \in Nat
      OBVIOUS
    <3>2. [s EXCEPT !.answer = "accepted", !.chat = chats + 1] \in B!Sends
      BY <2>1, <3>1 DEF B!Sends
    <3>3. QED
      BY <2>2, <3>1, <3>2 DEF B!CreateChat
  <2>3. CASE B!Accept(s)
    <3>1. [words |-> s.words, files |-> s.files] \in B!Questions
      BY <2>1 DEF B!Questions
    <3>2. QED
      BY <2>1, <2>3, <3>1 DEF B!Accept
  <2>4. CASE B!Refuse(s) \/ B!LoseAnswer(s)
    BY <2>1, <2>4 DEF B!Refuse, B!LoseAnswer
  <2>5. CASE B!Created(s)
    <3>1. [s EXCEPT !.step = "send", !.answer = "none"] \in B!Sends
      BY DEF B!Sends
    <3>2. QED
      BY <2>1, <2>5, <3>1 DEF B!Created
  <2>6. CASE B!Started(s) \/ B!Failed(s)
    BY <2>1, <2>6 DEF B!Started, B!Failed, B!Cleared, B!GivenBack
  <2>7. QED
    BY <1>8, <2>2, <2>3, <2>4, <2>5, <2>6
<1>9. ASSUME NEW c \in running, B!EndRun(c)
      PROVE  B!TypeOK'
  BY <1>9 DEF B!EndRun, B!SameComposer
<1>10. CASE B!Ended
  BY <1>10 DEF B!Ended
<1>11. QED
  BY <1>1, <1>2, <1>3, <1>4, <1>5, <1>6, <1>7, <1>8, <1>9, <1>10 DEF B!Next

LEMMA ComposerStep ==
  ASSUME Assumptions, ComposerInv, B!Next
  PROVE  Written'
<1>0. /\ B!TypeOK /\ B!TypeOK' /\ OneSend /\ OneOfEach /\ Stands /\ SendHolds
      /\ B!NothingTypedIsLost /\ Kept
  BY ComposerType DEF ComposerInv, Written
<1>a. /\ \A i \in tray \union uploads : i.id \in Nat
      /\ \A i \in tray : i.id \in B!Files /\ i.status \in {"uploading", "ready", "error"}
      /\ \A u \in uploads : u.id \in B!Files /\ u.answer \in {"none", "ready", "error"}
      /\ \A s \in sends : /\ s.words \subseteq Nat /\ s.files \subseteq B!Files
                         /\ s.answer \in {"none", "accepted", "refused", "lost"}
      /\ B!Files \subseteq Nat /\ files \in Nat /\ words \in Nat /\ lost \in Nat
      /\ file \in [B!Files -> {"none", "pending", "linked"}]
      /\ deletes \subseteq B!Files
  BY <1>0 DEF B!TypeOK, B!Items, B!Uploads, B!Sends, B!Files
<1>1. ASSUME NEW n \in B!Files, B!Add(n)
      PROVE  Written'
  <2> DEFINE New == {[id |-> files + i, status |-> IF i <= B!Room THEN "uploading" ELSE "error"] :
                       i \in 1 .. n}
             Up == {[id |-> files + i, answer |-> "none"] : i \in {j \in 1 .. n : j <= B!Room}}
  <2>1. /\ tray' = tray \union New /\ uploads' = uploads \union Up /\ files' = files + n
        /\ sends = {} /\ n \in Nat
        /\ UNCHANGED <<file, questions, draft, sends, deletes, dismissed, overtaken, words, lost>>
    BY <1>1, <1>a DEF B!Add, B!Waits, B!server
  <2>2. /\ \A i \in New : /\ files < i.id /\ i.id <= files + n
                         /\ i.status \in {"uploading", "error"}
        /\ \A a, b \in New : a.id = b.id => a = b
        /\ \A u \in Up : /\ files < u.id /\ u.id <= files + n /\ u.answer = "none"
                        /\ (\E i \in New : i.id = u.id)
                        /\ \A i \in New : i.id = u.id => i.status = "uploading"
        /\ \A a, b \in Up : a.id = b.id => a = b
    <3>1. \A c \in New : \E i \in 1 .. n :
              c.id = files + i /\ c.status = IF i <= B!Room THEN "uploading" ELSE "error"
      OBVIOUS
    <3>2. \A i \in 1 .. n : \E c \in New : c.id = files + i
      <4>1. TAKE i \in 1 .. n
      <4>2. WITNESS [id |-> files + i, status |-> IF i <= B!Room THEN "uploading" ELSE "error"] \in New
      <4>3. QED
        OBVIOUS
    <3>3. \A c \in Up : \E i \in 1 .. n : c.id = files + i /\ c.answer = "none" /\ i <= B!Room
      OBVIOUS
    <3>4. \A a, b \in New : a.id = b.id => a = b
      BY <1>a
    <3>5. \A a, b \in Up : a.id = b.id => a = b
      BY <1>a
    <3> HIDE DEF New, Up
    <3>6. \A i \in New : files < i.id /\ i.id <= files + n /\ i.status \in {"uploading", "error"}
      BY <1>a, <2>1, <3>1
    <3>7. \A u \in Up : files < u.id /\ u.id <= files + n /\ u.answer = "none"
      BY <1>a, <2>1, <3>3
    <3>8. \A u \in Up : \E i \in New : i.id = u.id
      BY <3>2, <3>3
    <3>9. \A u \in Up, i \in New : i.id = u.id => i.status = "uploading"
      <4>1. TAKE u \in Up, c \in New
      <4>2. PICK i \in 1 .. n : u.id = files + i /\ i <= B!Room
        BY <3>3
      <4>3. PICK j \in 1 .. n : c.id = files + j /\ c.status = IF j <= B!Room THEN "uploading" ELSE "error"
        BY <3>1
      <4>4. u.id = c.id => i = j
        BY <1>a, <4>2, <4>3
      <4>5. QED
        BY <4>2, <4>3, <4>4
    <3>10. QED
      BY <3>4, <3>5, <3>6, <3>7, <3>8, <3>9
  <2>3. (\A i \in New : i.id \in B!Files) /\ (\A u \in Up : u.id \in B!Files)
    BY <1>0, <2>1 DEF B!TypeOK, B!Items, B!Uploads
  <2> HIDE DEF New, Up
  <2>4. OneSend' /\ SendHolds'
    BY <2>1 DEF OneSend, SendHolds
  <2>5. OneOfEach'
    <3>0. /\ \A i \in tray \union uploads : i.id \in Nat /\ i.id <= files
          /\ \A f \in deletes : f \in Nat /\ f <= files /\ \A i \in tray \union uploads : i.id # f
      BY <1>0, <1>a DEF OneOfEach
    <3>1. \A i \in tray' \union uploads' : i.id <= files'
      BY <1>a, <2>1, <2>2, <3>0
    <3>2. \A a, b \in tray' : a.id = b.id => a = b
      <4>1. \A a, b \in tray : a.id = b.id => a = b
        BY <1>0 DEF OneOfEach
      <4>2. \A a \in tray, b \in New : a.id # b.id
        BY <1>a, <2>2, <3>0
      <4>3. QED
        BY <2>1, <2>2, <4>1, <4>2
    <3>3. \A a, b \in uploads' : a.id = b.id => a = b
      <4>1. \A a, b \in uploads : a.id = b.id => a = b
        BY <1>0 DEF OneOfEach
      <4>2. \A a \in uploads, b \in Up : a.id # b.id
        BY <1>a, <2>2, <3>0
      <4>3. QED
        BY <2>1, <2>2, <4>1, <4>2
    <3>4. \A u \in uploads', i \in tray' : u.id = i.id => i.status = "uploading"
      <4>1. \A u \in uploads, i \in tray : u.id = i.id => i.status = "uploading"
        BY <1>0 DEF OneOfEach
      <4>2. \A u \in uploads, i \in New : u.id # i.id
        BY <1>a, <2>2, <3>0
      <4>3. \A u \in Up, i \in tray : u.id # i.id
        BY <1>a, <2>2, <3>0
      <4>4. QED
        BY <2>1, <2>2, <4>1, <4>2, <4>3
    <3>5. \A f \in deletes' : f <= files' /\ \A i \in tray' \union uploads' : i.id # f
      <4>1. \A f \in deletes : f <= files + n /\ \A i \in New \union Up : i.id # f
        BY <1>a, <2>1, <2>2, <3>0
      <4>2. QED
        BY <2>1, <3>0, <4>1
    <3>6. QED
      BY <3>1, <3>2, <3>3, <3>4, <3>5 DEF OneOfEach
  <2>6. Stands'
    <3>1. \A f \in B!Files : f > files' => file'[f] = "none"
      BY <1>0, <1>a, <2>1 DEF Stands
    <3>2. \A u \in uploads' :
              /\ file'[u.id] = IF u.answer = "ready" THEN "pending" ELSE "none"
              /\ u.id \in overtaken' \/ \E i \in tray' : i.id = u.id
      <4>1. TAKE u \in uploads'
      <4>2. CASE u \in uploads
        BY <1>0, <2>1, <4>2 DEF Stands
      <4>3. CASE u \in Up
        <5>1. file[u.id] = "none" /\ u.answer = "none"
          BY <1>0, <1>a, <2>2, <2>3, <4>3 DEF Stands
        <5>2. \E i \in tray' : i.id = u.id
          BY <2>1, <2>2, <4>3
        <5>3. QED
          BY <2>1, <5>1, <5>2
      <4>4. QED
        BY <2>1, <4>2, <4>3
    <3>3. \A i \in tray' :
              /\ i.status = "error" => file'[i.id] = "none"
              /\ i.status = "ready" => file'[i.id] = "pending" \/ lost' > 0
      BY <1>0, <1>a, <2>1, <2>2, <2>3 DEF Stands
    <3>4. QED
      BY <3>1, <3>2, <3>3 DEF Stands
  <2>7. B!NothingTypedIsLost'
    BY <1>0, <2>1 DEF B!NothingTypedIsLost
  <2>8. Kept'
    BY <1>0, <2>1 DEF Kept
  <2>9. QED
    BY <2>4, <2>5, <2>6, <2>7, <2>8 DEF Written
<1>2. ASSUME NEW u \in uploads, B!Uploaded(u)
      PROVE  Written'
  <2>1. /\ u.answer # "none" /\ uploads' = uploads \ {u}
        /\ tray' = {IF i.id = u.id THEN [i EXCEPT !.status = u.answer] ELSE i : i \in tray}
        /\ UNCHANGED <<file, questions, draft, sends, deletes, dismissed, overtaken, words, lost, files>>
    BY <1>2 DEF B!Uploaded, B!Replace, B!server
  <2>2. \A i \in tray' : \E k \in tray :
            /\ i.id = k.id
            /\ IF k.id = u.id THEN i.status = u.answer /\ k.status = "uploading" ELSE i = k
    <3>1. TAKE i \in tray'
    <3>2. PICK k \in tray : i = IF k.id = u.id THEN [k EXCEPT !.status = u.answer] ELSE k
      BY <2>1
    <3>3. k.id = u.id => k.status = "uploading"
      BY <1>0 DEF OneOfEach
    <3>4. k \in B!Items
      BY <1>0 DEF B!TypeOK
    <3>5. i.id = k.id /\ (k.id = u.id => i.status = u.answer)
      BY <3>2, <3>4 DEF B!Items
    <3>6. QED
      BY <3>2, <3>3, <3>5
  <2>3. \A k \in tray : \E i \in tray' :
            /\ i.id = k.id
            /\ IF k.id = u.id THEN i.status = u.answer ELSE i = k
    <3>1. TAKE k \in tray
    <3>2. k \in B!Items
      BY <1>0 DEF B!TypeOK
    <3>3. CASE k.id = u.id
      <4>1. [k EXCEPT !.status = u.answer] \in tray'
        BY <2>1, <3>3
      <4>2. [k EXCEPT !.status = u.answer].id = k.id /\ [k EXCEPT !.status = u.answer].status = u.answer
        BY <3>2 DEF B!Items
      <4>3. QED
        BY <3>3, <4>1, <4>2
    <3>4. CASE k.id # u.id
      BY <2>1, <3>4
    <3>5. QED
      BY <3>3, <3>4
  <2>4. OneSend' /\ B!NothingTypedIsLost'
    BY <1>0, <2>1 DEF OneSend, B!NothingTypedIsLost
  <2>5. Kept'
    <3>1. SUFFICES ASSUME NEW f \in B!Files, file[f] = "pending", f \notin dismissed \union overtaken
                   PROVE  \E i \in tray' : i.id = f
      BY <2>1 DEF Kept
    <3>2. \E k \in tray : k.id = f
      BY <1>0, <3>1 DEF Kept
    <3>3. QED
      BY <2>3, <3>2
  <2>6. OneOfEach'
    <3>1. \A a, b \in tray' : a.id = b.id => a = b
      <4>1. TAKE a, b \in tray'
      <4>2. PICK k \in tray : a = IF k.id = u.id THEN [k EXCEPT !.status = u.answer] ELSE k
        BY <2>1
      <4>3. PICK l \in tray : b = IF l.id = u.id THEN [l EXCEPT !.status = u.answer] ELSE l
        BY <2>1
      <4>4. k \in B!Items /\ l \in B!Items
        BY <1>0 DEF B!TypeOK
      <4>5. a.id = k.id /\ b.id = l.id
        BY <4>2, <4>3, <4>4 DEF B!Items
      <4>6. k.id = l.id => k = l
        BY <1>0 DEF OneOfEach
      <4>7. QED
        BY <4>2, <4>3, <4>5, <4>6
    <3>2. \A v \in uploads', i \in tray' : v.id = i.id => i.status = "uploading"
      <4>1. TAKE v \in uploads', i \in tray'
      <4>2. v \in uploads /\ v.id # u.id
        BY <1>0, <2>1 DEF OneOfEach
      <4>3. QED
        BY <1>0, <2>2, <4>2 DEF OneOfEach
    <3>3. \A i \in tray' \union uploads' : \E k \in tray \union uploads : i.id = k.id
      BY <2>1, <2>2
    <3>4. QED
      BY <1>0, <2>1, <3>1, <3>2, <3>3 DEF OneOfEach
  <2>7. Stands'
    <3>1. \A i \in tray' :
              /\ i.status = "error" => file[i.id] = "none"
              /\ i.status = "ready" =>
                     \/ file[i.id] = "pending" \/ lost > 0
                     \/ \E s \in sends : s.step = "send" /\ s.answer = "accepted" /\ i.id \in s.files
      <4>1. TAKE i \in tray'
      <4>2. PICK k \in tray :
                /\ i.id = k.id
                /\ IF k.id = u.id THEN i.status = u.answer /\ k.status = "uploading" ELSE i = k
        BY <2>2
      <4>3. file[u.id] = IF u.answer = "ready" THEN "pending" ELSE "none"
        BY <1>0 DEF Stands
      <4>4. CASE k.id = u.id
        BY <4>2, <4>3, <4>4
      <4>5. CASE k.id # u.id
        BY <1>0, <4>2, <4>5 DEF Stands
      <4>6. QED
        BY <4>4, <4>5
    <3>2. \A v \in uploads' :
              /\ file[v.id] = IF v.answer = "ready" THEN "pending" ELSE "none"
              /\ v.id \in overtaken \/ \E i \in tray' : i.id = v.id
      <4>1. TAKE v \in uploads'
      <4>2. v \in uploads
        BY <2>1
      <4>3. /\ file[v.id] = IF v.answer = "ready" THEN "pending" ELSE "none"
            /\ v.id \in overtaken \/ \E k \in tray : k.id = v.id
        BY <1>0, <4>2 DEF Stands
      <4>4. QED
        BY <2>3, <4>3
    <3>3. QED
      BY <1>0, <2>1, <3>1, <3>2 DEF Stands
  <2>8. SendHolds'
    <3>1. SUFFICES ASSUME NEW s \in sends
                   PROVE  /\ \A f \in s.files : \E i \in tray' : i.id = f /\ i.status = "ready"
                          /\ \A i \in tray' : i.status # "error" => i.id \in s.files \union overtaken
      BY <1>0, <2>1 DEF SendHolds
    <3>2. ASSUME NEW f \in s.files
          PROVE  \E i \in tray' : i.id = f /\ i.status = "ready"
      <4>1. PICK k \in tray : k.id = f /\ k.status = "ready"
        BY <1>0, <3>2 DEF SendHolds
      <4>2. k.id # u.id
        BY <1>0, <4>1 DEF OneOfEach
      <4>3. QED
        BY <2>3, <4>1, <4>2
    <3>3. ASSUME NEW i \in tray', i.status # "error"
          PROVE  i.id \in s.files \union overtaken
      <4>1. PICK k \in tray :
                /\ i.id = k.id
                /\ IF k.id = u.id THEN i.status = u.answer /\ k.status = "uploading" ELSE i = k
        BY <2>2
      <4>2. k.status # "error"
        BY <3>3, <4>1
      <4>3. QED
        BY <1>0, <4>1, <4>2 DEF SendHolds
    <3>4. QED
      BY <3>2, <3>3
  <2>9. QED
    BY <2>4, <2>5, <2>6, <2>7, <2>8 DEF Written
<1>3. ASSUME NEW u \in uploads, NEW a \in {"ready", "error"}, B!ServerStores(u, a)
      PROVE  Written'
  <2> DEFINE v == [u EXCEPT !.answer = a]
  <2>1. u \in B!Uploads /\ u.id \in B!Files
    BY <1>0, <1>a DEF B!TypeOK
  <2>2. v.id = u.id /\ v.answer = a
    BY <2>1 DEF B!Uploads
  <2>3. /\ u.answer = "none" /\ uploads' = (uploads \ {u}) \union {v}
        /\ file' = IF a = "ready" THEN [file EXCEPT ![u.id] = "pending"] ELSE file
        /\ UNCHANGED <<tray, draft, sends, deletes, dismissed, overtaken, words, lost, files, questions>>
    BY <1>3 DEF B!ServerStores
  <2> HIDE DEF v
  <2>4. /\ file[u.id] = "none" /\ file'[u.id] = IF a = "ready" THEN "pending" ELSE "none"
        /\ \A f \in B!Files : f # u.id => file'[f] = file[f]
    BY <1>0, <1>a, <2>1, <2>3 DEF Stands
  <2>5. OneSend' /\ B!NothingTypedIsLost'
    BY <1>0, <2>3 DEF OneSend, B!NothingTypedIsLost
  <2>6. OneOfEach'
    BY <1>0, <2>2, <2>3 DEF OneOfEach
  <2>7. Kept'
    <3>1. u.id \in overtaken \/ \E i \in tray : i.id = u.id
      BY <1>0 DEF Stands
    <3>2. QED
      BY <1>0, <2>3, <2>4, <3>1 DEF Kept
  <2>8. Stands'
    <3>1. \A f \in B!Files : f > files => file'[f] = "none"
      BY <1>0, <1>a, <2>4 DEF Stands, OneOfEach
    <3>2. \A w \in uploads' :
              /\ file'[w.id] = IF w.answer = "ready" THEN "pending" ELSE "none"
              /\ w.id \in overtaken \/ \E i \in tray : i.id = w.id
      <4>1. TAKE w \in uploads'
      <4>2. CASE w = v
        BY <1>0, <2>2, <2>4, <4>2 DEF Stands
      <4>3. CASE w \in uploads /\ w # u
        BY <1>0, <1>a, <2>4, <4>3 DEF Stands, OneOfEach
      <4>4. QED
        BY <2>3, <4>2, <4>3
    <3>3. \A i \in tray : i.status # "uploading" => i.id # u.id
      BY <1>0 DEF OneOfEach
    <3>4. \A i \in tray :
              /\ i.status = "error" => file'[i.id] = "none"
              /\ i.status = "ready" =>
                     \/ file'[i.id] = "pending" \/ lost > 0
                     \/ \E s \in sends : s.step = "send" /\ s.answer = "accepted" /\ i.id \in s.files
      BY <1>0, <1>a, <2>4, <3>3 DEF Stands
    <3>5. QED
      BY <2>3, <3>1, <3>2, <3>4 DEF Stands
  <2>9. SendHolds'
    BY <1>0, <1>a, <2>3, <2>4 DEF SendHolds
  <2>10. QED
    BY <2>5, <2>6, <2>7, <2>8, <2>9 DEF Written
<1>4. ASSUME NEW item \in tray, B!Dismiss(item)
      PROVE  Written'
  <2>1. /\ sends = {} /\ tray' = {i \in tray : i.id # item.id}
        /\ uploads' = {u \in uploads : u.id # item.id}
        /\ dismissed' = dismissed \union {item.id}
        /\ deletes' \subseteq deletes \union {item.id}
        /\ UNCHANGED <<draft, sends, overtaken, words, lost, files, questions>>
    BY <1>4 DEF B!Dismiss, B!Waits
  <2>2. \A f \in B!Files : f # item.id => file'[f] = file[f]
    BY <1>4, <1>a DEF B!Dismiss
  <2>3. OneSend' /\ SendHolds'
    BY <2>1 DEF OneSend, SendHolds
  <2>4. B!NothingTypedIsLost'
    BY <1>0, <2>1 DEF B!NothingTypedIsLost
  <2>5. OneOfEach'
    BY <1>0, <2>1 DEF OneOfEach
  <2>6. Kept'
    BY <1>0, <2>1, <2>2 DEF Kept
  <2>7. Stands'
    <3>1. \A f \in B!Files : f > files => file'[f] = "none"
      BY <1>0, <1>a, <2>2 DEF Stands, OneOfEach
    <3>2. \A u \in uploads' :
              /\ file'[u.id] = IF u.answer = "ready" THEN "pending" ELSE "none"
              /\ u.id \in overtaken \/ \E i \in tray' : i.id = u.id
      BY <1>0, <1>a, <2>1, <2>2 DEF Stands
    <3>3. \A i \in tray' :
              /\ i.status = "error" => file'[i.id] = "none"
              /\ i.status = "ready" => file'[i.id] = "pending" \/ lost > 0
      BY <1>0, <1>a, <2>1, <2>2 DEF Stands
    <3>4. QED
      BY <2>1, <3>1, <3>2, <3>3 DEF Stands
  <2>8. QED
    BY <2>3, <2>4, <2>5, <2>6, <2>7 DEF Written
<1>5. ASSUME NEW f \in deletes, B!Delete(f)
      PROVE  Written'
  <2>1. /\ deletes' = deletes \ {f}
        /\ UNCHANGED <<tray, uploads, draft, sends, dismissed, overtaken, words, lost, files, questions>>
    BY <1>5 DEF B!Delete
  <2>2. /\ \A g \in B!Files : g # f => file'[g] = file[g]
        /\ file'[f] = file[f] \/ (file[f] = "pending" /\ file'[f] = "none")
        /\ f \in B!Files
    BY <1>5, <1>a DEF B!Delete, B!Deletable
  <2>3. \A i \in tray \union uploads : i.id # f
    BY <1>0 DEF OneOfEach
  <2>4. OneSend' /\ B!NothingTypedIsLost' /\ OneOfEach'
    BY <1>0, <2>1 DEF OneSend, B!NothingTypedIsLost, OneOfEach
  <2>5. Kept'
    BY <1>0, <2>1, <2>2 DEF Kept
  <2>6. Stands'
    <3>1. \A g \in B!Files : g > files => file'[g] = "none"
      BY <1>0, <1>a, <2>2 DEF Stands
    <3>2. QED
      BY <1>0, <1>a, <2>1, <2>2, <2>3, <3>1 DEF Stands
  <2>7. SendHolds'
    BY <1>0, <1>a, <2>1, <2>2 DEF SendHolds
  <2>8. QED
    BY <2>4, <2>5, <2>6, <2>7 DEF Written
<1>6. CASE B!Type
  <2>1. /\ sends = {} /\ draft' = draft \union {words + 1} /\ words' = words + 1
        /\ UNCHANGED <<file, questions, tray, uploads, sends, deletes, dismissed, overtaken, files, lost>>
    BY <1>6 DEF B!Type, B!Waits, B!server
  <2>2. B!NothingTypedIsLost'
    BY <1>0, <1>a, <2>1 DEF B!NothingTypedIsLost
  <2>3. OneSend' /\ SendHolds'
    BY <2>1 DEF OneSend, SendHolds
  <2>4. OneOfEach' /\ Stands' /\ Kept'
    BY <1>0, <2>1 DEF OneOfEach, Stands, Kept
  <2>5. QED
    BY <2>2, <2>3, <2>4 DEF Written
<1>7. ASSUME NEW key \in Keys, B!Press(key)
      PROVE  Written'
  <2> DEFINE s == [id |-> presses + 1, words |-> draft, files |-> B!ReadyIds, chat |-> place,
                   step |-> IF place = 0 THEN "create" ELSE "send", answer |-> "none"]
  <2>1. /\ sends = {} /\ sends' = {s} /\ draft' = {} /\ tray' = tray
        /\ overtaken' = overtaken \union B!With("uploading")
        /\ UNCHANGED <<file, questions, uploads, deletes, dismissed, words, files, lost>>
    BY <1>7 DEF B!Press, B!Waits, B!TrayWhileSending, B!server
  <2>2. s.words = draft /\ s.files = B!ReadyIds /\ s.answer = "none"
    OBVIOUS
  <2> HIDE DEF s
  <2>3. OneSend' /\ OneOfEach' /\ Kept'
    BY <1>0, <2>1 DEF OneSend, OneOfEach, Kept
  <2>4. B!NothingTypedIsLost'
    BY <1>0, <2>1, <2>2 DEF B!NothingTypedIsLost
  <2>5. Stands'
    <3>1. \A i \in tray : i.status = "ready" => file[i.id] = "pending" \/ lost > 0
      BY <1>0, <2>1 DEF Stands
    <3>2. QED
      BY <1>0, <2>1, <3>1 DEF Stands
  <2>6. SendHolds'
    <3>1. \A f \in s.files : \E i \in tray : i.id = f /\ i.status = "ready"
      BY <2>2 DEF B!ReadyIds, B!With
    <3>2. \A i \in tray : i.status # "error" => i.id \in s.files \union B!With("uploading")
      BY <1>a, <2>2 DEF B!ReadyIds, B!With
    <3>3. QED
      BY <2>1, <2>2, <3>1, <3>2 DEF SendHolds
  <2>7. QED
    BY <2>3, <2>4, <2>5, <2>6 DEF Written
<1>8. ASSUME NEW s \in sends,
             \/ B!CreateChat(s) \/ B!Accept(s) \/ B!Refuse(s) \/ B!LoseAnswer(s)
             \/ B!Created(s) \/ B!Started(s) \/ B!Failed(s)
      PROVE  Written'
  <2>1. sends = {s} /\ s \in B!Sends
    BY <1>0 DEF OneSend, B!TypeOK
  (* The send goes a step further, and the rest is as it was.              *)
  <2>2. ASSUME NEW t, sends' = {t}, t.words = s.words, t.files = s.files,
               t.step = "send" /\ t.answer \in {"accepted", "lost"} =>
                   s.step = "send" /\ s.answer = "accepted",
               s.step = "send" /\ s.answer = "accepted" =>
                   (t.step = "send" /\ t.answer = "accepted") \/ lost' > 0,
               lost > 0 => lost' > 0,
               UNCHANGED <<file, questions, tray, uploads, draft, deletes, dismissed, overtaken,
                           words, files>>
        PROVE  Written'
    <3>1. OneSend' /\ OneOfEach' /\ Kept'
      BY <1>0, <2>2 DEF OneSend, OneOfEach, Kept
    <3>2. B!NothingTypedIsLost'
      BY <1>0, <2>1, <2>2 DEF B!NothingTypedIsLost
    <3>3. SendHolds'
      BY <1>0, <2>1, <2>2 DEF SendHolds
    <3>4. Stands'
      BY <1>0, <2>1, <2>2 DEF Stands
    <3>5. QED
      BY <3>1, <3>2, <3>3, <3>4 DEF Written
  <2>3. CASE B!CreateChat(s)
    <3> DEFINE t == [s EXCEPT !.answer = "accepted", !.chat = chats + 1]
    <3>1. t.words = s.words /\ t.files = s.files /\ t.step = s.step
      BY <2>1 DEF B!Sends
    <3>2. /\ s.step = "create" /\ sends' = {t}
          /\ UNCHANGED <<file, questions, tray, uploads, draft, deletes, dismissed, overtaken,
                         words, files, lost>>
      BY <2>1, <2>3 DEF B!CreateChat, B!Answer, B!SameComposer
    <3> HIDE DEF t
    <3>3. QED
      BY <2>2, <3>1, <3>2
  <2>4. CASE B!Refuse(s) \/ B!LoseAnswer(s)
    <3> DEFINE t == [s EXCEPT !.answer = IF B!Refuse(s) THEN "refused" ELSE "lost"]
    <3>1. /\ t.words = s.words /\ t.files = s.files /\ t.step = s.step
          /\ t.answer = IF B!Refuse(s) THEN "refused" ELSE "lost"
      BY <2>1 DEF B!Sends
    <3>2. CASE B!Refuse(s)
      <4>1. sends' = {t} /\ s.answer = "none" /\ lost' = lost
        BY <2>1, <3>2 DEF B!Refuse, B!Answer
      <4>2. UNCHANGED <<file, questions, tray, uploads, draft, deletes, dismissed, overtaken,
                        words, files>>
        BY <3>2 DEF B!Refuse, B!SameComposer, B!server
      <4> HIDE DEF t
      <4>3. QED
        BY <2>2, <3>1, <3>2, <4>1, <4>2
    <3>3. CASE ~B!Refuse(s)
      <4>1. sends' = {t} /\ s.answer = "accepted" /\ lost' = lost + 1
        BY <2>1, <2>4, <3>3 DEF B!LoseAnswer, B!Answer
      <4>2. UNCHANGED <<file, questions, tray, uploads, draft, deletes, dismissed, overtaken,
                        words, files>>
        BY <2>4, <3>3 DEF B!LoseAnswer, B!SameComposer, B!server
      <4>3. lost' > 0
        BY <1>a, <4>1
      <4> HIDE DEF t
      <4>4. QED
        BY <2>2, <3>1, <3>3, <4>1, <4>2, <4>3
    <3>4. QED
      BY <3>2, <3>3
  <2>5. CASE B!Created(s)
    <3> DEFINE t == [s EXCEPT !.step = "send", !.answer = "none"]
    <3>1. t.words = s.words /\ t.files = s.files /\ t.answer = "none"
      BY <2>1 DEF B!Sends
    <3>2. /\ s.step = "create" /\ sends' = {t}
          /\ UNCHANGED <<file, questions, tray, uploads, draft, deletes, dismissed, overtaken,
                         words, files, lost>>
      BY <2>1, <2>5 DEF B!Created, B!Answer, B!server
    <3> HIDE DEF t
    <3>3. QED
      BY <2>2, <3>1, <3>2
  <2>6. CASE B!Accept(s)
    <3> DEFINE t == [s EXCEPT !.answer = "accepted"]
               q == [words |-> s.words, files |-> s.files]
    <3>1. t.words = s.words /\ t.files = s.files /\ t.step = s.step /\ t.answer = "accepted"
      BY <2>1 DEF B!Sends
    <3>2. q.words = s.words
      OBVIOUS
    <3>3. /\ s.step = "send" /\ s.answer = "none"
          /\ \A f \in s.files : file[f] = "pending"
          /\ file' = [f \in B!Files |-> IF f \in s.files THEN "linked" ELSE file[f]]
          /\ questions' = questions \union {q} /\ sends' = {t}
          /\ UNCHANGED <<tray, uploads, draft, deletes, dismissed, overtaken, words, files, lost>>
      BY <2>1, <2>6 DEF B!Accept, B!Answer, B!SameComposer
    <3> HIDE DEF t, q
    <3>4. /\ \A f \in s.files : f \in B!Files /\ file'[f] = "linked"
          /\ \A f \in B!Files : f \notin s.files => file'[f] = file[f]
      BY <1>a, <3>3
    <3>5. OneSend' /\ OneOfEach'
      BY <1>0, <3>3 DEF OneSend, OneOfEach
    <3>6. Kept'
      BY <1>0, <3>3, <3>4 DEF Kept
    <3>7. B!NothingTypedIsLost'
      BY <1>0, <2>1, <3>1, <3>3 DEF B!NothingTypedIsLost
    <3>8. SendHolds'
      BY <1>0, <3>1, <3>2, <3>3, <3>4 DEF SendHolds
    <3>9. Stands'
      <4>1. \A f \in B!Files : f > files => file'[f] = "none"
        BY <1>0, <3>3, <3>4 DEF Stands
      <4>2. \A f \in s.files : \E i \in tray : i.id = f /\ i.status = "ready"
        BY <1>0 DEF SendHolds
      <4>3. \A u \in uploads : u.id \notin s.files
        BY <1>0, <4>2 DEF OneOfEach
      <4>4. \A i \in tray : i.status = "error" => i.id \notin s.files
        BY <1>0, <4>2 DEF OneOfEach
      <4>5. \A i \in tray :
                /\ i.status = "error" => file'[i.id] = "none"
                /\ i.status = "ready" => file'[i.id] = "pending" \/ lost > 0 \/ i.id \in s.files
        BY <1>0, <1>a, <2>1, <3>3, <3>4, <4>4 DEF Stands
      <4>6. \A u \in uploads :
                /\ file'[u.id] = IF u.answer = "ready" THEN "pending" ELSE "none"
                /\ u.id \in overtaken \/ \E i \in tray : i.id = u.id
        BY <1>0, <1>a, <3>4, <4>3 DEF Stands
      <4>7. t \in sends' /\ t.step = "send" /\ t.answer = "accepted" /\ t.files = s.files
        BY <3>1, <3>3
      <4>8. QED
        BY <3>3, <4>1, <4>5, <4>6, <4>7 DEF Stands
    <3>10. QED
      BY <3>5, <3>6, <3>7, <3>8, <3>9 DEF Written
  <2>7. CASE B!Started(s)
    <3>1. /\ s.step = "send" /\ s.answer = "accepted" /\ tray' = {} /\ sends' = {}
          /\ UNCHANGED <<file, questions, uploads, draft, deletes, dismissed, overtaken, words,
                         files, lost>>
      BY <2>1, <2>7 DEF B!Started, B!Cleared, B!server
    <3>2. \A i \in tray :
              \/ i.id \in overtaken \/ file[i.id] = "none"
              \/ i.id \in s.files /\ file[i.id] = "linked"
      <4>1. TAKE i \in tray
      <4>2. i.status = "error" => file[i.id] = "none"
        BY <1>0 DEF Stands
      <4>3. i.status # "error" => i.id \in s.files \union overtaken
        BY <1>0 DEF SendHolds
      <4>4. \A f \in s.files : file[f] = "linked"
        BY <1>0, <3>1 DEF SendHolds
      <4>5. QED
        BY <4>2, <4>3, <4>4
    <3>3. \A u \in uploads : u.id \notin s.files
      BY <1>0 DEF OneOfEach, SendHolds
    <3>4. \A u \in uploads : u.id \in overtaken
      <4>1. TAKE u \in uploads
      <4>2. u.id \in overtaken \/ \E i \in tray : i.id = u.id /\ i.status = "uploading"
        BY <1>0 DEF Stands, OneOfEach
      <4>3. QED
        BY <1>0, <3>3, <4>2 DEF SendHolds
    <3>5. OneSend' /\ SendHolds'
      BY <3>1 DEF OneSend, SendHolds
    <3>6. OneOfEach'
      BY <1>0, <3>1 DEF OneOfEach
    <3>7. Kept'
      BY <1>0, <3>1, <3>2 DEF Kept
    <3>8. B!NothingTypedIsLost'
      BY <1>0, <2>1, <3>1 DEF B!NothingTypedIsLost, SendHolds
    <3>9. Stands'
      BY <1>0, <3>1, <3>4 DEF Stands
    <3>10. QED
      BY <3>5, <3>6, <3>7, <3>8, <3>9 DEF Written
  <2>8. CASE B!Failed(s)
    <3>1. /\ s.answer \in {"refused", "lost"} /\ draft' = s.words /\ sends' = {}
          /\ overtaken' = overtaken \ B!Ids(tray)
          /\ UNCHANGED <<file, questions, tray, uploads, deletes, dismissed, words, files, lost>>
      BY <2>1, <2>8 DEF B!Failed, B!GivenBack, B!server
    <3>2. \A f : f \in B!Ids(tray) => \E i \in tray : i.id = f
      BY DEF B!Ids
    <3>3. OneSend' /\ SendHolds' /\ OneOfEach'
      BY <1>0, <3>1 DEF OneSend, SendHolds, OneOfEach
    <3>4. Kept'
      BY <1>0, <3>1, <3>2 DEF Kept
    <3>5. B!NothingTypedIsLost'
      BY <1>0, <2>1, <3>1 DEF B!NothingTypedIsLost, SendHolds
    <3>6. \A i \in tray :
              /\ i.status = "error" => file[i.id] = "none"
              /\ i.status = "ready" => file[i.id] = "pending" \/ lost > 0
      BY <1>0, <2>1, <3>1 DEF Stands
    <3>7. Stands'
      BY <1>0, <3>1, <3>2, <3>6 DEF Stands
    <3>8. QED
      BY <3>3, <3>4, <3>5, <3>7 DEF Written
  <2>9. QED
    BY <1>8, <2>3, <2>4, <2>5, <2>6, <2>7, <2>8
<1>9. ASSUME NEW c \in running, B!EndRun(c)
      PROVE  Written'
  BY <1>0, <1>9
  DEF B!EndRun, B!SameComposer, Written, OneSend, OneOfEach, Stands, SendHolds, Kept,
      B!NothingTypedIsLost
<1>10. CASE B!Ended
  BY <1>0, <1>10
  DEF B!Ended, B!server, Written, OneSend, OneOfEach, Stands, SendHolds, Kept, B!NothingTypedIsLost
<1>11. QED
  BY <1>1, <1>2, <1>3, <1>4, <1>5, <1>6, <1>7, <1>8, <1>9, <1>10 DEF B!Next

(* What follows for the reader.                                            *)
LEMMA ComposerKeeps ==
  ASSUME Assumptions, ComposerInv
  PROVE  B!NothingTypedIsLost /\ B!NoFileIsLost /\ B!ReadyCanBeSent
<1>1. OneSend /\ Stands /\ Kept /\ B!NothingTypedIsLost
  BY DEF ComposerInv, Written
<1>2. B!NoFileIsLost
  BY <1>1 DEF Kept, B!NoFileIsLost, B!Ids
<1>3. B!ReadyCanBeSent
  <2>1. SUFFICES ASSUME sends = {}, lost = 0, NEW i \in tray, i.status = "ready"
                 PROVE  file[i.id] = "pending"
    BY DEF B!ReadyCanBeSent, B!ReadyIds, B!With
  <2>2. QED
    BY <1>1, <2>1 DEF Stands
<1>4. QED
  BY <1>1, <1>2, <1>3
-----------------------------------------------------------------------------
(* Sequences of messages.                                                  *)

LEMMA FunctionIsSeq ==
  ASSUME NEW Any, NEW n \in Nat, NEW f \in [1 .. n -> Any]
  PROVE  f \in Seq(Any) /\ Len(f) = n /\ DOMAIN f = 1 .. n
<1>1. f \in Seq(Any)
  BY SeqDef, Zenon
<1>2. QED
  BY <1>1

LEMMA FrontIs ==
  ASSUME NEW Any, NEW s \in Seq(Any), s # << >>
  PROVE  /\ P!Front(s) \in Seq(Any) /\ Len(P!Front(s)) = Len(s) - 1 /\ Len(s) \in Nat \ {0}
         /\ \A i \in 1 .. Len(s) - 1 : P!Front(s)[i] = s[i]
         /\ P!Last(s) = s[Len(s)] /\ P!Last(s) \in Any
<1>1. Len(s) \in Nat \ {0}
  BY EmptySeq
<1>2. \A i \in 1 .. Len(s) - 1 : s[i] \in Any
  BY <1>1, ElementOfSeq
<1> DEFINE n == Len(s) - 1
<1>3. /\ SubSeq(s, 1, n) \in Seq(Any) /\ Len(SubSeq(s, 1, n)) = n
      /\ \A i \in 1 .. n : SubSeq(s, 1, n)[i] = s[i]
  <2>1. n \in Nat /\ 1 \in Int
    BY <1>1
  <2> HIDE DEF n
  <2>2. \A i \in 1 .. n : s[i] \in Any
    BY <1>2 DEF n
  <2>3. /\ SubSeq(s, 1, n) \in Seq(Any)
        /\ Len(SubSeq(s, 1, n)) = IF 1 <= n THEN n - 1 + 1 ELSE 0
        /\ \A i \in 1 .. n - 1 + 1 : SubSeq(s, 1, n)[i] = s[1 + i - 1]
    BY <2>1, <2>2, SubSeqProperties
  <2>4. n - 1 + 1 = n /\ \A i \in 1 .. n : 1 + i - 1 = i
    BY <2>1
  <2>5. QED
    BY <2>1, <2>3, <2>4
<1>4. QED
  BY <1>1, <1>2, <1>3, ElementOfSeq DEF P!Front, P!Last

(* The first message with another wording.                                 *)
Reworded(s) == [s EXCEPT ![1].edit = @ + 1]

LEMMA EditIs ==
  ASSUME NEW s \in Seq(P!Messages)
  PROVE  /\ Reworded(s) \in Seq(P!Messages) /\ Len(Reworded(s)) = Len(s)
         /\ \A i \in 1 .. Len(s) : /\ Reworded(s)[i].type = s[i].type /\ Reworded(s)[i].turn = s[i].turn
                                   /\ Reworded(s)[i].temporary = s[i].temporary
<1>1. Len(s) \in Nat /\ DOMAIN s = 1 .. Len(s) /\ \A i \in 1 .. Len(s) : s[i] \in P!Messages
  BY ElementOfSeq, LenProperties
<1>2. \A m \in P!Messages :
          /\ [m EXCEPT !.edit = @ + 1] \in P!Messages
          /\ [m EXCEPT !.edit = @ + 1].type = m.type /\ [m EXCEPT !.edit = @ + 1].turn = m.turn
          /\ [m EXCEPT !.edit = @ + 1].temporary = m.temporary
  BY DEF P!Messages
<1>3. DOMAIN Reworded(s) = 1 .. Len(s) /\ Reworded(s) = [i \in 1 .. Len(s) |-> Reworded(s)[i]]
  BY <1>1 DEF Reworded
<1>4. \A i \in 1 .. Len(s) : Reworded(s)[i] = IF i = 1 THEN [s[i] EXCEPT !.edit = @ + 1] ELSE s[i]
  BY <1>1 DEF Reworded
<1>5. Reworded(s) \in [1 .. Len(s) -> P!Messages]
  BY <1>1, <1>2, <1>3, <1>4
<1>6. QED
  BY <1>1, <1>2, <1>4, <1>5, FunctionIsSeq

(* The temporary question becomes the server's.                            *)
Confirmed(s, turn) ==
    [i \in DOMAIN s |-> IF s[i].temporary /\ s[i].turn = turn
                        THEN [s[i] EXCEPT !.temporary = FALSE] ELSE s[i]]

LEMMA ReconcileIs ==
  ASSUME NEW s \in Seq(P!Messages), NEW turn
  PROVE  /\ Confirmed(s, turn) \in Seq(P!Messages) /\ Len(Confirmed(s, turn)) = Len(s)
         /\ \A i \in 1 .. Len(s) :
                /\ Confirmed(s, turn)[i].type = s[i].type /\ Confirmed(s, turn)[i].turn = s[i].turn
                /\ ~s[i].temporary => Confirmed(s, turn)[i] = s[i]
                /\ s[i].temporary /\ s[i].turn = turn =>
                       Confirmed(s, turn)[i] = [s[i] EXCEPT !.temporary = FALSE]
<1>1. Len(s) \in Nat /\ DOMAIN s = 1 .. Len(s) /\ \A i \in 1 .. Len(s) : s[i] \in P!Messages
  BY ElementOfSeq, LenProperties
<1>2. \A m \in P!Messages :
          /\ [m EXCEPT !.temporary = FALSE] \in P!Messages
          /\ [m EXCEPT !.temporary = FALSE].type = m.type
          /\ [m EXCEPT !.temporary = FALSE].turn = m.turn
  BY DEF P!Messages
<1>3. Confirmed(s, turn) \in [1 .. Len(s) -> P!Messages]
  BY <1>1, <1>2 DEF Confirmed
<1>4. QED
  BY <1>1, <1>2, <1>3, FunctionIsSeq DEF Confirmed

-----------------------------------------------------------------------------
(* The conversation on the screen, for either reader.                      *)

(* What the two readers have in common.                                    *)
LEMMA SameReaders ==
  /\ I!TypeOK = P!TypeOK
  /\ \A c : /\ I!Open(c) = P!Open(c) /\ I!Load(c) = P!Load(c) /\ I!Answer(c) = P!Answer(c)
            /\ I!Land(c) = P!Land(c) /\ I!Store(c) = P!Store(c)
  /\ \A r : /\ I!Start(r) = P!Start(r) /\ I!ApplyEdit(r) = P!ApplyEdit(r)
            /\ I!Accepted(r) = P!Accepted(r) /\ I!Edited(r) = P!Edited(r)
            /\ I!Refused(r) = P!Refused(r)
  /\ I!Settle = P!Settle
<1>1. I!TypeOK = P!TypeOK
  BY DEF I!TypeOK, P!TypeOK, I!Messages, P!Messages, I!Copies, P!Copies, I!Generations, P!Generations,
         I!Runs, P!Runs, I!Fetches, P!Fetches, I!Requests, P!Requests
<1>2. \A c, d : I!Commit(c, d) = P!Commit(c, d)
  BY DEF I!Commit, P!Commit, I!Adopted, P!Adopted, I!Active, P!Active, I!LiveOf, P!LiveOf, I!Held, P!Held
<1>3. \A c : /\ I!Open(c) = P!Open(c) /\ I!Load(c) = P!Load(c) /\ I!Answer(c) = P!Answer(c)
             /\ I!Land(c) = P!Land(c) /\ I!Store(c) = P!Store(c)
  BY <1>2
  DEF I!Open, P!Open, I!Load, P!Load, I!Answer, P!Answer, I!Land, P!Land, I!Store, P!Store,
      I!server, P!server, I!watched, P!watched, I!Asked, P!Asked, I!Nothing, P!Nothing,
      I!ActiveRun, P!ActiveRun, I!StoreReply, P!StoreReply, I!Message, P!Message, I!NoRun, P!NoRun
<1>4. \A r : I!Start(r) = P!Start(r) /\ I!ApplyEdit(r) = P!ApplyEdit(r)
  <2>1. \A r : I!Start(r) = P!Start(r)
    <3>1. \A r : I!Question(r) = P!Question(r)
      BY DEF I!Question, P!Question, I!Message, P!Message, I!LastIs, P!LastIs, I!Last, P!Last,
             I!Front, P!Front
    <3>2. QED
      BY <3>1 DEF I!Start, P!Start, I!Answered, P!Answered, I!watched, P!watched
  <2>2. \A r : I!ApplyEdit(r) = P!ApplyEdit(r)
    BY DEF I!ApplyEdit, P!ApplyEdit, I!watched, P!watched
  <2>3. QED
    BY <2>1, <2>2
<1>5. \A r : /\ I!Accepted(r) = P!Accepted(r) /\ I!Edited(r) = P!Edited(r)
             /\ I!Refused(r) = P!Refused(r)
  BY <1>2
  DEF I!Accepted, P!Accepted, I!Edited, P!Edited, I!Refused, P!Refused, I!Reconciled, P!Reconciled,
      I!Held, P!Held, I!Touched, P!Touched, I!server, P!server
<1>6. I!Settle = P!Settle
  BY DEF I!Settle, P!Settle, I!EndIsTold, P!EndIsTold, I!Hold, P!Hold, I!Asked, P!Asked,
         I!Nothing, P!Nothing, I!server, P!server
<1>7. QED
  BY <1>1, <1>3, <1>4, <1>5, <1>6

LEMMA NoneApart ==
  ASSUME Assumptions
  PROVE  /\ None \notin Nat /\ None \notin Seq(P!Messages) /\ None \notin P!Copies
         /\ None \notin P!Generations /\ here \in Convs
BY DEF Assumptions, P!NoneAssumption

(* A run that is adopted is one of the conversation's.                     *)
LEMMA CommitType ==
  ASSUME Assumptions, P!TypeOK, NEW c \in Convs, NEW data \in [Convs -> P!Copies \union {None}],
         P!Commit(c, data)
  PROVE  /\ open' \in Convs /\ cache' \in [Convs -> P!Copies \union {None}]
         /\ generation' \in P!Generations \union {None} /\ live' \in {"idle", "running", "ended"}
         /\ settled' \in Nat \union {None} /\ settling' \in P!Generations \union {None}
<1>1. P!Active(c, data) \in Nat \union {None}
  BY DEF P!Active, P!Copies
<1>2. P!Adopted(c, data) \in P!Generations \union {None}
  BY <1>1 DEF P!Adopted, P!TypeOK, P!Generations
<1>3. P!LiveOf(P!Adopted(c, data)) \in {"idle", "running", "ended"}
  BY DEF P!LiveOf, P!TypeOK
<1>4. P!Held(c, data) \in P!Generations \union {None}
  BY DEF P!Held, P!TypeOK
<1>5. QED
  BY <1>2, <1>3, <1>4 DEF P!Commit, P!TypeOK

(* A copy with other messages.                                             *)
With(c, s) == [cache EXCEPT ![c].messages = s]

LEMMA CopyIs ==
  ASSUME Assumptions, P!TypeOK, NEW c \in Convs, cache[c] # None, NEW s \in Seq(P!Messages)
  PROVE  /\ With(c, s) \in [Convs -> P!Copies \union {None}]
         /\ With(c, s)[c] \in P!Copies /\ With(c, s)[c].messages = s
         /\ With(c, s)[c].active = cache[c].active
         /\ \A d \in Convs : d # c => With(c, s)[d] = cache[d]
         /\ cache[c] \in P!Copies /\ cache[c].messages \in Seq(P!Messages)
<1>1. cache[c] \in P!Copies
  BY DEF P!TypeOK
<1>2. \A m \in P!Copies : /\ [m EXCEPT !.messages = s] \in P!Copies /\ m.messages \in Seq(P!Messages)
                        /\ [m EXCEPT !.messages = s].messages = s
                        /\ [m EXCEPT !.messages = s].active = m.active
  BY DEF P!Copies
<1>3. With(c, s) = [cache EXCEPT ![c] = [cache[c] EXCEPT !.messages = s]]
  BY DEF With
<1>4. QED
  BY <1>1, <1>2, <1>3 DEF P!TypeOK

LEMMA TranscriptType ==
  ASSUME Assumptions, P!TypeOK, P!Next \/ I!Next
  PROVE  P!TypeOK'
<1>0. P!Nothing \in P!Fetches /\ P!Asked \in P!Fetches
  <2>1. P!Nothing \in P!Fetches
    BY DEF P!Fetches, P!Nothing
  <2>2. QED
    BY <2>1 DEF P!Fetches, P!Asked
<1>a. /\ None \notin Nat /\ None \notin Seq(P!Messages) /\ None \notin P!Copies
      /\ here \in Convs /\ P!NoRun \in P!Runs
  BY NoneApart DEF P!NoRun, P!Runs
<1>b. \A c \in Convs, n \in Nat, type \in {"user", "assistant"} : P!Message(c, type, n) \in P!Messages
  BY DEF P!Message, P!Messages
<1>c. \A k \in {"send", "regenerate", "edit"}, c \in Convs, m \in P!Copies \union {None} :
          P!Request(k, c, m) \in P!Requests
  BY DEF P!Request, P!Requests, P!TypeOK
<1>d. \A r \in requests : /\ r.of \in Convs /\ r.turn \in Nat /\ r.previous \in P!Copies \union {None}
                        /\ \A a \in {"none", "accepted", "refused"} : [r EXCEPT !.answer = a] \in P!Requests
  BY DEF P!Requests, P!TypeOK
<1>e. /\ stored \in [Convs -> Seq(P!Messages)] /\ run \in [Convs -> P!Runs] /\ open \in Convs
      /\ cache \in [Convs -> P!Copies \union {None}] /\ fetch \in [Convs -> P!Fetches]
      /\ turns \in Nat /\ edits \in Nat /\ reloads \in Nat
  BY DEF P!TypeOK
<1>f. \A c \in Convs : \A d : P!Touched(c, d) \subseteq Convs
  BY DEF P!Touched, P!TypeOK
<1>1. ASSUME NEW c \in Convs, P!Open(c)
      PROVE  P!TypeOK'
  <2>1. P!Commit(c, cache)
    BY <1>1 DEF P!Open
  <2>2. fetch' \in [Convs -> P!Fetches]
    BY <1>0, <1>1, <1>e DEF P!Open
  <2>3. QED
    BY <1>1, <1>e, <2>1, <2>2, CommitType DEF P!Open, P!server, P!TypeOK
<1>2. ASSUME NEW c \in Convs, P!Load(c)
      PROVE  P!TypeOK'
  <2>1. [P!Asked EXCEPT !.loaded = stored[c]] \in P!Fetches
    BY <1>0, <1>e DEF P!Fetches
  <2>2. fetch' \in [Convs -> P!Fetches]
    BY <1>2, <1>e, <2>1 DEF P!Load
  <2>3. QED
    BY <1>2, <2>2 DEF P!Load, P!server, P!watched, P!TypeOK
<1>3. ASSUME NEW c \in Convs, P!Answer(c)
      PROVE  P!TypeOK'
  <2>1. fetch[c] \in P!Fetches /\ fetch[c].loaded # None /\ run[c] \in P!Runs
    BY <1>3, <1>e DEF P!Answer
  <2>2. [messages |-> fetch[c].loaded, active |-> P!ActiveRun(c)] \in P!Copies
    BY <2>1 DEF P!Copies, P!Fetches, P!ActiveRun, P!Runs
  <2>3. [fetch[c] EXCEPT !.answer = [messages |-> fetch[c].loaded, active |-> P!ActiveRun(c)]] \in P!Fetches
    BY <2>1, <2>2 DEF P!Fetches
  <2>4. fetch' \in [Convs -> P!Fetches]
    BY <1>3, <1>e, <2>3 DEF P!Answer
  <2>5. QED
    BY <1>3, <2>4 DEF P!Answer, P!server, P!watched, P!TypeOK
<1>4. ASSUME NEW c \in Convs, P!Land(c)
      PROVE  P!TypeOK'
  <2>1. fetch[c].answer \in P!Copies
    BY <1>4, <1>e DEF P!Land, P!Fetches
  <2>2. [cache EXCEPT ![c] = fetch[c].answer] \in [Convs -> P!Copies \union {None}]
    BY <1>e, <2>1
  <2>3. P!Commit(open, [cache EXCEPT ![c] = fetch[c].answer])
    BY <1>4 DEF P!Land
  <2>4. fetch' \in [Convs -> P!Fetches] /\ invalid' \subseteq Convs
    BY <1>0, <1>4, <1>e DEF P!Land, P!TypeOK
  <2>5. QED
    BY <1>4, <1>e, <2>2, <2>3, <2>4, CommitType DEF P!Land, P!server, P!TypeOK
<1>5. ASSUME NEW c \in Convs, P!EndRun(c) \/ I!EndRun(c) \/ P!Store(c)
      PROVE  P!TypeOK'
  <2>1. run[c].turn \in Nat /\ run[c] \in P!Runs
    BY <1>5, <1>e DEF P!EndRun, I!EndRun, P!Store, P!Runs
  <2>2. Append(stored[c], P!Message(c, "assistant", run[c].turn)) \in Seq(P!Messages)
    BY <1>b, <1>e, <2>1, AppendProperties
  <2>3. [run[c] EXCEPT !.ended = TRUE] \in P!Runs
    BY <2>1 DEF P!Runs
  <2>4. /\ stored' \in {stored, [stored EXCEPT ![c] = Append(stored[c], P!Message(c, "assistant", run[c].turn))]}
        /\ run' \in {[run EXCEPT ![c] = P!NoRun], [run EXCEPT ![c] = [run[c] EXCEPT !.ended = TRUE]]}
        /\ UNCHANGED <<open, cache, invalid, fetch, requests, generation, live, settled, settling,
                       turns, edits, reloads>>
    BY <1>5
    DEF P!EndRun, I!EndRun, P!Store, P!StoreReply, I!StoreReply, P!Message, I!Message, P!NoRun, I!NoRun,
        P!watched, I!watched
  <2>5. stored' \in [Convs -> Seq(P!Messages)] /\ run' \in [Convs -> P!Runs]
    BY <1>a, <1>e, <2>2, <2>3, <2>4
  <2>6. QED
    BY <2>4, <2>5 DEF P!TypeOK
<1>6. CASE P!Send \/ I!Send
  <2> DEFINE q == [P!Message(open, "user", turns + 1) EXCEPT !.temporary = TRUE]
             s == Append(cache[open].messages, q)
             data == IF cache[open] = None THEN cache ELSE [cache EXCEPT ![open].messages = s]
  <2>1. /\ P!Commit(open, data) /\ invalid' = P!Touched(open, data)
        /\ fetch' = [fetch EXCEPT ![open] = P!Nothing]
        /\ requests' = requests \union {P!Request("send", open, cache[open])}
        /\ turns' = turns + 1
        /\ UNCHANGED <<stored, run, edits, reloads>>
    <3>1. CASE P!Send
      BY <3>1 DEF P!Send, P!Optimistic, P!Cancelled, P!server
    <3>2. CASE I!Send
      <4>1. \A c, d : I!Commit(c, d) = P!Commit(c, d)
        BY DEF I!Commit, P!Commit, I!Adopted, P!Adopted, I!Active, P!Active, I!LiveOf, P!LiveOf,
               I!Held, P!Held
      <4>2. QED
        BY <3>2, <4>1
        DEF I!Send, I!Optimistic, I!Cancelled, I!server, I!Message, P!Message, I!Touched, P!Touched,
            I!Request, P!Request, I!Nothing, P!Nothing
    <3>3. QED
      BY <1>6, <3>1, <3>2
  <2>2. q \in P!Messages
    <3>1. P!Message(open, "user", turns + 1) \in P!Messages
      BY <1>e DEF P!Message, P!Messages
    <3>2. \A m \in P!Messages : [m EXCEPT !.temporary = TRUE] \in P!Messages
      BY DEF P!Messages
    <3>3. QED
      BY <3>1, <3>2
  <2>3. data \in [Convs -> P!Copies \union {None}]
    <3>1. CASE cache[open] # None
      <4>1. s \in Seq(P!Messages)
        BY <1>e, <2>2, <3>1, AppendProperties DEF P!Copies
      <4>2. QED
        <5>1. data = With(open, s)
          BY <3>1 DEF With
        <5> HIDE DEF data, s
        <5>2. QED
          BY <1>e, <3>1, <4>1, <5>1, CopyIs
    <3>2. QED
      BY <1>e, <3>1
  <2> HIDE DEF data
  <2>4. fetch' \in [Convs -> P!Fetches] /\ requests' \subseteq P!Requests /\ turns' \in Nat
    BY <1>0, <1>c, <1>e, <2>1 DEF P!TypeOK
  <2>5. QED
    BY <1>e, <1>f, <2>1, <2>3, <2>4, CommitType DEF P!TypeOK
<1>7. CASE P!Regenerate \/ I!Regenerate
  <2> DEFINE s == P!Front(cache[open].messages)
             data == IF P!LastIs(cache[open].messages, "assistant")
                     THEN [cache EXCEPT ![open].messages = s] ELSE cache
  <2>1. /\ P!Commit(open, data) /\ invalid' = P!Touched(open, data)
        /\ cache[open] # None /\ cache[open].messages # << >>
        /\ fetch' = [fetch EXCEPT ![open] = P!Nothing]
        /\ requests' = requests \union {P!Request("regenerate", open, None)}
        /\ turns' = turns + 1
        /\ UNCHANGED <<stored, run, edits, reloads>>
    <3>1. CASE P!Regenerate
      BY <3>1 DEF P!Regenerate, P!Cancelled, P!server
    <3>2. CASE I!Regenerate
      <4>1. \A c, d : I!Commit(c, d) = P!Commit(c, d)
        BY DEF I!Commit, P!Commit, I!Adopted, P!Adopted, I!Active, P!Active, I!LiveOf, P!LiveOf,
               I!Held, P!Held
      <4>2. QED
        BY <3>2, <4>1
        DEF I!Regenerate, I!Cancelled, I!server, I!Touched, P!Touched, I!Request, P!Request,
            I!Nothing, P!Nothing, I!LastIs, P!LastIs, I!Last, P!Last, I!Front, P!Front
    <3>3. QED
      BY <1>7, <3>1, <3>2
  <2>2. s \in Seq(P!Messages)
    BY <1>e, <2>1, FrontIs DEF P!Copies
  <2>3. data \in [Convs -> P!Copies \union {None}]
    <3>1. data = IF P!LastIs(cache[open].messages, "assistant") THEN With(open, s) ELSE cache
      BY DEF With
    <3> HIDE DEF data, s
    <3>2. QED
      BY <1>e, <2>1, <2>2, <3>1, CopyIs
  <2> HIDE DEF data
  <2>4. fetch' \in [Convs -> P!Fetches] /\ requests' \subseteq P!Requests /\ turns' \in Nat
    BY <1>0, <1>c, <1>e, <2>1 DEF P!TypeOK
  <2>5. QED
    BY <1>e, <1>f, <2>1, <2>3, <2>4, CommitType DEF P!TypeOK
<1>8. CASE P!Edit \/ I!Edit
  <2>1. [P!Request("edit", open, None) EXCEPT !.turn = 0] \in P!Requests
    <3>1. P!Request("edit", open, None) \in P!Requests
      BY <1>c, <1>e
    <3>2. \A r \in P!Requests : [r EXCEPT !.turn = 0] \in P!Requests
      BY DEF P!Requests
    <3>3. QED
      BY <3>1, <3>2
  <2>2. /\ requests' = requests \union {[P!Request("edit", open, None) EXCEPT !.turn = 0]}
        /\ edits' = edits + 1
        /\ UNCHANGED <<stored, run, open, cache, invalid, fetch, generation, live, settled, settling,
                       turns, reloads>>
    BY <1>8 DEF P!Edit, I!Edit, P!Request, I!Request, P!server, I!server, P!watched, I!watched
  <2>3. requests' \subseteq P!Requests /\ edits' \in Nat
    <3>1. requests' \subseteq P!Requests
      BY <2>1, <2>2 DEF P!TypeOK
    <3>2. edits' \in Nat
      BY <1>e, <2>2
    <3>3. QED
      BY <3>1, <3>2
  <2>4. QED
    BY <2>2, <2>3 DEF P!TypeOK
<1>9. CASE P!Settle
  <2>1. generation \in P!Generations
    BY <1>9 DEF P!Settle, P!TypeOK
  <2>2. settled' \in Nat \union {None} /\ settling' \in P!Generations \union {None}
    BY <1>9, <2>1 DEF P!Settle, P!TypeOK, P!Hold, P!Generations
  <2>3. /\ generation' \in P!Generations \union {None} /\ live' \in {"idle", "running", "ended"}
        /\ invalid' \subseteq Convs
    BY <1>9, <2>1 DEF P!Settle, P!TypeOK, P!Generations
  <2>4. fetch' \in [Convs -> P!Fetches]
    BY <1>0, <1>9, <1>e DEF P!Settle
  <2>5. QED
    BY <1>9, <2>2, <2>3, <2>4 DEF P!Settle, P!TypeOK, P!server
<1>10. CASE P!Reload \/ I!Reload
  <2>1. I!Nothing = P!Nothing /\ I!Asked = P!Asked
    BY DEF I!Nothing, P!Nothing, I!Asked, P!Asked
  <2>2. fetch' \in [Convs -> P!Fetches] /\ cache' \in [Convs -> P!Copies \union {None}]
    BY <1>0, <1>10, <2>1 DEF P!Reload, I!Reload
  <2>3. QED
    BY <1>10, <2>2 DEF P!Reload, I!Reload, P!TypeOK, P!server, I!server
<1>11. ASSUME NEW r \in requests, P!Refuse(r) \/ I!Refuse(r)
       PROVE  P!TypeOK'
  <2>1. /\ requests' = (requests \ {r}) \union {[r EXCEPT !.answer = "refused"]}
        /\ UNCHANGED <<stored, run, open, cache, invalid, fetch, generation, live, settled, settling,
                       turns, edits, reloads>>
    BY <1>11 DEF P!Refuse, I!Refuse, P!Answered, I!Answered, P!server, I!server, P!watched, I!watched
  <2>2. QED
    BY <1>d, <2>1 DEF P!TypeOK
<1>12. ASSUME NEW r \in requests, P!Start(r)
       PROVE  P!TypeOK'
  <2>1. P!Question(r) \in Seq(P!Messages)
    <3>1. Append(stored[r.of], P!Message(r.of, "user", r.turn)) \in Seq(P!Messages)
      BY <1>b, <1>d, <1>e, AppendProperties
    <3>2. P!LastIs(stored[r.of], "assistant") => P!Front(stored[r.of]) \in Seq(P!Messages)
      BY <1>d, <1>e, FrontIs DEF P!LastIs
    <3>3. QED
      BY <1>d, <1>e, <3>1, <3>2 DEF P!Question
  <2>2. [turn |-> r.turn, ended |-> FALSE] \in P!Runs
    BY <1>d DEF P!Runs
  <2>3. stored' \in [Convs -> Seq(P!Messages)] /\ run' \in [Convs -> P!Runs]
    BY <1>12, <1>d, <1>e, <2>1, <2>2 DEF P!Start
  <2>4. requests' \subseteq P!Requests
    BY <1>12, <1>d DEF P!Start, P!Answered, P!TypeOK
  <2>5. QED
    BY <1>12, <2>3, <2>4 DEF P!Start, P!TypeOK, P!watched
<1>13. ASSUME NEW r \in requests, P!ApplyEdit(r)
       PROVE  P!TypeOK'
  <2> DEFINE s == Reworded(stored[r.of])
             m == [messages |-> s, active |-> None]
             n == [r EXCEPT !.answer = "accepted", !.previous = m]
  <2>1. s \in Seq(P!Messages)
    BY <1>d, <1>e, EditIs
  <2>2. m \in P!Copies
    BY <2>1 DEF P!Copies
  <2>3. stored' = [stored EXCEPT ![r.of] = s]
    BY <1>13 DEF P!ApplyEdit, Reworded
  <2>4. stored'[r.of] = s
    BY <1>d, <1>e, <2>3
  <2>5. requests' = (requests \ {r}) \union {n}
    BY <1>13, <2>4 DEF P!ApplyEdit
  <2> HIDE DEF s, m
  <2>6. n \in P!Requests
    BY <2>2 DEF P!TypeOK, P!Requests
  <2> HIDE DEF n
  <2>7. stored' \in [Convs -> Seq(P!Messages)] /\ requests' \subseteq P!Requests
    BY <1>d, <1>e, <2>1, <2>3, <2>5, <2>6 DEF P!TypeOK
  <2>8. QED
    BY <1>13, <2>7 DEF P!ApplyEdit, P!TypeOK, P!watched
<1>14. ASSUME NEW r \in requests, P!Accepted(r)
       PROVE  P!TypeOK'
  <2>1. P!Reconciled(r) \in [Convs -> P!Copies \union {None}]
    <3>1. CASE cache[r.of] # None
      <4> DEFINE s == Confirmed(cache[r.of].messages, r.turn)
      <4>0. cache[r.of].messages \in Seq(P!Messages)
        BY <1>d, <1>e, <3>1 DEF P!Copies
      <4>1. s \in Seq(P!Messages)
        BY <4>0, ReconcileIs
      <4>2. P!Reconciled(r) = With(r.of, s)
        BY <3>1 DEF P!Reconciled, Confirmed, With
      <4> HIDE DEF s
      <4>3. With(r.of, s) \in [Convs -> P!Copies \union {None}]
        BY <1>d, <3>1, <4>1, CopyIs
      <4>4. QED
        BY <4>2, <4>3
    <3>2. QED
      BY <1>e, <3>1 DEF P!Reconciled
  <2>2. [turn |-> r.turn, of |-> r.of] \in P!Generations
    BY <1>d DEF P!Generations
  <2>3. cache' \in [Convs -> P!Copies \union {None}] /\ invalid' \subseteq Convs
    BY <1>14, <1>d, <1>e, <1>f, <2>1 DEF P!Accepted
  <2>4. settling' \in P!Generations \union {None}
    BY <1>14 DEF P!Accepted, P!Held, P!TypeOK
  <2>5. QED
    BY <1>14, <2>2, <2>3, <2>4 DEF P!Accepted, P!TypeOK, P!server
<1>15. ASSUME NEW r \in requests, P!Edited(r)
       PROVE  P!TypeOK'
  <2>1. [cache EXCEPT ![r.of] = r.previous] \in [Convs -> P!Copies \union {None}]
    BY <1>d, <1>e
  <2>2. P!Commit(open, [cache EXCEPT ![r.of] = r.previous])
    BY <1>15 DEF P!Edited
  <2>3. QED
    BY <1>15, <1>e, <2>1, <2>2, CommitType DEF P!Edited, P!TypeOK, P!server
<1>16. ASSUME NEW r \in requests, P!Refused(r)
       PROVE  P!TypeOK'
  <2> DEFINE data == IF r.kind = "send" /\ r.previous # None
                     THEN [cache EXCEPT ![r.of] = r.previous] ELSE cache
  <2>1. data \in [Convs -> P!Copies \union {None}]
    BY <1>d, <1>e
  <2>2. P!Commit(open, data) /\ invalid' = P!Touched(r.of, data)
    BY <1>16 DEF P!Refused
  <2> HIDE DEF data
  <2>3. QED
    BY <1>16, <1>d, <1>e, <1>f, <2>1, <2>2, CommitType DEF P!Refused, P!TypeOK, P!server
<1>17. QED
  BY <1>1, <1>2, <1>3, <1>4, <1>5, <1>6, <1>7, <1>8, <1>9, <1>10, <1>11, <1>12, <1>13, <1>14, <1>15,
     <1>16, SameReaders DEF P!Next, I!Next
-----------------------------------------------------------------------------
(* The patient reader: what was read and what was written are what is      *)
(* stored.                                                                 *)

Blank == [messages |-> << >>, active |-> None]
ReplyOf(t) == P!Message(here, "assistant", t)
QuestionOf(t) == P!Message(here, "user", t)

(* Nothing is ever written to the other conversations.                     *)
Elsewhere ==
    /\ \A c \in Convs \ {here} :
           /\ stored[c] = << >> /\ run[c] = P!NoRun /\ cache[c] \in {None, Blank}
           /\ fetch[c].loaded \in {None, << >>} /\ fetch[c].answer \in {None, Blank}
    /\ \A r \in requests : r.of = here

OneWrite == \A r, o \in requests : r = o

(* Nothing is written while the conversation is being read.                *)
Still == requests = {} /\ run[here] = P!NoRun /\ generation = None

Reading ==
    /\ \A c \in Convs : c # open => P!Idle(c)
    /\ cache[open] = None \/ open \in invalid => ~P!Idle(open)
    /\ ~P!Idle(here) \/ here \in invalid \/ cache[here] = None => Still
    /\ fetch[here].loaded # None => fetch[here].loaded = stored[here]
    /\ fetch[here].answer # None => fetch[here].answer = [messages |-> stored[here], active |-> None]
    /\ cache[here] # None => cache[here].active = None

(* Whose run there is.                                                     *)
Watching ==
    /\ live = (IF generation = None THEN "idle" ELSE "running")
    /\ settled # None => settled <= turns
    /\ generation # None => /\ generation.of = here /\ generation.turn # settled
                            /\ generation.turn <= turns /\ requests = {}
    /\ run[here] # P!NoRun =>
           /\ ~run[here].ended
           /\ \/ generation # None /\ generation.turn = run[here].turn
              \/ \E r \in requests : r.answer = "accepted" /\ r.turn = run[here].turn

(* What the messages become by a run.                                      *)
AfterRun(messages, t) ==
    stored[here] = IF run[here] # P!NoRun THEN messages ELSE Append(messages, ReplyOf(t))

Shown ==
    /\ requests = {} /\ generation = None /\ cache[here] # None /\ here \notin invalid =>
           cache[here].messages = stored[here]
    /\ generation # None => AfterRun(cache[here].messages, generation.turn)

(* What is shown before the answer, and what will be.                      *)
Pending(r) ==
    /\ r.answer # "accepted" => run[here] = P!NoRun
    /\ r.kind # "edit" => r.turn = turns /\ (settled # None => settled < turns)
    /\ r.kind = "send" =>
           /\ r.previous # None /\ r.previous.active = None
           /\ \A i \in DOMAIN r.previous.messages : ~r.previous.messages[i].temporary
           /\ cache[here].messages =
                  Append(r.previous.messages, [QuestionOf(r.turn) EXCEPT !.temporary = TRUE])
           /\ IF r.answer = "accepted" THEN AfterRun(Append(r.previous.messages, QuestionOf(r.turn)), r.turn)
              ELSE r.previous.messages = stored[here]
    /\ r.kind = "regenerate" =>
           IF r.answer = "accepted" THEN AfterRun(cache[here].messages, r.turn)
           ELSE cache[here].messages = P!Question(r)
    /\ r.kind = "edit" => run[here] = P!NoRun
    /\ r.kind = "edit" =>
           IF r.answer = "accepted" THEN r.previous = [messages |-> stored[here], active |-> None]
           ELSE cache[here].messages = stored[here]
    /\ r.kind # "send" => r.answer # "refused"

PatientInv ==
    /\ Elsewhere /\ OneWrite /\ Reading /\ Watching /\ Shown
    /\ \A r \in requests : Pending(r)
    /\ \A i \in DOMAIN stored[here] : ~stored[here][i].temporary

-----------------------------------------------------------------------------
(* The reader who does not wait: every question that is shown is stored or *)
(* on its way.                                                             *)

Questioned(messages) == {m.turn : m \in {n \in P!ToSet(messages) : n.type = "user"}}

Alone ==
    /\ open = here
    /\ \A c \in Convs \ {here} : cache[c] = None /\ fetch[c] = P!Nothing
    /\ \A r \in requests : r.of = here
    /\ generation # None => generation.of = here

(* A send has cancelled what was being read, and nothing is read meanwhile. *)
OnItsWay(r) ==
    /\ r.kind = "send" =>
           /\ P!Idle(here) /\ ~P!Busy(here)
           /\ r.previous = None => cache[here] = None
           /\ r.previous # None =>
                  /\ Questioned(r.previous.messages) \subseteq Questioned(stored[here])
                  /\ cache[here] # None
                  /\ Questioned(cache[here].messages) \subseteq Questioned(r.previous.messages) \union {r.turn}
           /\ r.answer = "accepted" => r.turn \in Questioned(stored[here])
    /\ r.kind = "edit" /\ r.answer = "accepted" =>
           r.previous # None /\ Questioned(r.previous.messages) = Questioned(stored[here])

ImpatientInv ==
    /\ Alone /\ OneWrite
    /\ fetch[here].loaded # None => Questioned(fetch[here].loaded) = Questioned(stored[here])
    /\ fetch[here].answer # None => Questioned(fetch[here].answer.messages) = Questioned(stored[here])
    /\ cache[here] # None =>
           Questioned(cache[here].messages) \subseteq Questioned(stored[here]) \union
               {r.turn : r \in {o \in requests : o.kind = "send" /\ o.answer # "accepted"}}
    /\ \A r \in requests : OnItsWay(r)
-----------------------------------------------------------------------------
LEMMA TheOne ==
  ASSUME OneWrite, NEW r \in requests
  PROVE  requests = {r}
BY DEF OneWrite

LEMMA NoneIsFree ==
  ASSUME OneWrite, P!Cardinality(requests) < 1
  PROVE  requests = {}
<1>1. SUFFICES ASSUME NEW r \in requests PROVE FALSE
  OBVIOUS
<1>2. requests = {r}
  BY <1>1, TheOne
<1>3. P!Cardinality({r}) = 1
  <2>1. P!Cardinality({r}) = Cardinality({r})
    BY DEF P!Cardinality, Cardinality
  <2>2. QED
    BY <2>1, FS_Singleton
<1>4. QED
  BY <1>2, <1>3

(* Of no copy a run is found that is not watched.                          *)
LEMMA NoAdoption ==
  ASSUME NEW c, NEW data, data[c] = None \/ data[c].active = None, P!Commit(c, data)
  PROVE  /\ open' = c /\ cache' = data /\ generation' = generation /\ live' = live
         /\ settled' = settled /\ settling' = P!Held(c, data)
BY DEF P!Commit, P!Adopted, P!Active, P!LiveOf

LEMMA NotIdle ==
  /\ P!Asked # P!Nothing /\ P!Asked.loaded = None /\ P!Asked.answer = None
  /\ P!Nothing.loaded = None /\ P!Nothing.answer = None
  /\ P!NoRun.turn = None /\ P!NoRun.ended
BY DEF P!Asked, P!Nothing, P!NoRun

(* What the invariant says when nothing but what is read changes.          *)
LEMMA ReadsOnly ==
  ASSUME PatientInv, UNCHANGED <<stored, run, requests, generation, live, settled, turns>>,
         cache'[here] = cache[here]
  PROVE  /\ Watching' /\ OneWrite' /\ (\A r \in requests' : Pending(r)')
         /\ (\A i \in DOMAIN stored'[here] : ~stored'[here][i].temporary)
         /\ (\A r \in requests' : r.of = here) /\ (Still <=> Still')
<1>1. \A m, t : AfterRun(m, t) <=> AfterRun(m, t)'
  BY DEF AfterRun, ReplyOf, P!Message, P!NoRun
<1>2. \A r \in requests : Pending(r) => Pending(r)'
  BY <1>1 DEF Pending, P!Question, P!LastIs, P!NoRun, QuestionOf, P!Message
<1>3. QED
  BY <1>2 DEF PatientInv, Watching, OneWrite, Elsewhere, Still, P!NoRun

LEMMA PatientOpens ==
  ASSUME Assumptions, P!TypeOK, PatientInv, NEW c \in Convs, P!Open(c)
  PROVE  PatientInv'
<1>1. c # open /\ c \in Convs /\ here \in Convs /\ open \in Convs /\ P!Commit(c, cache)
  BY NoneApart DEF P!Open, P!TypeOK
<1>2. /\ open' = c /\ cache' = cache
      /\ UNCHANGED <<stored, run, requests, generation, live, settled, turns, invalid>>
  <2>1. cache[c] = None \/ cache[c].active = None
    BY <1>1 DEF PatientInv, Elsewhere, Reading, Blank
  <2>2. QED
    BY <1>1, <2>1, NoAdoption DEF P!Open, P!server
<1>3. \A d \in Convs : fetch'[d] = IF d # c THEN P!Nothing
                                   ELSE IF cache[c] = None \/ c \in invalid THEN P!Asked ELSE P!Nothing
  BY <1>1 DEF P!Open, P!TypeOK, PatientInv, Reading, P!Idle
<1>4. Elsewhere'
  BY <1>2, <1>3, NotIdle DEF PatientInv, Elsewhere, P!NoRun
<1>5. Reading'
  BY <1>1, <1>2, <1>3, NotIdle, ReadsOnly DEF PatientInv, Reading, P!Idle, P!Nothing
<1>6. Shown'
  BY <1>2 DEF PatientInv, Shown, AfterRun, ReplyOf, P!Message, P!NoRun
<1>7. QED
  BY <1>2, <1>4, <1>5, <1>6, ReadsOnly DEF PatientInv

LEMMA PatientLoads ==
  ASSUME Assumptions, P!TypeOK, PatientInv, NEW c \in Convs, P!Load(c) \/ P!Answer(c)
  PROVE  PatientInv'
<1>0. here \in Convs /\ open \in Convs /\ None \notin P!Copies
  BY NoneApart DEF P!TypeOK
<1>1. UNCHANGED <<stored, run, open, cache, invalid, requests, generation, live, settled, turns>>
  BY DEF P!Load, P!Answer, P!server, P!watched
<1>2. /\ fetch[c] # P!Nothing /\ c = open
      /\ \A d \in Convs : d # c => fetch'[d] = fetch[d]
  BY NotIdle DEF P!Load, P!Answer, PatientInv, Reading, P!Idle, P!TypeOK
<1>3. /\ fetch'[c] # P!Nothing
      /\ fetch'[c].loaded # None => fetch'[c].loaded = stored[c]
      /\ fetch'[c].answer # None => fetch'[c].answer = [messages |-> stored[c], active |-> None]
  <2>1. CASE P!Load(c)
    <3>1. fetch'[c] = [P!Asked EXCEPT !.loaded = stored[c]]
      BY <2>1 DEF P!Load, P!TypeOK
    <3>2. fetch'[c] = [asked |-> TRUE, loaded |-> stored[c], answer |-> None]
      BY <3>1 DEF P!Asked, P!Nothing
    <3>3. QED
      BY <3>2 DEF P!Nothing
  <2>2. CASE P!Answer(c)
    <3>1. run[c] = P!NoRun /\ fetch[c].loaded = stored[c]
      BY <1>0, <1>2, <2>2 DEF P!Answer, PatientInv, Elsewhere, Reading, Still, P!Idle
    <3>2. P!ActiveRun(c) = None
      BY <3>1, NotIdle DEF P!ActiveRun
    <3>3. fetch'[c] = [fetch[c] EXCEPT !.answer = [messages |-> stored[c], active |-> None]]
      BY <2>2, <3>1, <3>2 DEF P!Answer, P!TypeOK
    <3>4. [messages |-> stored[c], active |-> None] \in P!Copies /\ fetch[c] \in P!Fetches
      BY DEF P!Copies, P!TypeOK
    <3>5. QED
      BY <1>0, <3>1, <3>3, <3>4, NotIdle DEF P!Fetches
  <2>3. QED
    BY <2>1, <2>2
<1>4. Elsewhere'
  BY <1>0, <1>1, <1>2, <1>3 DEF PatientInv, Elsewhere, Blank, P!NoRun
<1>5. Reading'
  BY <1>0, <1>1, <1>2, <1>3, ReadsOnly DEF PatientInv, Reading, P!Idle, P!Nothing
<1>6. Shown'
  BY <1>1 DEF PatientInv, Shown, AfterRun, ReplyOf, P!Message, P!NoRun
<1>7. QED
  BY <1>1, <1>4, <1>5, <1>6, ReadsOnly DEF PatientInv

LEMMA LandIs ==
  ASSUME Assumptions, P!TypeOK, PatientInv, NEW c \in Convs, P!Land(c),
         NEW m, m = [messages |-> stored[c], active |-> None]
  PROVE  /\ fetch[c] # P!Nothing /\ c = open /\ fetch[c].answer = m /\ m.active = None /\ m # None
         /\ open' = open /\ cache' = [cache EXCEPT ![c] = m] /\ invalid' = invalid \ {c}
         /\ UNCHANGED <<stored, run, requests, generation, live, settled, turns>>
         /\ fetch' = [fetch EXCEPT ![c] = P!Nothing]
         /\ \A d \in Convs : fetch'[d] = P!Nothing
         /\ cache'[c] = m /\ \A d \in Convs : d # c => cache'[d] = cache[d]
<1>0. here \in Convs /\ open \in Convs /\ None \notin P!Copies
  BY NoneApart DEF P!TypeOK
<1>1. fetch[c] # P!Nothing /\ c = open /\ fetch[c].answer = m /\ m.active = None /\ m # None
  <2>1. fetch[c] # P!Nothing /\ c = open
    BY NotIdle DEF P!Land, PatientInv, Reading, P!Idle
  <2>2. fetch[c].answer = m
    BY <2>1 DEF P!Land, PatientInv, Elsewhere, Reading, Blank
  <2>3. QED
    BY <2>1, <2>2 DEF P!Land
<1>2. /\ open' = open /\ cache' = [cache EXCEPT ![c] = m] /\ invalid' = invalid \ {c}
      /\ UNCHANGED <<stored, run, requests, generation, live, settled, turns>>
      /\ fetch' = [fetch EXCEPT ![c] = P!Nothing]
  <2>1. [cache EXCEPT ![c] = m][open].active = None
    BY <1>0, <1>1 DEF P!TypeOK
  <2>2. P!Commit(open, [cache EXCEPT ![c] = m])
    BY <1>1 DEF P!Land
  <2>3. QED
    BY <1>1, <2>1, <2>2, NoAdoption DEF P!Land, P!server
<1>3. /\ \A d \in Convs : fetch'[d] = P!Nothing
      /\ cache'[c] = m /\ \A d \in Convs : d # c => cache'[d] = cache[d]
  BY <1>1, <1>2 DEF P!TypeOK, PatientInv, Reading, P!Idle
<1>4. QED
  BY <1>1, <1>2, <1>3

LEMMA PatientLands ==
  ASSUME Assumptions, P!TypeOK, PatientInv, NEW c \in Convs, P!Land(c)
  PROVE  PatientInv'
<1>m. PICK m : m = [messages |-> stored[c], active |-> None]
  OBVIOUS
<1>0. here \in Convs /\ open \in Convs /\ None \notin P!Copies
  BY NoneApart DEF P!TypeOK
<1>1. fetch[c] # P!Nothing /\ c = open /\ fetch[c].answer = m /\ m.active = None /\ m # None
  BY <1>m, LandIs
<1>2. /\ open' = open /\ cache' = [cache EXCEPT ![c] = m] /\ invalid' = invalid \ {c}
      /\ UNCHANGED <<stored, run, requests, generation, live, settled, turns>>
      /\ fetch' = [fetch EXCEPT ![c] = P!Nothing]
  BY <1>m, LandIs
<1>3. /\ \A d \in Convs : fetch'[d] = P!Nothing
      /\ cache'[c] = m /\ \A d \in Convs : d # c => cache'[d] = cache[d]
  BY <1>m, LandIs
<1>4. Elsewhere'
  BY <1>0, <1>2, <1>3, <1>m, NotIdle DEF PatientInv, Elsewhere, Blank, P!NoRun
<1>5. CASE c = here
  <2>1. Still /\ Still'
    BY <1>1, <1>2, <1>5 DEF PatientInv, Reading, P!Idle, Still, P!NoRun
  <2>2. Reading'
    BY <1>0, <1>1, <1>2, <1>3, <1>5, <1>m, <2>1, NotIdle DEF PatientInv, Reading, P!Idle, P!Nothing
  <2>3. Shown' /\ Watching' /\ OneWrite' /\ \A r \in requests' : Pending(r)'
    BY <1>1, <1>2, <1>3, <1>5, <1>m, <2>1 DEF PatientInv, Shown, Watching, OneWrite, Still
  <2>4. QED
    BY <1>2, <1>4, <2>2, <2>3 DEF PatientInv
<1>6. CASE c # here
  <2>1. cache'[here] = cache[here]
    BY <1>0, <1>3, <1>6
  <2>2. Reading'
    BY <1>0, <1>1, <1>2, <1>3, <1>6, <2>1, NotIdle, ReadsOnly
    DEF PatientInv, Reading, P!Idle, P!Nothing
  <2>3. Shown'
    BY <1>0, <1>2, <1>6, <2>1 DEF PatientInv, Shown, AfterRun, ReplyOf, P!Message, P!NoRun
  <2>4. QED
    BY <1>2, <1>4, <2>1, <2>2, <2>3, ReadsOnly DEF PatientInv
<1>7. QED
  BY <1>5, <1>6
(* Whoever writes has read what is stored.                                 *)
LEMMA PatientIsReady ==
  ASSUME Assumptions, P!TypeOK, PatientInv, P!Ready, open = here
  PROVE  /\ requests = {} /\ generation = None /\ run[here] = P!NoRun
         /\ \A c \in Convs : fetch[c] = P!Nothing
         /\ here \notin invalid
         /\ cache[here] \in P!Copies /\ cache[here] # None /\ cache[here].active = None
         /\ cache[here].messages = stored[here] /\ stored[here] \in Seq(P!Messages)
<1>1. requests = {}
  BY NoneIsFree DEF P!Ready, PatientInv
<1>2. fetch[here] = P!Nothing /\ cache[here] # None
  BY DEF P!Ready, P!Idle
<1>3. generation = None
  BY DEF P!Ready, P!Busy, PatientInv, Watching
<1>4. run[here] = P!NoRun
  BY <1>1, <1>3 DEF PatientInv, Watching
<1>5. here \notin invalid /\ \A c \in Convs : fetch[c] = P!Nothing
  BY <1>2 DEF PatientInv, Reading, P!Idle
<1>6. cache[here] \in P!Copies /\ stored[here] \in Seq(P!Messages)
  BY <1>2, NoneApart DEF P!TypeOK
<1>7. QED
  BY <1>1, <1>2, <1>3, <1>4, <1>5, <1>6 DEF PatientInv, Reading, Shown

(* One write, and nothing else but what is shown for it.                   *)
LEMMA PatientHasWritten ==
  ASSUME Assumptions, P!TypeOK, PatientInv, P!Ready, open = here,
         NEW r, requests' = {r}, r.of = here, Pending(r)',
         UNCHANGED <<stored, run, open, generation, live, settled>>,
         invalid' \subseteq invalid, turns' \in {turns, turns + 1},
         \A c \in Convs : fetch'[c] = P!Nothing,
         \A c \in Convs \ {here} : cache'[c] = cache[c],
         cache'[here] # None, cache'[here].active = None
  PROVE  PatientInv'
<1>1. /\ requests = {} /\ generation = None /\ run[here] = P!NoRun /\ here \notin invalid
      /\ here \in Convs /\ turns \in Nat /\ settled \in Nat \union {None} /\ None \notin Nat
  BY PatientIsReady, NoneApart DEF P!TypeOK
<1>2. Elsewhere'
  BY <1>1, NotIdle DEF PatientInv, Elsewhere, P!NoRun
<1>3. Reading'
  BY <1>1, NotIdle DEF PatientInv, Reading, P!Idle, P!Nothing
<1>4. Watching'
  BY <1>1 DEF PatientInv, Watching, P!NoRun
<1>5. Shown' /\ OneWrite' /\ \A o \in requests' : Pending(o)'
  BY <1>1 DEF Shown, OneWrite
<1>6. QED
  BY <1>1, <1>2, <1>3, <1>4, <1>5 DEF PatientInv

LEMMA PatientSends ==
  ASSUME Assumptions, P!TypeOK, PatientInv, P!Send
  PROVE  /\ PatientInv'
         /\ cache'[here] # None
         /\ \E q \in P!Messages : cache'[here].messages = Append(stored[here], q)
<1> DEFINE q == [QuestionOf(turns + 1) EXCEPT !.temporary = TRUE]
           s == Append(cache[here].messages, q)
           data == [cache EXCEPT ![here].messages = s]
<1>r. PICK r : r = P!Request("send", here, cache[here])
  OBVIOUS
<1>0. here \in Convs /\ turns \in Nat /\ settled \in Nat \union {None} /\ None \notin Nat
  BY NoneApart DEF P!TypeOK
<1>1. open = here /\ P!Ready
  BY DEF P!Send
<1>2. /\ requests = {} /\ \A c \in Convs : fetch[c] = P!Nothing
      /\ cache[here] # None /\ cache[here].active = None
      /\ cache[here].messages = stored[here] /\ stored[here] \in Seq(P!Messages)
  BY <1>1, PatientIsReady
<1>3. q \in P!Messages
  <2>1. QuestionOf(turns + 1) \in P!Messages
    BY <1>0 DEF QuestionOf, P!Message, P!Messages
  <2>2. \A m \in P!Messages : [m EXCEPT !.temporary = TRUE] \in P!Messages
    BY DEF P!Messages
  <2>3. QED
    BY <2>1, <2>2
<1>4. s \in Seq(P!Messages)
  BY <1>2, <1>3, AppendProperties
<1>5. P!Commit(here, data) /\ invalid' = P!Touched(here, data)
  BY <1>1, <1>2 DEF P!Send, P!Optimistic, QuestionOf
<1>a. data = With(here, s)
  BY DEF With
<1> HIDE DEF s, data
<1>6. /\ data \in [Convs -> P!Copies \union {None}] /\ data[here].messages = s
      /\ data[here].active = None /\ data[here] \in P!Copies
      /\ \A c \in Convs : c # here => data[c] = cache[c]
  BY <1>0, <1>2, <1>4, <1>a, CopyIs
<1>7. /\ open' = here /\ cache' = data
      /\ UNCHANGED <<stored, run, generation, live, settled>>
      /\ requests' = {r} /\ turns' = turns + 1 /\ invalid' \subseteq invalid
      /\ \A c \in Convs : fetch'[c] = P!Nothing
  <2>1. UNCHANGED <<stored, run, generation, live, settled>> /\ open' = here /\ cache' = data
    BY <1>5, <1>6, NoAdoption DEF P!Send, P!server
  <2>2. requests' = {r} /\ turns' = turns + 1
    BY <1>1, <1>2, <1>r DEF P!Send
  <2>3. fetch' = [fetch EXCEPT ![here] = P!Nothing]
    BY <1>1 DEF P!Send, P!Cancelled
  <2>4. QED
    BY <1>2, <1>5, <2>1, <2>2, <2>3 DEF P!Touched, P!TypeOK
<1>8. /\ r.of = here /\ r.kind = "send" /\ r.turn = turns + 1 /\ r.previous = cache[here]
      /\ r.answer = "none"
  BY <1>r DEF P!Request
<1>9. Pending(r)'
  <2>1. settled # None => settled < turns'
    BY <1>0, <1>7 DEF PatientInv, Watching
  <2>2. run[here] = P!NoRun
    BY <1>1, PatientIsReady
  <2>3. \A i \in DOMAIN stored[here] : ~stored[here][i].temporary
    BY DEF PatientInv
  <2> HIDE DEF q
  <2>4. cache'[here].messages = Append(stored[here], q)
    BY <1>2, <1>6, <1>7 DEF s
  <2>5. q = [QuestionOf(r.turn)' EXCEPT !.temporary = TRUE] /\ P!NoRun' = P!NoRun
    BY <1>8 DEF q, QuestionOf, P!Message, P!NoRun
  <2>6. QED
    BY <1>2, <1>7, <1>8, <2>1, <2>2, <2>3, <2>4, <2>5 DEF Pending
<1>10. QED
  <2>0. cache'[here].messages = Append(stored[here], q)
    BY <1>2, <1>6, <1>7 DEF s
  <2> HIDE DEF q
  <2>1. cache'[here] # None /\ cache'[here].active = None
    BY <1>6, <1>7, NoneApart
  <2>2. \A c \in Convs \ {here} : cache'[c] = cache[c]
    BY <1>6, <1>7
  <2>3. QED
    <3>1. PatientInv'
      BY <1>0, <1>1, <1>7, <1>8, <1>9, <2>1, <2>2, PatientHasWritten
    <3>2. QED
      BY <1>3, <2>0, <2>1, <3>1

LEMMA PatientRegenerates ==
  ASSUME Assumptions, P!TypeOK, PatientInv, P!Regenerate
  PROVE  PatientInv'
<1> DEFINE s == IF P!LastIs(stored[here], "assistant") THEN P!Front(stored[here]) ELSE stored[here]
           data == IF P!LastIs(cache[here].messages, "assistant")
                   THEN [cache EXCEPT ![here].messages = P!Front(@)] ELSE cache
<1>r. PICK r : r = P!Request("regenerate", here, None)
  OBVIOUS
<1>0. here \in Convs /\ turns \in Nat /\ settled \in Nat \union {None} /\ None \notin Nat
  BY NoneApart DEF P!TypeOK
<1>1. open = here /\ P!Ready /\ cache[here].messages # << >>
  BY DEF P!Regenerate
<1>2. /\ requests = {} /\ \A c \in Convs : fetch[c] = P!Nothing
      /\ cache[here] # None /\ cache[here].active = None /\ cache[here] \in P!Copies
      /\ cache[here].messages = stored[here] /\ stored[here] \in Seq(P!Messages)
      /\ run[here] = P!NoRun
  BY <1>1, PatientIsReady
<1>3. P!Commit(here, data) /\ invalid' = P!Touched(here, data)
  BY <1>1 DEF P!Regenerate
<1>4. /\ data[here].messages = s /\ data[here].active = None /\ data[here] \in P!Copies
      /\ \A c \in Convs : c # here => data[c] = cache[c]
  <2>1. CASE P!LastIs(stored[here], "assistant")
    <3>1. P!Front(stored[here]) \in Seq(P!Messages)
      BY <1>1, <1>2, FrontIs
    <3>2. data = With(here, P!Front(stored[here]))
      BY <1>2, <2>1 DEF With
    <3> HIDE DEF data
    <3>3. QED
      BY <1>0, <1>2, <2>1, <3>1, <3>2, CopyIs
  <2>2. QED
    BY <1>2, <2>1
<1> HIDE DEF data
<1>5. /\ open' = here /\ cache' = data
      /\ UNCHANGED <<stored, run, generation, live, settled>>
      /\ requests' = {r} /\ turns' = turns + 1 /\ invalid' \subseteq invalid
      /\ \A c \in Convs : fetch'[c] = P!Nothing
  <2>1. UNCHANGED <<stored, run, generation, live, settled>> /\ open' = here /\ cache' = data
    BY <1>3, <1>4, NoAdoption DEF P!Regenerate, P!server
  <2>2. requests' = {r} /\ turns' = turns + 1
    BY <1>1, <1>2, <1>r DEF P!Regenerate
  <2>3. fetch' = [fetch EXCEPT ![here] = P!Nothing]
    BY <1>1 DEF P!Regenerate, P!Cancelled
  <2>4. QED
    BY <1>2, <1>3, <2>1, <2>2, <2>3 DEF P!Touched, P!TypeOK
<1>6. r.of = here /\ r.kind = "regenerate" /\ r.turn = turns + 1 /\ r.answer = "none"
  BY <1>r DEF P!Request
<1>7. Pending(r)'
  <2>1. settled # None => settled < turns'
    BY <1>0, <1>5 DEF PatientInv, Watching
  <2>2. P!Question(r)' = s /\ P!NoRun' = P!NoRun
    BY <1>5, <1>6 DEF P!Question, P!LastIs, P!NoRun
  <2>3. QED
    BY <1>2, <1>4, <1>5, <1>6, <2>1, <2>2 DEF Pending
<1>8. QED
  <2> HIDE DEF s
  <2>1. cache'[here] # None /\ cache'[here].active = None
    BY <1>4, <1>5, NoneApart
  <2>2. \A c \in Convs \ {here} : cache'[c] = cache[c]
    BY <1>4, <1>5
  <2>3. QED
    BY <1>0, <1>1, <1>5, <1>6, <1>7, <2>1, <2>2, PatientHasWritten

LEMMA PatientEdits ==
  ASSUME Assumptions, P!TypeOK, PatientInv, P!Edit
  PROVE  PatientInv'
<1>r. PICK r : r = [P!Request("edit", here, None) EXCEPT !.turn = 0]
  OBVIOUS
<1>1. open = here
  BY DEF P!Edit, PatientInv, Elsewhere, P!TypeOK, Blank
<1>2. P!Ready
  BY DEF P!Edit
<1>3. /\ requests = {} /\ \A c \in Convs : fetch[c] = P!Nothing /\ run[here] = P!NoRun
      /\ cache[here] # None /\ cache[here].active = None /\ cache[here].messages = stored[here]
  BY <1>1, <1>2, PatientIsReady
<1>4. requests' = {r} /\ UNCHANGED <<stored, run, open, cache, invalid, fetch, generation, live, settled, turns>>
  BY <1>1, <1>3, <1>r DEF P!Edit, P!server, P!watched
<1>5. r.of = here /\ r.kind = "edit" /\ r.answer = "none"
  BY <1>r DEF P!Request
<1>6. Pending(r)'
  BY <1>3, <1>4, <1>5 DEF Pending, P!NoRun
<1>7. QED
  BY <1>1, <1>2, <1>3, <1>4, <1>5, <1>6, PatientHasWritten
(* While something is written, nothing is read.                            *)
LEMMA PatientWaits ==
  ASSUME Assumptions, P!TypeOK, PatientInv, NEW r \in requests
  PROVE  /\ requests = {r} /\ r.of = here /\ Pending(r) /\ here \in Convs
         /\ fetch[here] = P!Nothing /\ here \notin invalid /\ generation = None
         /\ cache[here] # None /\ cache[here].active = None
         /\ cache[here] \in P!Copies /\ cache[here].messages \in Seq(P!Messages)
         /\ stored[here] \in Seq(P!Messages)
         /\ r \in P!Requests /\ (r.previous # None => r.previous.messages \in Seq(P!Messages))
<1>1. requests = {r} /\ r.of = here /\ Pending(r) /\ ~Still /\ here \in Convs /\ generation = None
  BY TheOne, NoneApart DEF PatientInv, Elsewhere, Still, Watching
<1>2. fetch[here] = P!Nothing /\ here \notin invalid /\ cache[here] # None /\ cache[here].active = None
  BY <1>1 DEF PatientInv, Reading, P!Idle
<1>3. cache[here] \in P!Copies /\ cache[here].messages \in Seq(P!Messages)
  BY <1>1, <1>2 DEF P!TypeOK, P!Copies
<1>4. r \in P!Requests /\ (r.previous # None => r.previous.messages \in Seq(P!Messages))
  BY DEF P!TypeOK, P!Requests, P!Copies
<1>5. QED
  BY <1>1, <1>2, <1>3, <1>4 DEF P!TypeOK

(* The server answers.                                                     *)
LEMMA PatientIsAnswered ==
  ASSUME Assumptions, P!TypeOK, PatientInv, NEW r \in requests,
         NEW o, requests' = {o}, o.of = here, Pending(o)',
         UNCHANGED <<open, cache, invalid, fetch, generation, live, settled, turns>>,
         \A c \in Convs \ {here} : stored'[c] = stored[c] /\ run'[c] = run[c],
         \/ run'[here] = P!NoRun
         \/ ~run'[here].ended /\ o.answer = "accepted" /\ o.turn = run'[here].turn,
         \A i \in DOMAIN stored'[here] : ~stored'[here][i].temporary
  PROVE  PatientInv'
<1>1. /\ requests = {r} /\ fetch[here] = P!Nothing /\ here \notin invalid /\ generation = None
      /\ here \in Convs /\ cache[here] # None
  BY PatientWaits
<1>2. Elsewhere'
  BY DEF PatientInv, Elsewhere, P!NoRun
<1>3. Reading'
  BY <1>1, NotIdle DEF PatientInv, Reading, P!Idle, P!Nothing
<1>4. Watching'
  BY <1>1 DEF PatientInv, Watching, P!NoRun
<1>5. Shown' /\ OneWrite' /\ \A n \in requests' : Pending(n)'
  BY <1>1 DEF Shown, OneWrite
<1>6. QED
  BY <1>2, <1>3, <1>4, <1>5 DEF PatientInv

LEMMA PatientIsRefused ==
  ASSUME Assumptions, P!TypeOK, PatientInv, NEW r \in requests, P!Refuse(r)
  PROVE  PatientInv'
<1> DEFINE o == [r EXCEPT !.answer = "refused"]
<1>1. /\ requests = {r} /\ r.of = here /\ Pending(r) /\ r \in P!Requests
  BY PatientWaits
<1>2. run[here] = P!NoRun /\ r.kind = "send" /\ r.answer = "none"
  BY <1>1, NotIdle DEF P!Refuse, Pending
<1>3. /\ requests' = {o}
      /\ UNCHANGED <<stored, run, open, cache, invalid, fetch, generation, live, settled, turns>>
  BY <1>1 DEF P!Refuse, P!Answered, P!server, P!watched
<1>4. /\ o.of = here /\ o.kind = "send" /\ o.turn = r.turn /\ o.previous = r.previous
      /\ o.answer = "refused"
  BY <1>1, <1>2 DEF P!Requests
<1> HIDE DEF o
<1>5. Pending(o)'
  BY <1>1, <1>2, <1>3, <1>4 DEF Pending, P!NoRun, QuestionOf, P!Message
<1>6. /\ \A i \in DOMAIN stored'[here] : ~stored'[here][i].temporary
      /\ run'[here] = P!NoRun
  BY <1>2, <1>3 DEF PatientInv
<1>7. QED
  BY <1>3, <1>4, <1>5, <1>6, PatientIsAnswered

LEMMA PatientStarts ==
  ASSUME Assumptions, P!TypeOK, PatientInv, NEW r \in requests, P!Start(r)
  PROVE  PatientInv'
<1> DEFINE o == [r EXCEPT !.answer = "accepted"]
           q == QuestionOf(r.turn)
<1>1. /\ requests = {r} /\ r.of = here /\ Pending(r) /\ r \in P!Requests /\ here \in Convs
      /\ stored[here] \in Seq(P!Messages)
  BY PatientWaits
<1>2. /\ r.answer = "none" /\ r.kind \in {"send", "regenerate"}
      /\ requests' = {o}
      /\ UNCHANGED <<open, cache, invalid, fetch, generation, live, settled, turns>>
  BY <1>1 DEF P!Start, P!Answered, P!watched
<1>3. /\ stored'[here] = P!Question(r) /\ run'[here] = [turn |-> r.turn, ended |-> FALSE]
      /\ \A c \in Convs \ {here} : stored'[c] = stored[c] /\ run'[c] = run[c]
  BY <1>1 DEF P!Start, P!TypeOK
<1>4. run'[here] # P!NoRun /\ P!NoRun' = P!NoRun
  BY <1>3 DEF P!NoRun
<1>5. /\ o.of = here /\ o.kind = r.kind /\ o.turn = r.turn /\ o.previous = r.previous
      /\ o.answer = "accepted"
  BY <1>1 DEF P!Requests
<1>6. q \in P!Messages /\ ~q.temporary /\ q' = q
  BY <1>1 DEF QuestionOf, P!Message, P!Messages, P!Requests
<1> HIDE DEF o, q
<1>7. \A i \in DOMAIN stored'[here] : ~stored'[here][i].temporary
  <2>0. \A i \in 1 .. Len(stored[here]) : ~stored[here][i].temporary
    BY <1>1 DEF PatientInv
  <2>1. CASE r.kind = "send"
    <3>1. stored'[here] = Append(stored[here], q)
      BY <1>1, <1>3, <2>1 DEF P!Question, QuestionOf, q
    <3>2. QED
      BY <1>1, <1>6, <2>0, <3>1, AppendProperties
  <2>2. CASE r.kind # "send" /\ P!LastIs(stored[here], "assistant")
    <3>1. stored'[here] = P!Front(stored[here]) /\ stored[here] # << >>
      BY <1>1, <1>3, <2>2 DEF P!Question, P!LastIs
    <3>2. /\ DOMAIN P!Front(stored[here]) = 1 .. Len(stored[here]) - 1 /\ Len(stored[here]) \in Nat
          /\ \A i \in 1 .. Len(stored[here]) - 1 : P!Front(stored[here])[i] = stored[here][i]
      BY <1>1, <3>1, FrontIs
    <3>3. QED
      BY <2>0, <3>1, <3>2
  <2>3. CASE r.kind # "send" /\ ~P!LastIs(stored[here], "assistant")
    BY <1>1, <1>3, <2>0, <2>3 DEF P!Question
  <2>4. QED
    BY <2>1, <2>2, <2>3
<1>8. Pending(o)'
  <2>1. CASE r.kind = "send"
    <3>1. stored'[here] = Append(r.previous.messages, q)
      BY <1>1, <1>2, <1>3, <2>1 DEF P!Question, QuestionOf, q, Pending
    <3>2. QED
      BY <1>1, <1>2, <1>4, <1>5, <1>6, <2>1, <3>1 DEF Pending, AfterRun, q, QuestionOf, P!Message
  <2>2. CASE r.kind = "regenerate"
    BY <1>1, <1>2, <1>3, <1>4, <1>5, <2>2 DEF Pending, AfterRun
  <2>3. QED
    BY <1>2, <2>1, <2>2
<1>9. QED
  BY <1>2, <1>3, <1>5, <1>7, <1>8, PatientIsAnswered

LEMMA PatientIsEdited ==
  ASSUME Assumptions, P!TypeOK, PatientInv, NEW r \in requests, P!ApplyEdit(r)
  PROVE  PatientInv'
<1> DEFINE s == Reworded(stored[here])
<1>1. /\ requests = {r} /\ r.of = here /\ Pending(r) /\ r \in P!Requests /\ here \in Convs
      /\ stored[here] \in Seq(P!Messages)
  BY PatientWaits
<1>2. /\ r.kind = "edit" /\ stored' = [stored EXCEPT ![here] = s]
      /\ UNCHANGED <<run, open, cache, invalid, fetch, generation, live, settled, turns>>
  BY <1>1 DEF P!ApplyEdit, P!watched, Reworded
<1>3. stored'[here] = s /\ \A c \in Convs \ {here} : stored'[c] = stored[c] /\ run'[c] = run[c]
  BY <1>1, <1>2 DEF P!TypeOK
<1>4. PICK o : o = [r EXCEPT !.answer = "accepted",
                           !.previous = [messages |-> stored'[here], active |-> None]]
  OBVIOUS
<1>5. requests' = {o}
  BY <1>1, <1>4 DEF P!ApplyEdit
<1>6. /\ o.of = here /\ o.kind = "edit" /\ o.answer = "accepted"
      /\ o.previous = [messages |-> stored'[here], active |-> None]
  BY <1>1, <1>2, <1>4 DEF P!Requests
<1>7. \A i \in DOMAIN stored'[here] : ~stored'[here][i].temporary
  <2>1. s \in Seq(P!Messages) /\ \A i \in 1 .. Len(s) : ~s[i].temporary
    BY <1>1, EditIs DEF PatientInv
  <2> HIDE DEF s
  <2>2. QED
    BY <1>3, <2>1
<1>8. run'[here] = P!NoRun /\ P!NoRun' = P!NoRun
  BY <1>1, <1>2 DEF Pending, P!NoRun
<1>9. Pending(o)'
  BY <1>6, <1>8 DEF Pending
<1>10. QED
  BY <1>2, <1>3, <1>5, <1>6, <1>7, <1>8, <1>9, PatientIsAnswered

(* The reply is appended.                                                  *)
LEMMA PatientIsReplied ==
  ASSUME Assumptions, P!TypeOK, PatientInv, NEW c \in Convs, P!EndRun(c) \/ P!Store(c)
  PROVE  PatientInv'
<1>1. c = here /\ run[here] # P!NoRun /\ here \in Convs /\ stored[here] \in Seq(P!Messages)
  BY NotIdle, NoneApart DEF P!EndRun, P!Store, PatientInv, Elsewhere, P!TypeOK
<1> DEFINE n == ReplyOf(run[here].turn)
<1>2. /\ stored' = [stored EXCEPT ![here] = Append(@, n)] /\ run' = [run EXCEPT ![here] = P!NoRun]
      /\ UNCHANGED <<open, cache, invalid, fetch, requests, generation, live, settled, turns>>
  BY <1>1 DEF P!EndRun, P!Store, P!StoreReply, P!watched, ReplyOf
<1>3. /\ stored'[here] = Append(stored[here], n) /\ run'[here] = P!NoRun /\ P!NoRun' = P!NoRun
      /\ \A d \in Convs \ {here} : stored'[d] = stored[d] /\ run'[d] = run[d]
  BY <1>1, <1>2 DEF P!TypeOK, P!NoRun
<1>4. n \in P!Messages /\ ~n.temporary
  <2>1. run[here].turn \in Nat
    BY <1>1 DEF P!EndRun, P!Store, P!TypeOK, P!Runs
  <2>2. QED
    BY <1>1, <2>1 DEF ReplyOf, P!Message, P!Messages
<1> HIDE DEF n
<1>5. \A i \in DOMAIN stored'[here] : ~stored'[here][i].temporary
  <2>1. \A i \in 1 .. Len(stored[here]) : ~stored[here][i].temporary
    BY <1>1 DEF PatientInv
  <2>2. QED
    BY <1>1, <1>3, <1>4, <2>1, AppendProperties
<1>6. \A m, t : AfterRun(m, t) /\ t = run[here].turn => AfterRun(m, t)'
  BY <1>1, <1>3 DEF AfterRun, n, ReplyOf, P!Message
<1>7. CASE generation # None
  <2>1. requests = {} /\ generation.turn = run[here].turn
    BY <1>1, <1>7 DEF PatientInv, Watching
  <2>2. /\ fetch[here] = P!Nothing /\ here \notin invalid /\ cache[here] # None
        /\ requests' = {} /\ generation' # None
    BY <1>2, <1>7, <2>1 DEF PatientInv, Reading, Still, P!Idle
  <2>3. Elsewhere' /\ OneWrite'
    BY <1>2, <1>3, <2>2 DEF PatientInv, Elsewhere, OneWrite
  <2>4. Reading'
    BY <1>2, <2>2, NotIdle DEF PatientInv, Reading, P!Idle, P!Nothing
  <2>5. Watching'
    BY <1>2, <1>3 DEF PatientInv, Watching
  <2>6. Shown'
    BY <1>2, <1>6, <1>7, <2>1, <2>2 DEF PatientInv, Shown
  <2>7. QED
    BY <1>5, <2>2, <2>3, <2>4, <2>5, <2>6 DEF PatientInv
<1>8. CASE generation = None
  <2>1. PICK r \in requests : r.answer = "accepted" /\ r.turn = run[here].turn
    BY <1>1, <1>8 DEF PatientInv, Watching
  <2>2. requests = {r} /\ r.of = here /\ Pending(r)
    BY PatientWaits
  <2>3. Pending(r)'
    BY <1>1, <1>2, <1>3, <1>6, <2>1, <2>2 DEF Pending, QuestionOf, P!Message
  <2>4. QED
    BY <1>2, <1>3, <1>5, <2>2, <2>3, PatientIsAnswered
<1>9. QED
  BY <1>7, <1>8
LEMMA ConfirmedIs ==
  ASSUME NEW s \in Seq(P!Messages), NEW t \in Nat, here \in Convs,
         \A i \in DOMAIN s : ~s[i].temporary
  PROVE  /\ Confirmed(Append(s, [QuestionOf(t) EXCEPT !.temporary = TRUE]), t) = Append(s, QuestionOf(t))
         /\ Append(s, [QuestionOf(t) EXCEPT !.temporary = TRUE]) \in Seq(P!Messages)
         /\ Append(s, QuestionOf(t)) \in Seq(P!Messages)
<1> DEFINE q == QuestionOf(t)
           o == [q EXCEPT !.temporary = TRUE]
           n == Len(s)
<1>1. /\ q \in P!Messages /\ o \in P!Messages /\ o.temporary /\ o.turn = t
      /\ [o EXCEPT !.temporary = FALSE] = q
  <2>1. \A m \in P!Messages : \A b \in BOOLEAN :
            /\ [m EXCEPT !.temporary = b] \in P!Messages
            /\ [m EXCEPT !.temporary = b].of = m.of /\ [m EXCEPT !.temporary = b].type = m.type
            /\ [m EXCEPT !.temporary = b].turn = m.turn /\ [m EXCEPT !.temporary = b].edit = m.edit
            /\ [m EXCEPT !.temporary = b].temporary = b
    BY DEF P!Messages
  <2>2. \A m, k \in P!Messages :
            /\ m.of = k.of /\ m.type = k.type /\ m.turn = k.turn /\ m.edit = k.edit
            /\ m.temporary = k.temporary
            => m = k
    BY DEF P!Messages
  <2>3. q \in P!Messages /\ q.turn = t /\ q.temporary = FALSE
    BY DEF QuestionOf, P!Message, P!Messages
  <2> HIDE DEF q
  <2>4. o \in P!Messages /\ o.temporary = TRUE /\ o.turn = t
    BY <2>1, <2>3
  <2>5. [o EXCEPT !.temporary = FALSE] = q
    <3>1. /\ o.of = q.of /\ o.type = q.type /\ o.turn = q.turn /\ o.edit = q.edit
      BY <2>1, <2>3
    <3> HIDE DEF o
    <3> DEFINE k == [o EXCEPT !.temporary = FALSE]
    <3>2. /\ k \in P!Messages /\ k.of = o.of /\ k.type = o.type /\ k.turn = o.turn
          /\ k.edit = o.edit /\ k.temporary = FALSE
      BY <2>1, <2>4
    <3> HIDE DEF k
    <3>3. k = q
      BY <2>2, <2>3, <3>1, <3>2
    <3>4. QED
      BY <3>3 DEF k
  <2>6. QED
    BY <2>3, <2>4, <2>5
<1> HIDE DEF q, o
<1>2. /\ n \in Nat /\ DOMAIN s = 1 .. n
      /\ Append(s, o) \in Seq(P!Messages) /\ Append(s, q) \in Seq(P!Messages)
      /\ Len(Append(s, o)) = n + 1 /\ Len(Append(s, q)) = n + 1
      /\ \A i \in 1 .. n : Append(s, o)[i] = s[i] /\ Append(s, q)[i] = s[i]
      /\ Append(s, o)[n + 1] = o /\ Append(s, q)[n + 1] = q
  BY <1>1, AppendProperties, LenProperties
<1> HIDE DEF n
<1>3. /\ Confirmed(Append(s, o), t) \in Seq(P!Messages) /\ Len(Confirmed(Append(s, o), t)) = n + 1
      /\ \A i \in 1 .. n + 1 : Confirmed(Append(s, o), t)[i] = Append(s, q)[i]
  <2>1. Len(Confirmed(Append(s, o), t)) = n + 1 /\ Confirmed(Append(s, o), t) \in Seq(P!Messages)
    BY <1>2, ReconcileIs
  <2>0. \A i \in 1 .. Len(Append(s, o)) :
            /\ ~Append(s, o)[i].temporary => Confirmed(Append(s, o), t)[i] = Append(s, o)[i]
            /\ Append(s, o)[i].temporary /\ Append(s, o)[i].turn = t =>
                   Confirmed(Append(s, o), t)[i] = [Append(s, o)[i] EXCEPT !.temporary = FALSE]
    <3> DEFINE m == Append(s, o)
    <3>1. m \in Seq(P!Messages)
      BY <1>2
    <3> HIDE DEF m
    <3>2. \A i \in 1 .. Len(m) :
              /\ ~m[i].temporary => Confirmed(m, t)[i] = m[i]
              /\ m[i].temporary /\ m[i].turn = t => Confirmed(m, t)[i] = [m[i] EXCEPT !.temporary = FALSE]
      BY <3>1, ReconcileIs
    <3>3. QED
      BY <3>2 DEF m
  <2>2. ASSUME NEW i \in 1 .. n + 1
        PROVE  Confirmed(Append(s, o), t)[i] = Append(s, q)[i]
    <3>1. /\ ~Append(s, o)[i].temporary => Confirmed(Append(s, o), t)[i] = Append(s, o)[i]
          /\ Append(s, o)[i].temporary /\ Append(s, o)[i].turn = t =>
                 Confirmed(Append(s, o), t)[i] = [Append(s, o)[i] EXCEPT !.temporary = FALSE]
      BY <1>2, <2>0
    <3>2. CASE i = n + 1
      BY <1>1, <1>2, <3>1, <3>2
    <3>3. CASE i # n + 1
      <4>1. i \in 1 .. n
        BY <1>2, <3>3
      <4>2. QED
        BY <1>2, <3>1, <4>1
    <3>4. QED
      BY <3>2, <3>3
  <2>3. QED
    BY <2>1, <2>2
<1>4. Confirmed(Append(s, o), t) = Append(s, q)
  BY <1>2, <1>3, SeqEqual
<1>5. QED
  BY <1>2, <1>4 DEF q, o

(* What is shown when the answer has come.                                 *)
LEMMA AcceptedIs ==
  ASSUME Assumptions, P!TypeOK, PatientInv, NEW r \in requests, P!Accepted(r)
  PROVE  /\ \A c \in Convs \ {here} : cache'[c] = cache[c]
         /\ cache'[here] # None /\ cache'[here].active = None
         /\ AfterRun(cache'[here].messages, r.turn) /\ cache'[here].messages \in Seq(P!Messages)
         /\ UNCHANGED <<stored, run, open, fetch, settled, turns>>
         /\ requests' = {} /\ invalid' \subseteq invalid
         /\ generation' = [turn |-> r.turn, of |-> here] /\ live' = "running"
         /\ r.turn = turns /\ (settled # None => settled < turns)
<1>1. /\ requests = {r} /\ r.of = here /\ Pending(r) /\ here \in Convs
      /\ cache[here] # None /\ cache[here].active = None /\ cache[here].messages \in Seq(P!Messages)
      /\ r \in P!Requests /\ (r.previous # None => r.previous.messages \in Seq(P!Messages))
  BY PatientWaits
<1>2. r.answer = "accepted" /\ r.kind \in {"send", "regenerate"}
  BY DEF P!Accepted
<1>3. /\ cache' = IF r.kind = "send" THEN P!Reconciled(r) ELSE cache
      /\ UNCHANGED <<stored, run, open, fetch, settled, turns>>
      /\ requests' = {} /\ invalid' \subseteq invalid
      /\ generation' = [turn |-> r.turn, of |-> here] /\ live' = "running"
  BY <1>1 DEF P!Accepted, P!Touched, P!server
<1>4. CASE r.kind = "send"
  <2> DEFINE s == Append(r.previous.messages, QuestionOf(r.turn))
  <2>1. /\ cache[here].messages =
               Append(r.previous.messages, [QuestionOf(r.turn) EXCEPT !.temporary = TRUE])
        /\ \A i \in DOMAIN r.previous.messages : ~r.previous.messages[i].temporary
        /\ r.previous.messages \in Seq(P!Messages) /\ r.turn \in Nat
        /\ AfterRun(s, r.turn)
    BY <1>1, <1>2, <1>4 DEF Pending, P!Requests
  <2>2. s \in Seq(P!Messages) /\ Confirmed(cache[here].messages, r.turn) = s
    BY <1>1, <2>1, ConfirmedIs
  <2>3. P!Reconciled(r) = With(here, Confirmed(cache[here].messages, r.turn))
    BY <1>1 DEF P!Reconciled, Confirmed, With
  <2> HIDE DEF s
  <2>4. cache' = With(here, s)
    BY <1>3, <1>4, <2>2, <2>3
  <2>5. /\ \A c \in Convs \ {here} : cache'[c] = cache[c]
        /\ cache'[here] \in P!Copies /\ cache'[here].active = None /\ cache'[here].messages = s
    BY <1>1, <2>2, <2>4, CopyIs
  <2>6. QED
    BY <1>1, <1>3, <1>4, <2>1, <2>2, <2>5, NoneApart DEF Pending
<1>5. CASE r.kind = "regenerate"
  BY <1>1, <1>2, <1>3, <1>5 DEF Pending
<1>6. QED
  BY <1>2, <1>4, <1>5

LEMMA PatientIsAccepted ==
  ASSUME Assumptions, P!TypeOK, PatientInv, NEW r \in requests, P!Accepted(r)
  PROVE  PatientInv'
<1>1. /\ requests = {r} /\ here \in Convs /\ open \in Convs
      /\ fetch[here] = P!Nothing /\ here \notin invalid
      /\ generation = None /\ None \notin P!Generations /\ r.turn \in Nat /\ P!NoRun' = P!NoRun
  BY PatientWaits, NoneApart DEF P!Requests, P!NoRun, P!TypeOK
<1>2. /\ \A c \in Convs \ {here} : cache'[c] = cache[c]
      /\ cache'[here] # None /\ cache'[here].active = None
      /\ AfterRun(cache'[here].messages, r.turn)
      /\ UNCHANGED <<stored, run, open, fetch, settled, turns>>
      /\ requests' = {} /\ invalid' \subseteq invalid
      /\ generation' = [turn |-> r.turn, of |-> here] /\ live' = "running"
      /\ r.turn = turns /\ (settled # None => settled < turns)
  BY AcceptedIs
<1>3. generation' # None /\ generation'.of = here /\ generation'.turn = r.turn
  BY <1>1, <1>2 DEF P!Generations
<1>4. Elsewhere' /\ OneWrite'
  BY <1>1, <1>2 DEF PatientInv, Elsewhere, OneWrite
<1>5. Reading'
  BY <1>1, <1>2, NotIdle DEF PatientInv, Reading, P!Idle, P!Nothing
<1>6. Watching'
  <2>1. run[here] # P!NoRun => ~run[here].ended /\ r.turn = run[here].turn
    BY <1>1 DEF PatientInv, Watching
  <2>2. settled # None => settled \in Nat
    BY DEF P!TypeOK
  <2>3. QED
    BY <1>1, <1>2, <1>3, <2>1, <2>2 DEF Watching
<1>7. Shown'
  <2>1. stored'[here] = IF run'[here] # P!NoRun THEN cache'[here].messages
                        ELSE Append(cache'[here].messages, ReplyOf(r.turn))
    BY <1>2 DEF AfterRun
  <2>2. ReplyOf(generation.turn)' = ReplyOf(r.turn)
    BY <1>3 DEF ReplyOf, P!Message
  <2>3. QED
    BY <1>1, <1>2, <1>3, <2>1, <2>2 DEF Shown, AfterRun
<1>8. QED
  BY <1>2, <1>4, <1>5, <1>6, <1>7 DEF PatientInv

(* An edit is answered, or a send is refused: what is stored is shown.     *)
LEMMA EditedOrRefusedIs ==
  ASSUME Assumptions, P!TypeOK, PatientInv, NEW r \in requests, P!Edited(r) \/ P!Refused(r)
  PROVE  /\ \A c \in Convs \ {here} : cache'[c] = cache[c]
         /\ cache'[here] # None /\ cache'[here].active = None
         /\ cache'[here].messages = stored[here] /\ run[here] = P!NoRun
         /\ UNCHANGED <<stored, run, open, fetch, generation, live, settled, turns>>
         /\ requests' = {} /\ invalid' \subseteq invalid
<1>1. /\ requests = {r} /\ r.of = here /\ Pending(r) /\ here \in Convs /\ open \in Convs
      /\ cache[here] # None /\ cache[here].active = None /\ cache \in [Convs -> P!Copies \union {None}]
  BY PatientWaits DEF P!TypeOK
<1>2. /\ r.kind \in {"send", "edit"} /\ r.previous # None /\ r.previous.active = None
      /\ r.previous.messages = stored[here] /\ run[here] = P!NoRun
  <2>1. CASE P!Edited(r)
    <3>1. [messages |-> stored[here], active |-> None] \in P!Copies
      BY <1>1 DEF P!TypeOK, P!Copies
    <3>2. QED
      BY <1>1, <2>1, <3>1, NoneApart DEF P!Edited, Pending
  <2>2. CASE P!Refused(r)
    BY <1>1, <2>2 DEF P!Refused, Pending
  <2>3. QED
    BY <2>1, <2>2
<1> DEFINE data == [cache EXCEPT ![here] = r.previous]
<1>3. /\ P!Commit(open, data)
      /\ UNCHANGED <<stored, run, fetch, turns>>
      /\ requests' = {} /\ invalid' \subseteq invalid
  BY <1>1, <1>2 DEF P!Edited, P!Refused, P!Touched, P!server, Pending
<1>4. data[here] = r.previous /\ \A c \in Convs \ {here} : data[c] = cache[c]
  BY <1>1
<1> HIDE DEF data
<1>5. data[open] = None \/ data[open].active = None
  BY <1>1, <1>2, <1>4 DEF PatientInv, Elsewhere, Blank
<1>6. open' = open /\ cache' = data /\ UNCHANGED <<generation, live, settled>>
  BY <1>3, <1>5, NoAdoption
<1>7. QED
  BY <1>2, <1>3, <1>4, <1>6

LEMMA PatientIsDone ==
  ASSUME Assumptions, P!TypeOK, PatientInv, NEW r \in requests, P!Edited(r) \/ P!Refused(r)
  PROVE  PatientInv'
<1>1. /\ here \in Convs /\ fetch[here] = P!Nothing /\ here \notin invalid /\ generation = None
      /\ P!NoRun' = P!NoRun /\ open \in Convs
  BY PatientWaits DEF P!NoRun, P!TypeOK
<1>2. /\ \A c \in Convs \ {here} : cache'[c] = cache[c]
      /\ cache'[here] # None /\ cache'[here].active = None
      /\ cache'[here].messages = stored[here] /\ run[here] = P!NoRun
      /\ UNCHANGED <<stored, run, open, fetch, generation, live, settled, turns>>
      /\ requests' = {} /\ invalid' \subseteq invalid
  BY EditedOrRefusedIs
<1>3. Elsewhere' /\ OneWrite'
  BY <1>1, <1>2 DEF PatientInv, Elsewhere, OneWrite
<1>4. Reading'
  BY <1>1, <1>2, NotIdle DEF PatientInv, Reading, P!Idle, P!Nothing
<1>5. Watching' /\ Shown'
  BY <1>1, <1>2 DEF PatientInv, Watching, Shown
<1>6. QED
  BY <1>2, <1>3, <1>4, <1>5 DEF PatientInv

LEMMA PatientSettles ==
  ASSUME Assumptions, P!TypeOK, PatientInv, P!Settle
  PROVE  PatientInv'
<1>1. /\ generation # None /\ generation.of = here /\ requests = {} /\ generation.turn # settled
      /\ generation.turn <= turns /\ generation.turn \in Nat /\ here \in Convs /\ open \in Convs
  BY NoneApart DEF P!Settle, PatientInv, Watching, P!TypeOK, P!Generations
<1>2. run[here] = P!NoRun
  BY <1>1 DEF P!Settle, P!EndIsTold, PatientInv, Watching
<1>3. /\ fetch[here] = P!Nothing /\ here \notin invalid /\ cache[here] # None
  BY <1>1 DEF PatientInv, Reading, Still, P!Idle
<1>4. /\ settled' = generation.turn /\ generation' = None /\ live' = "idle"
      /\ invalid' = invalid \union {here}
      /\ fetch' = IF here = open THEN [fetch EXCEPT ![here] = P!Asked] ELSE fetch
      /\ UNCHANGED <<stored, run, open, cache, requests, turns>>
  BY <1>1 DEF P!Settle, P!server
<1>5. /\ \A c \in Convs : fetch'[c] = fetch[c] \/ (c = here /\ here = open /\ fetch'[c] = P!Asked)
      /\ here = open => fetch'[here] = P!Asked
  BY <1>1, <1>4 DEF P!TypeOK
<1>6. Elsewhere' /\ OneWrite'
  BY <1>1, <1>4, <1>5 DEF PatientInv, Elsewhere, OneWrite, P!NoRun
<1>7. Still'
  BY <1>1, <1>2, <1>4 DEF Still, P!NoRun
<1>8. Reading'
  <2>1. \A c \in Convs : c # open => fetch'[c] = P!Nothing
    BY <1>5 DEF PatientInv, Reading, P!Idle
  <2>2. cache'[open] = None \/ open \in invalid' => fetch'[open] # P!Nothing
    BY <1>1, <1>4, <1>5, NotIdle DEF PatientInv, Reading, P!Idle
  <2>3. fetch'[here].loaded = None /\ fetch'[here].answer = None
    BY <1>1, <1>3, <1>5, NotIdle
  <2>4. P!Nothing' = P!Nothing
    BY DEF P!Nothing
  <2>5. QED
    BY <1>1, <1>4, <1>7, <2>1, <2>2, <2>3, <2>4 DEF PatientInv, Reading, P!Idle
<1>9. Watching' /\ Shown'
  BY <1>1, <1>2, <1>4, <1>7 DEF PatientInv, Watching, Shown, Still
<1>10. QED
  BY <1>1, <1>4, <1>6, <1>8, <1>9 DEF PatientInv

LEMMA PatientStep ==
  ASSUME Assumptions, P!TypeOK, PatientInv, P!Next
  PROVE  PatientInv'
<1>1. ~P!Reload
  BY DEF P!Reload, P!TypeOK
<1>2. QED
  BY <1>1, PatientOpens, PatientLoads, PatientLands, PatientSends, PatientRegenerates, PatientEdits,
     PatientIsRefused, PatientStarts, PatientIsEdited, PatientIsReplied, PatientIsAccepted,
     PatientIsDone, PatientSettles
  DEF P!Next

LEMMA PatientInit ==
  ASSUME Assumptions, P!Init
  PROVE  PatientInv
<1>1. here \in Convs /\ open \in Convs
  BY NoneApart DEF P!Init
<1>2. Elsewhere /\ OneWrite
  BY <1>1, NotIdle DEF P!Init, Elsewhere, OneWrite
<1>3. Reading
  BY <1>1, NotIdle DEF P!Init, Reading, Still, P!Idle
<1>4. Watching /\ Shown
  BY <1>1 DEF P!Init, Watching, Shown
<1>5. QED
  BY <1>1, <1>2, <1>3, <1>4 DEF P!Init, PatientInv

(* When nothing is under way, what is stored is shown.                     *)
LEMMA PatientSeesIt ==
  ASSUME Assumptions, P!TypeOK, PatientInv
  PROVE  P!ShowsWhatIsStored
<1>1. SUFFICES ASSUME P!Quiet
               PROVE  (IF cache[open] = None THEN << >> ELSE cache[open].messages) = stored[open]
  BY DEF P!ShowsWhatIsStored
<1>2. open \in Convs /\ requests = {} /\ fetch[open] = P!Nothing
  BY <1>1 DEF P!Quiet, P!Idle, P!TypeOK
<1>3. CASE open # here
  BY <1>2, <1>3 DEF PatientInv, Elsewhere, Blank
<1>4. CASE open = here
  <2>1. generation = None
    BY <1>1, <1>4 DEF P!Quiet, P!Busy, PatientInv, Watching
  <2>2. cache[here] # None /\ here \notin invalid
    BY <1>2, <1>4 DEF PatientInv, Reading, P!Idle
  <2>3. QED
    BY <1>2, <1>4, <2>1, <2>2 DEF PatientInv, Shown
<1>5. QED
  BY <1>3, <1>4

LEMMA AppendSet ==
  ASSUME NEW Any, NEW s \in Seq(Any), NEW x \in Any
  PROVE  P!ToSet(Append(s, x)) = P!ToSet(s) \union {x}
<1>1. /\ Append(s, x) \in Seq(Any) /\ Len(Append(s, x)) = Len(s) + 1 /\ Len(s) \in Nat
      /\ \A i \in 1 .. Len(s) : Append(s, x)[i] = s[i]
      /\ Append(s, x)[Len(s) + 1] = x
  BY AppendProperties, LenProperties
<1>2. DOMAIN Append(s, x) = (DOMAIN s) \union {Len(s) + 1} /\ DOMAIN s = 1 .. Len(s)
  BY <1>1, LenProperties
<1>3. QED
  BY <1>1, <1>2 DEF P!ToSet

(* A reply that is shown stays on the screen.                              *)
LEMMA PatientKeepsReplies ==
  ASSUME Assumptions, P!TypeOK, PatientInv, P!Next
  PROVE  P!ReplyStaysOnScreen
<1>1. SUFFICES ASSUME NEW m \in P!ToSet(stored[open]), m.type = "assistant",
                      m.turn \in P!ShownReplies, open' = open, reloads' = reloads,
                      \A r \in requests' : r.kind # "regenerate"
               PROVE  m.turn \in P!ShownReplies'
  BY DEF P!ReplyStaysOnScreen
<1>2. open = here /\ open' = here /\ here \in Convs /\ open \in Convs /\ m \in P!ToSet(stored[here])
      /\ stored[here] \in Seq(P!Messages)
  <2>1. open \in Convs /\ here \in Convs
    BY NoneApart DEF P!TypeOK
  <2>2. open # here => stored[open] = << >>
    BY <2>1 DEF PatientInv, Elsewhere
  <2>3. QED
    BY <1>1, <2>1, <2>2 DEF P!ToSet, P!TypeOK
<1>3. ASSUME cache'[here] # None, m \in P!ToSet(cache'[here].messages)
      PROVE  m.turn \in P!ShownReplies'
  BY <1>1, <1>2, <1>3 DEF P!ShownReplies, P!CachedMessages, P!ToSet
<1>4. ASSUME generation' # None, generation'.of = here, generation'.turn = m.turn
      PROVE  m.turn \in P!ShownReplies'
  BY <1>2, <1>4 DEF P!ShownReplies, P!Block
<1>5. ASSUME cache'[here] = cache[here], UNCHANGED <<generation, settling>>
      PROVE  m.turn \in P!ShownReplies'
  BY <1>1, <1>2, <1>5 DEF P!ShownReplies, P!Block, P!CachedMessages, P!ToSet
<1>6. ASSUME NEW c \in Convs, P!Open(c) \/ P!Load(c) \/ P!Answer(c) \/ P!Land(c) \/ P!EndRun(c) \/ P!Store(c)
      PROVE  m.turn \in P!ShownReplies'
  <2>1. CASE P!Open(c)
    BY <1>1, <2>1 DEF P!Open, P!Commit
  <2>2. CASE P!Load(c) \/ P!Answer(c) \/ P!EndRun(c) \/ P!Store(c)
    BY <1>5, <2>2 DEF P!Load, P!Answer, P!EndRun, P!Store, P!watched
  <2>3. CASE P!Land(c)
    <3>1. PICK k : k = [messages |-> stored[c], active |-> None]
      OBVIOUS
    <3>2. c = here /\ cache'[here] = k /\ k # None
      BY <1>2, <2>3, <3>1, LandIs
    <3>3. QED
      BY <1>2, <1>3, <3>1, <3>2
  <2>4. QED
    BY <1>6, <2>1, <2>2, <2>3
<1>7. CASE P!Send
  <2>1. PICK q \in P!Messages : cache'[here].messages = Append(stored[here], q)
    BY <1>7, PatientSends
  <2>2. cache'[here] # None /\ m \in P!ToSet(cache'[here].messages)
    BY <1>2, <1>7, <2>1, AppendSet, PatientSends
  <2>3. QED
    BY <1>3, <2>2
<1>8. CASE P!Regenerate
  <2>1. P!Request("regenerate", open, None) \in requests'
    BY <1>8 DEF P!Regenerate
  <2>2. QED
    BY <1>1, <2>1 DEF P!Request
<1>9. CASE P!Edit
  BY <1>5, <1>9 DEF P!Edit, P!watched
<1>10. CASE P!Settle
  <2>1. /\ generation # None /\ generation.of = here /\ generation.turn # settled
    BY <1>10 DEF P!Settle, PatientInv, Watching
  <2>2. /\ generation' = None /\ settling' = generation /\ cache' = cache
    BY <1>2, <1>10, <2>1 DEF P!Settle, P!Hold
  <2>3. QED
    BY <1>1, <1>2, <2>1, <2>2 DEF P!ShownReplies, P!Block, P!CachedMessages, P!ToSet
<1>11. ASSUME NEW r \in requests, P!Refuse(r) \/ P!Start(r) \/ P!ApplyEdit(r)
       PROVE  m.turn \in P!ShownReplies'
  BY <1>5, <1>11 DEF P!Refuse, P!Start, P!ApplyEdit, P!watched
<1>12. ASSUME NEW r \in requests, P!Accepted(r)
       PROVE  m.turn \in P!ShownReplies'
  <2>1. /\ cache'[here] # None /\ cache'[here].messages \in Seq(P!Messages)
        /\ AfterRun(cache'[here].messages, r.turn)
        /\ generation' = [turn |-> r.turn, of |-> here] /\ r.turn \in Nat
    BY <1>12, AcceptedIs DEF P!TypeOK, P!Requests
  <2>2. ReplyOf(r.turn) \in P!Messages /\ ReplyOf(r.turn).turn = r.turn
    BY <1>2, <2>1 DEF ReplyOf, P!Message, P!Messages
  <2>3. m \in P!ToSet(cache'[here].messages) \/ m = ReplyOf(r.turn)
    BY <1>2, <2>1, <2>2, AppendSet DEF AfterRun
  <2>4. CASE m \in P!ToSet(cache'[here].messages)
    BY <1>3, <2>1, <2>4
  <2>5. CASE m = ReplyOf(r.turn)
    <3>1. generation' # None
      BY <1>2, <2>1, NoneApart DEF P!Generations
    <3>2. QED
      BY <1>4, <2>1, <2>2, <2>5, <3>1
  <2>6. QED
    BY <2>3, <2>4, <2>5
<1>13. ASSUME NEW r \in requests, P!Edited(r) \/ P!Refused(r)
       PROVE  m.turn \in P!ShownReplies'
  <2>1. cache'[here] # None /\ cache'[here].messages = stored[here]
    BY <1>13, EditedOrRefusedIs
  <2>2. QED
    BY <1>2, <1>3, <2>1
<1>14. ~P!Reload
  BY DEF P!Reload, P!TypeOK
<1>15. QED
  BY <1>6, <1>7, <1>8, <1>9, <1>10, <1>11, <1>12, <1>13, <1>14 DEF P!Next

-----------------------------------------------------------------------------
(* The reader who does not wait.                                           *)

LEMMA QuestionedSame ==
  ASSUME NEW s \in Seq(P!Messages), NEW t \in Seq(P!Messages), Len(s) = Len(t),
         \A i \in 1 .. Len(s) : s[i].type = t[i].type /\ s[i].turn = t[i].turn
  PROVE  Questioned(s) = Questioned(t)
<1>1. DOMAIN s = 1 .. Len(s) /\ DOMAIN t = 1 .. Len(s)
  BY LenProperties
<1>2. QED
  BY <1>1 DEF Questioned, P!ToSet

LEMMA QuestionedAppend ==
  ASSUME NEW s \in Seq(P!Messages), NEW x \in P!Messages
  PROVE  /\ Append(s, x) \in Seq(P!Messages)
         /\ Questioned(Append(s, x)) = Questioned(s) \union (IF x.type = "user" THEN {x.turn} ELSE {})
<1>1. P!ToSet(Append(s, x)) = P!ToSet(s) \union {x} /\ Append(s, x) \in Seq(P!Messages)
  BY AppendSet, AppendProperties
<1>2. QED
  BY <1>1 DEF Questioned

LEMMA QuestionedFront ==
  ASSUME NEW s \in Seq(P!Messages), P!LastIs(s, "assistant")
  PROVE  P!Front(s) \in Seq(P!Messages) /\ Questioned(P!Front(s)) = Questioned(s)
<1>1. /\ s # << >> /\ P!Last(s).type = "assistant" /\ P!Last(s) = s[Len(s)] /\ Len(s) \in Nat \ {0}
      /\ P!Front(s) \in Seq(P!Messages) /\ Len(P!Front(s)) = Len(s) - 1
      /\ \A i \in 1 .. Len(s) - 1 : P!Front(s)[i] = s[i]
  BY FrontIs DEF P!LastIs
<1>2. DOMAIN s = 1 .. Len(s) /\ DOMAIN P!Front(s) = 1 .. Len(s) - 1
  BY <1>1, LenProperties
<1>3. P!ToSet(s) = P!ToSet(P!Front(s)) \union {s[Len(s)]}
  BY <1>1, <1>2 DEF P!ToSet
<1>4. QED
  BY <1>1, <1>3 DEF Questioned

(* What only this reader's steps do.                                       *)
LEMMA OtherReader ==
  /\ I!Nothing = P!Nothing /\ I!Asked = P!Asked /\ \A c : I!Busy(c) <=> P!Busy(c)
  /\ \A c, d : I!Commit(c, d) = P!Commit(c, d)
  /\ \A k, c, m : I!Request(k, c, m) = P!Request(k, c, m)
  /\ \A c : /\ I!Cancelled(c) = [fetch EXCEPT ![c] = P!Nothing]
            /\ I!Optimistic(c) = [P!Message(c, "user", turns + 1) EXCEPT !.temporary = TRUE]
  /\ \A s : I!Front(s) = P!Front(s) /\ \A t : I!LastIs(s, t) = P!LastIs(s, t)
<1>1. \A c, d : I!Commit(c, d) = P!Commit(c, d)
  BY DEF I!Commit, P!Commit, I!Adopted, P!Adopted, I!Active, P!Active, I!LiveOf, P!LiveOf, I!Held, P!Held
<1>2. QED
  BY <1>1
  DEF I!Nothing, P!Nothing, I!Asked, P!Asked, I!Request, P!Request, I!Cancelled, I!Optimistic,
      I!Message, P!Message, I!LastIs, P!LastIs, I!Last, P!Last, I!Front, P!Front, I!Busy, P!Busy

(* Every question that was shown is shown, unless it was refused.          *)
QuestionsStand ==
    cache[here] = None \/ cache'[here] = None \/
    \A t \in Questioned(cache[here].messages) :
        t \in Questioned(cache'[here].messages) \/ \E r \in requests : r.turn = t /\ r.answer = "refused"

LEMMA QuestionsStandIs ==
  ASSUME ImpatientInv, QuestionsStand
  PROVE  I!QuestionStays
<1>1. ASSUME NEW c \in Convs, NEW t \in I!Questions(c)
      PROVE  cache'[c] = None \/ t \in I!Questions(c)' \/ \E r \in requests : r.turn = t /\ r.answer = "refused"
  <2>1. cache[c] # None /\ c = here /\ t \in Questioned(cache[here].messages)
    BY <1>1 DEF I!Questions, I!CachedMessages, I!ToSet, P!ToSet, ImpatientInv, Alone, Questioned
  <2>2. cache'[here] # None => I!Questions(here)' = Questioned(cache'[here].messages)
    BY DEF I!Questions, I!CachedMessages, I!ToSet, P!ToSet, Questioned
  <2>3. QED
    BY <2>1, <2>2 DEF QuestionsStand
<1>2. QED
  BY <1>1 DEF I!QuestionStays

(* Where a question is on its way nothing is read or watched.              *)
LEMMA NothingOnItsWay ==
  ASSUME ImpatientInv,
         fetch[here] # P!Nothing \/ P!Busy(here) \/ requests = {} \/ \E r \in requests : r.kind # "send"
  PROVE  /\ \A r \in requests : r.kind # "send"
         /\ cache[here] # None => Questioned(cache[here].messages) \subseteq Questioned(stored[here])
<1>1. \A r \in requests : r.kind # "send"
  BY DEF ImpatientInv, OnItsWay, P!Idle, OneWrite
<1>2. QED
  BY <1>1 DEF ImpatientInv

LEMMA ImpatientReads ==
  ASSUME Assumptions, P!TypeOK, ImpatientInv, NEW c \in Convs, P!Load(c) \/ P!Answer(c)
  PROVE  ImpatientInv' /\ QuestionsStand
<1>0. here \in Convs /\ None \notin P!Copies
  BY NoneApart
<1>1. UNCHANGED <<stored, open, cache, requests, generation, live>>
  BY DEF P!Load, P!Answer, P!server, P!watched
<1>2. fetch[c] # P!Nothing /\ c = here /\ \A d \in Convs : d # c => fetch'[d] = fetch[d]
  BY NotIdle DEF P!Load, P!Answer, ImpatientInv, Alone, P!TypeOK
<1>3. \A r \in requests : r.kind # "send"
  BY <1>2, NothingOnItsWay
<1>4. /\ fetch'[here].loaded # None => Questioned(fetch'[here].loaded) = Questioned(stored[here])
      /\ fetch'[here].answer # None => Questioned(fetch'[here].answer.messages) = Questioned(stored[here])
  <2>1. CASE P!Load(c)
    <3>1. fetch'[here] = [P!Asked EXCEPT !.loaded = stored[here]]
      BY <1>2, <2>1 DEF P!Load, P!TypeOK
    <3>2. fetch'[here].loaded = stored[here] /\ fetch'[here].answer = None
      BY <3>1 DEF P!Asked, P!Nothing
    <3>3. QED
      BY <3>2
  <2>2. CASE P!Answer(c)
    <3>1. fetch'[here] = [fetch[here] EXCEPT !.answer = [messages |-> fetch[here].loaded, active |-> P!ActiveRun(c)]]
      BY <1>2, <2>2 DEF P!Answer, P!TypeOK
    <3>2. fetch[here] \in P!Fetches /\ fetch[here].loaded # None
      BY <1>2, <2>2 DEF P!Answer, P!TypeOK
    <3>3. /\ fetch'[here].loaded = fetch[here].loaded
          /\ fetch'[here].answer = [messages |-> fetch[here].loaded, active |-> P!ActiveRun(c)]
      BY <3>1, <3>2 DEF P!Fetches
    <3>4. QED
      BY <3>2, <3>3 DEF ImpatientInv
  <2>3. QED
    BY <2>1, <2>2
<1>5. Alone' /\ OneWrite'
  <2>1. P!Nothing' = P!Nothing
    BY DEF P!Nothing
  <2>2. QED
    BY <1>1, <1>2, <2>1 DEF ImpatientInv, Alone, OneWrite
<1>6. \A r \in requests' : OnItsWay(r)'
  BY <1>1, <1>3 DEF ImpatientInv, OnItsWay, Questioned
<1>7. QED
  <2>1. ImpatientInv'
    BY <1>1, <1>4, <1>5, <1>6 DEF ImpatientInv, Questioned
  <2>2. QED
    BY <1>1, <2>1 DEF QuestionsStand

LEMMA ImpatientLands ==
  ASSUME Assumptions, P!TypeOK, ImpatientInv, NEW c \in Convs, P!Land(c)
  PROVE  ImpatientInv' /\ QuestionsStand
<1>0. here \in Convs /\ None \notin P!Copies
  BY NoneApart
<1>1. fetch[c] # P!Nothing /\ c = here /\ fetch[here].answer # None
  BY NotIdle DEF P!Land, ImpatientInv, Alone, P!TypeOK
<1>2. /\ cache'[here] = fetch[here].answer /\ fetch'[here] = P!Nothing
      /\ \A d \in Convs \ {here} : cache'[d] = cache[d] /\ fetch'[d] = fetch[d]
      /\ UNCHANGED <<stored, open, requests>>
      /\ generation' # None => generation'.of = here
  BY <1>0, <1>1 DEF P!Land, P!Commit, P!Adopted, P!server, P!TypeOK, ImpatientInv, Alone
<1>3. /\ \A r \in requests : r.kind # "send"
      /\ cache[here] # None => Questioned(cache[here].messages) \subseteq Questioned(stored[here])
  BY <1>1, NothingOnItsWay
<1>4. Questioned(cache'[here].messages) = Questioned(stored[here])
  BY <1>1, <1>2 DEF ImpatientInv
<1>5. Alone' /\ OneWrite'
  <2>1. P!Nothing' = P!Nothing
    BY DEF P!Nothing
  <2>2. QED
    BY <1>2, <2>1 DEF ImpatientInv, Alone, OneWrite
<1>6. \A r \in requests' : OnItsWay(r)'
  BY <1>2, <1>3 DEF ImpatientInv, OnItsWay, Questioned
<1>7. QED
  <2>1. ImpatientInv'
    BY <1>2, <1>4, <1>5, <1>6, NotIdle DEF ImpatientInv, Questioned
  <2>2. QED
    BY <1>3, <1>4, <2>1 DEF QuestionsStand

(* One write, and what is shown for it.                                    *)
LEMMA ImpatientWrites ==
  ASSUME Assumptions, P!TypeOK, ImpatientInv, requests = {}, NEW r, requests' = {r}, r.of = here,
         r.answer = "none",
         UNCHANGED <<stored, open, generation, live>>,
         \A c \in Convs \ {here} : fetch'[c] = fetch[c] /\ cache'[c] = cache[c],
         fetch'[here] = P!Nothing \/ (fetch'[here] = fetch[here] /\ r.kind # "send"),
         cache'[here] = None <=> cache[here] = None,
         cache[here] # None =>
             Questioned(cache'[here].messages) =
                 Questioned(cache[here].messages) \union (IF r.kind = "send" THEN {r.turn} ELSE {}),
         r.kind = "send" => r.previous = cache[here] /\ ~P!Busy(here)
  PROVE  ImpatientInv' /\ QuestionsStand
<1>1. cache[here] # None => Questioned(cache[here].messages) \subseteq Questioned(stored[here])
  BY NothingOnItsWay
<1>2. P!Nothing' = P!Nothing
  BY DEF P!Nothing
<1>3. Alone' /\ OneWrite'
  BY <1>2 DEF ImpatientInv, Alone, OneWrite
<1>4. OnItsWay(r)'
  BY <1>1, <1>2 DEF OnItsWay, P!Idle, P!Busy
<1>5. ImpatientInv'
  <2>1. {o.turn : o \in {n \in requests' : n.kind = "send" /\ n.answer # "accepted"}} =
            IF r.kind = "send" THEN {r.turn} ELSE {}
    OBVIOUS
  <2>2. cache'[here] # None => Questioned(cache'[here].messages) \subseteq
            Questioned(stored'[here]) \union {o.turn : o \in {n \in requests' : n.kind = "send" /\ n.answer # "accepted"}}
    BY <1>1, <2>1
  <2>3. /\ fetch'[here].loaded # None => Questioned(fetch'[here].loaded) = Questioned(stored'[here])
        /\ fetch'[here].answer # None => Questioned(fetch'[here].answer.messages) = Questioned(stored'[here])
    BY NotIdle DEF ImpatientInv
  <2>4. QED
    BY <1>3, <1>4, <2>2, <2>3 DEF ImpatientInv
<1>6. QED
  BY <1>5 DEF QuestionsStand

(* A write that is begun sees no other run than before.                    *)
LEMMA NothingNew ==
  ASSUME NEW c, c = open, NEW data, P!Active(c, data) = P!Active(c, cache), P!Commit(c, data)
  PROVE  open' = open /\ cache' = data /\ generation' = generation /\ live' = live
BY DEF P!Commit, P!Adopted, P!LiveOf

LEMMA ImpatientIsFree ==
  ASSUME ImpatientInv, I!Ready
  PROVE  requests = {} /\ ~P!Busy(here) /\ open = here
<1>1. I!Cardinality(requests) = P!Cardinality(requests)
  BY DEF I!Cardinality, P!Cardinality
<1>2. QED
  BY <1>1, NoneIsFree, OtherReader DEF I!Ready, ImpatientInv, Alone

LEMMA ImpatientSends ==
  ASSUME Assumptions, P!TypeOK, ImpatientInv, I!Send
  PROVE  ImpatientInv' /\ QuestionsStand
<1>0. here \in Convs /\ turns \in Nat /\ cache \in [Convs -> P!Copies \union {None}]
      /\ fetch \in [Convs -> P!Fetches]
  BY NoneApart DEF P!TypeOK
<1>1. requests = {} /\ ~P!Busy(here) /\ open = here
  BY ImpatientIsFree DEF I!Send
<1>2. PICK q : q = [P!Message(here, "user", turns + 1) EXCEPT !.temporary = TRUE]
  OBVIOUS
<1>3. q \in P!Messages /\ q.type = "user" /\ q.turn = turns + 1
  <2>1. /\ P!Message(here, "user", turns + 1) \in P!Messages
        /\ P!Message(here, "user", turns + 1).type = "user" /\ P!Message(here, "user", turns + 1).turn = turns + 1
    BY <1>0 DEF P!Message, P!Messages
  <2>2. \A m \in P!Messages : /\ [m EXCEPT !.temporary = TRUE] \in P!Messages
                             /\ [m EXCEPT !.temporary = TRUE].type = m.type
                             /\ [m EXCEPT !.temporary = TRUE].turn = m.turn
    BY DEF P!Messages
  <2>3. QED
    BY <1>2, <2>1, <2>2
<1>4. PICK r : r = P!Request("send", here, cache[here])
  OBVIOUS
<1>5. /\ r.kind = "send" /\ r.of = here /\ r.turn = turns + 1 /\ r.previous = cache[here]
      /\ r.answer = "none"
  BY <1>4 DEF P!Request
<1> DEFINE data == IF cache[here] = None THEN cache
                   ELSE With(here, Append(cache[here].messages, q))
<1>6. /\ P!Commit(here, data) /\ requests' = {r}
      /\ fetch' = [fetch EXCEPT ![here] = P!Nothing]
      /\ UNCHANGED stored
  BY <1>1, <1>2, <1>4, OtherReader DEF I!Send, I!server, With
<1>7. /\ data[here] = None <=> cache[here] = None
      /\ \A c \in Convs \ {here} : data[c] = cache[c]
      /\ P!Active(here, data) = P!Active(here, cache)
      /\ cache[here] # None =>
             Questioned(data[here].messages) = Questioned(cache[here].messages) \union {r.turn}
  <2>1. CASE cache[here] = None
    BY <2>1 DEF P!Active
  <2>2. CASE cache[here] # None
    <3>1. cache[here].messages \in Seq(P!Messages)
      BY <1>0, <2>2 DEF P!Copies
    <3> DEFINE s == Append(cache[here].messages, q)
    <3>2. s \in Seq(P!Messages) /\ Questioned(s) = Questioned(cache[here].messages) \union {q.turn}
      BY <1>3, <3>1, QuestionedAppend
    <3>3. data = With(here, s)
      BY <2>2
    <3> HIDE DEF s, data
    <3>4. /\ data[here] \in P!Copies /\ data[here].messages = s /\ data[here].active = cache[here].active
          /\ \A c \in Convs \ {here} : data[c] = cache[c]
      BY <1>0, <2>2, <3>2, <3>3, CopyIs
    <3>5. data[here] # None
      BY <3>4, NoneApart
    <3>6. QED
      BY <1>3, <1>5, <2>2, <3>2, <3>4, <3>5 DEF P!Active
  <2>3. QED
    BY <2>1, <2>2
<1> HIDE DEF data
<1>8. open' = open /\ cache' = data /\ generation' = generation /\ live' = live
  BY <1>1, <1>6, <1>7, NothingNew
<1>9. fetch'[here] = P!Nothing /\ \A c \in Convs \ {here} : fetch'[c] = fetch[c]
  BY <1>0, <1>6
<1>10. QED
  BY <1>1, <1>5, <1>6, <1>7, <1>8, <1>9, ImpatientWrites

LEMMA ImpatientRegenerates ==
  ASSUME Assumptions, P!TypeOK, ImpatientInv, I!Regenerate
  PROVE  ImpatientInv' /\ QuestionsStand
<1>0. here \in Convs /\ turns \in Nat /\ cache \in [Convs -> P!Copies \union {None}]
      /\ fetch \in [Convs -> P!Fetches]
  BY NoneApart DEF P!TypeOK
<1>1. requests = {} /\ ~P!Busy(here) /\ open = here /\ cache[here] # None
  BY ImpatientIsFree DEF I!Regenerate
<1>2. PICK r : r = P!Request("regenerate", here, None)
  OBVIOUS
<1>3. r.kind = "regenerate" /\ r.of = here /\ r.answer = "none"
  BY <1>2 DEF P!Request
<1> DEFINE data == IF P!LastIs(cache[here].messages, "assistant")
                   THEN With(here, P!Front(cache[here].messages)) ELSE cache
<1>4. /\ P!Commit(here, data) /\ requests' = {r}
      /\ fetch' = [fetch EXCEPT ![here] = P!Nothing]
      /\ UNCHANGED stored
  BY <1>1, <1>2, OtherReader DEF I!Regenerate, I!server, With
<1>5. /\ data[here] # None
      /\ \A c \in Convs \ {here} : data[c] = cache[c]
      /\ P!Active(here, data) = P!Active(here, cache)
      /\ Questioned(data[here].messages) = Questioned(cache[here].messages)
  <2>1. CASE P!LastIs(cache[here].messages, "assistant")
    <3>1. cache[here].messages \in Seq(P!Messages)
      BY <1>0, <1>1 DEF P!Copies
    <3> DEFINE s == P!Front(cache[here].messages)
    <3>2. s \in Seq(P!Messages) /\ Questioned(s) = Questioned(cache[here].messages)
      BY <2>1, <3>1, QuestionedFront
    <3>3. data = With(here, s)
      BY <2>1
    <3> HIDE DEF s, data
    <3>4. /\ data[here] \in P!Copies /\ data[here].messages = s /\ data[here].active = cache[here].active
          /\ \A c \in Convs \ {here} : data[c] = cache[c]
      BY <1>0, <1>1, <3>2, <3>3, CopyIs
    <3>5. data[here] # None
      BY <3>4, NoneApart
    <3>6. QED
      BY <1>1, <3>2, <3>4, <3>5 DEF P!Active
  <2>2. QED
    BY <1>1, <2>1
<1> HIDE DEF data
<1>6. open' = open /\ cache' = data /\ generation' = generation /\ live' = live
  BY <1>1, <1>4, <1>5, NothingNew
<1>7. fetch'[here] = P!Nothing /\ \A c \in Convs \ {here} : fetch'[c] = fetch[c]
  BY <1>0, <1>4
<1>8. QED
  BY <1>1, <1>3, <1>4, <1>5, <1>6, <1>7, ImpatientWrites

LEMMA ImpatientEdits ==
  ASSUME Assumptions, P!TypeOK, ImpatientInv, I!Edit
  PROVE  ImpatientInv' /\ QuestionsStand
<1>1. requests = {} /\ open = here
  BY ImpatientIsFree DEF I!Edit
<1>2. PICK r : r = [P!Request("edit", here, None) EXCEPT !.turn = 0]
  OBVIOUS
<1>3. r.kind = "edit" /\ r.of = here /\ r.answer = "none"
  BY <1>2 DEF P!Request
<1>4. requests' = {r} /\ UNCHANGED <<stored, open, cache, fetch, generation, live>>
  BY <1>1, <1>2, OtherReader DEF I!Edit, I!server, I!watched
<1>5. QED
  BY <1>1, <1>3, <1>4, ImpatientWrites

LEMMA ImpatientSettles ==
  ASSUME Assumptions, P!TypeOK, ImpatientInv, P!Settle
  PROVE  ImpatientInv' /\ QuestionsStand
<1>0. here \in Convs /\ fetch \in [Convs -> P!Fetches] /\ P!Nothing' = P!Nothing
  BY NoneApart DEF P!TypeOK, P!Nothing
<1>1. P!Busy(here) /\ generation.of = here
  BY DEF P!Settle, P!Busy, ImpatientInv, Alone
<1>2. /\ UNCHANGED <<stored, open, cache, requests>> /\ generation' \in {generation, None}
      /\ fetch'[here] \in {fetch[here], P!Asked}
      /\ \A c \in Convs \ {here} : fetch'[c] = fetch[c]
  BY <1>0, <1>1 DEF P!Settle, P!server
<1>3. \A r \in requests : r.kind # "send"
  BY <1>1, NothingOnItsWay
<1>4. Alone' /\ OneWrite'
  BY <1>0, <1>2 DEF ImpatientInv, Alone, OneWrite
<1>5. \A r \in requests' : OnItsWay(r)'
  BY <1>2, <1>3 DEF ImpatientInv, OnItsWay, Questioned
<1>6. ImpatientInv'
  BY <1>2, <1>4, <1>5, NotIdle DEF ImpatientInv, Questioned
<1>7. QED
  BY <1>2, <1>6 DEF QuestionsStand

LEMMA ImpatientReloads ==
  ASSUME Assumptions, P!TypeOK, ImpatientInv, I!Reload
  PROVE  ImpatientInv' /\ QuestionsStand
<1>0. here \in Convs /\ P!Nothing' = P!Nothing /\ open = here
  BY NoneApart DEF P!Nothing, ImpatientInv, Alone
<1>1. /\ UNCHANGED <<stored, open, generation>> /\ requests' = {}
      /\ \A c \in Convs : cache'[c] = None /\ (c # here => fetch'[c] = P!Nothing)
      /\ fetch'[here] = P!Asked
  BY <1>0, OtherReader DEF I!Reload, I!server
<1>2. Alone' /\ OneWrite'
  BY <1>0, <1>1 DEF ImpatientInv, Alone, OneWrite
<1>3. ImpatientInv'
  BY <1>0, <1>1, <1>2, NotIdle DEF ImpatientInv
<1>4. QED
  BY <1>0, <1>1, <1>3 DEF QuestionsStand

LEMMA ImpatientWaits ==
  ASSUME Assumptions, P!TypeOK, ImpatientInv, NEW r \in requests
  PROVE  /\ requests = {r} /\ r.of = here /\ OnItsWay(r) /\ r \in P!Requests /\ here \in Convs
         /\ open = here
         /\ stored[here] \in Seq(P!Messages)
         /\ cache[here] # None => cache[here].messages \in Seq(P!Messages)
         /\ P!Nothing' = P!Nothing
         /\ cache[here] # None =>
                Questioned(cache[here].messages) \subseteq Questioned(stored[here]) \union
                    (IF r.kind = "send" /\ r.answer # "accepted" THEN {r.turn} ELSE {})
<1>1. requests = {r} /\ r.of = here /\ OnItsWay(r) /\ here \in Convs /\ open = here
  BY TheOne, NoneApart DEF ImpatientInv, Alone
<1>2. r \in P!Requests /\ stored[here] \in Seq(P!Messages) /\ P!Nothing' = P!Nothing
  BY <1>1 DEF P!TypeOK, P!Nothing
<1>3. cache[here] # None => cache[here].messages \in Seq(P!Messages)
  BY <1>1 DEF P!TypeOK, P!Copies
<1>4. {o.turn : o \in {n \in requests : n.kind = "send" /\ n.answer # "accepted"}} =
          IF r.kind = "send" /\ r.answer # "accepted" THEN {r.turn} ELSE {}
  BY <1>1
<1>5. QED
  BY <1>1, <1>2, <1>3, <1>4 DEF ImpatientInv

(* The server answers.                                                     *)
LEMMA ImpatientIsAnswered ==
  ASSUME Assumptions, P!TypeOK, ImpatientInv, NEW r \in requests,
         NEW o, requests' = {o}, o.of = here, o.kind = r.kind, o.turn = r.turn,
         UNCHANGED <<open, cache, fetch, generation, live>>,
         Questioned(stored'[here]) = Questioned(stored[here]) \union
             (IF r.kind = "send" /\ r.answer = "none" /\ o.answer = "accepted" THEN {r.turn} ELSE {}),
         r.answer # "accepted",
         o.kind = "edit" /\ o.answer = "accepted" =>
             o.previous # None /\ Questioned(o.previous.messages) = Questioned(stored'[here]),
         o.kind = "send" => o.previous = r.previous /\ r.answer = "none"
  PROVE  ImpatientInv' /\ QuestionsStand
<1>1. /\ requests = {r} /\ OnItsWay(r) /\ P!Nothing' = P!Nothing /\ here \in Convs
      /\ cache[here] # None =>
             Questioned(cache[here].messages) \subseteq Questioned(stored[here]) \union
                 (IF r.kind = "send" /\ r.answer # "accepted" THEN {r.turn} ELSE {})
  BY ImpatientWaits
<1>2. Alone' /\ OneWrite'
  BY <1>1 DEF ImpatientInv, Alone, OneWrite
<1>3. OnItsWay(o)'
  BY <1>1 DEF OnItsWay, P!Idle, P!Busy
<1>4. {n.turn : n \in {k \in requests' : k.kind = "send" /\ k.answer # "accepted"}} =
          IF o.kind = "send" /\ o.answer # "accepted" THEN {o.turn} ELSE {}
  OBVIOUS
<1>5. /\ fetch[here].loaded # None => Questioned(fetch[here].loaded) = Questioned(stored'[here])
      /\ fetch[here].answer # None => Questioned(fetch[here].answer.messages) = Questioned(stored'[here])
  <2>1. r.kind = "send" => fetch[here] = P!Nothing
    BY <1>1 DEF OnItsWay, P!Idle
  <2>2. QED
    BY <2>1, NotIdle DEF ImpatientInv
<1>6. cache[here] # None =>
          Questioned(cache[here].messages) \subseteq Questioned(stored'[here]) \union
              {n.turn : n \in {k \in requests' : k.kind = "send" /\ k.answer # "accepted"}}
  BY <1>1, <1>4
<1>7. ImpatientInv'
  BY <1>2, <1>3, <1>5, <1>6 DEF ImpatientInv
<1>8. QED
  BY <1>7 DEF QuestionsStand

LEMMA ImpatientIsRefused ==
  ASSUME Assumptions, P!TypeOK, ImpatientInv, NEW r \in requests, I!Refuse(r)
  PROVE  ImpatientInv' /\ QuestionsStand
<1>1. requests = {r} /\ r.of = here /\ r \in P!Requests
  BY ImpatientWaits
<1>2. PICK o : o = [r EXCEPT !.answer = "refused"]
  OBVIOUS
<1>3. /\ o.of = here /\ o.kind = r.kind /\ o.turn = r.turn /\ o.previous = r.previous
      /\ o.answer = "refused" /\ r.answer = "none"
  BY <1>1, <1>2 DEF P!Requests, I!Refuse
<1>4. requests' = {o} /\ UNCHANGED <<stored, open, cache, fetch, generation, live>>
  BY <1>1, <1>2 DEF I!Refuse, I!Answered, I!server, I!watched
<1>5. QED
  BY <1>3, <1>4, ImpatientIsAnswered

LEMMA ImpatientStarts ==
  ASSUME Assumptions, P!TypeOK, ImpatientInv, NEW r \in requests, P!Start(r)
  PROVE  ImpatientInv' /\ QuestionsStand
<1>1. /\ requests = {r} /\ r.of = here /\ r \in P!Requests /\ here \in Convs
      /\ stored[here] \in Seq(P!Messages)
  BY ImpatientWaits
<1>2. PICK o : o = [r EXCEPT !.answer = "accepted"]
  OBVIOUS
<1>3. /\ o.of = here /\ o.kind = r.kind /\ o.turn = r.turn /\ o.previous = r.previous
      /\ o.answer = "accepted" /\ r.answer = "none" /\ r.kind \in {"send", "regenerate"}
  BY <1>1, <1>2 DEF P!Requests, P!Start
<1>4. requests' = {o} /\ UNCHANGED <<open, cache, fetch, generation, live>>
  BY <1>1, <1>2 DEF P!Start, P!Answered, P!watched
<1>5. stored'[here] = P!Question(r)
  BY <1>1 DEF P!Start, P!TypeOK
<1>6. Questioned(P!Question(r)) =
          Questioned(stored[here]) \union (IF r.kind = "send" THEN {r.turn} ELSE {})
  <2>1. CASE r.kind = "send"
    <3>1. /\ P!Message(here, "user", r.turn) \in P!Messages
          /\ P!Message(here, "user", r.turn).type = "user" /\ P!Message(here, "user", r.turn).turn = r.turn
      BY <1>1 DEF P!Message, P!Messages, P!Requests
    <3>2. QED
      BY <1>1, <2>1, <3>1, QuestionedAppend DEF P!Question
  <2>2. CASE r.kind # "send"
    BY <1>1, <2>2, QuestionedFront DEF P!Question
  <2>3. QED
    BY <2>1, <2>2
<1>7. QED
  BY <1>3, <1>4, <1>5, <1>6, ImpatientIsAnswered

LEMMA ImpatientIsEdited ==
  ASSUME Assumptions, P!TypeOK, ImpatientInv, NEW r \in requests, P!ApplyEdit(r)
  PROVE  ImpatientInv' /\ QuestionsStand
<1>1. /\ requests = {r} /\ r.of = here /\ r \in P!Requests /\ here \in Convs
      /\ stored[here] \in Seq(P!Messages)
  BY ImpatientWaits
<1>2. stored'[here] = Reworded(stored[here])
  BY <1>1 DEF P!ApplyEdit, P!TypeOK, Reworded
<1>3. PICK m : m = [messages |-> stored'[here], active |-> None]
  OBVIOUS
<1>4. PICK o : o = [r EXCEPT !.answer = "accepted", !.previous = m]
  OBVIOUS
<1>5. /\ requests' = {o} /\ UNCHANGED <<open, cache, fetch, generation, live>>
      /\ r.kind = "edit" /\ r.answer = "none"
  BY <1>1, <1>3, <1>4 DEF P!ApplyEdit, P!watched
<1>6. /\ o.of = here /\ o.kind = r.kind /\ o.turn = r.turn /\ o.answer = "accepted" /\ o.previous = m
  BY <1>1, <1>4 DEF P!Requests
<1>7. /\ Reworded(stored[here]) \in Seq(P!Messages)
      /\ Questioned(Reworded(stored[here])) = Questioned(stored[here])
  <2> DEFINE s == Reworded(stored[here])
  <2>1. /\ s \in Seq(P!Messages) /\ Len(s) = Len(stored[here])
        /\ \A i \in 1 .. Len(s) : s[i].type = stored[here][i].type /\ s[i].turn = stored[here][i].turn
    BY <1>1, EditIs
  <2> HIDE DEF s
  <2>2. Questioned(s) = Questioned(stored[here])
    BY <1>1, <2>1, QuestionedSame
  <2>3. QED
    BY <2>1, <2>2 DEF s
<1>8. m \in P!Copies /\ m # None
  BY <1>2, <1>3, <1>7, NoneApart DEF P!Copies
<1>9. QED
  BY <1>2, <1>3, <1>5, <1>6, <1>7, <1>8, ImpatientIsAnswered

LEMMA ImpatientIsReplied ==
  ASSUME Assumptions, P!TypeOK, ImpatientInv, NEW c \in Convs, I!EndRun(c) \/ P!Store(c)
  PROVE  ImpatientInv' /\ QuestionsStand
<1>0. here \in Convs /\ stored[here] \in Seq(P!Messages) /\ P!Nothing' = P!Nothing
  BY NoneApart DEF P!TypeOK, P!Nothing
<1>1. UNCHANGED <<open, cache, fetch, requests, generation, live>>
  BY DEF I!EndRun, P!Store, I!watched, P!watched
<1>2. Questioned(stored'[here]) = Questioned(stored[here])
  <2>1. CASE stored'[here] = stored[here]
    BY <2>1
  <2>2. CASE stored'[here] # stored[here]
    <3>1. /\ run[here].turn \in Nat
          /\ stored'[here] = Append(stored[here], P!Message(here, "assistant", run[here].turn))
      BY <1>0, <2>2 DEF I!EndRun, P!Store, P!StoreReply, P!TypeOK, P!Runs
    <3>2. /\ P!Message(here, "assistant", run[here].turn) \in P!Messages
          /\ P!Message(here, "assistant", run[here].turn).type # "user"
      BY <1>0, <3>1 DEF P!Message, P!Messages
    <3>3. QED
      BY <1>0, <3>1, <3>2, QuestionedAppend
  <2>3. QED
    BY <2>1, <2>2
<1>3. Alone' /\ OneWrite'
  BY <1>0, <1>1 DEF ImpatientInv, Alone, OneWrite
<1>4. \A r \in requests' : OnItsWay(r)'
  BY <1>0, <1>1, <1>2 DEF ImpatientInv, OnItsWay, P!Idle, P!Busy
<1>5. ImpatientInv'
  BY <1>1, <1>2, <1>3, <1>4 DEF ImpatientInv
<1>6. QED
  BY <1>1, <1>5 DEF QuestionsStand

(* An answer arrives.                                                      *)
LEMMA ImpatientIsDone ==
  ASSUME Assumptions, P!TypeOK, ImpatientInv, NEW r \in requests,
         UNCHANGED <<stored, open, fetch>>, requests' = {},
         generation' # None => generation'.of = here,
         \A c \in Convs \ {here} : cache'[c] = cache[c],
         cache'[here] # None =>
             Questioned(cache'[here].messages) \subseteq Questioned(stored[here]),
         cache[here] # None /\ cache'[here] # None =>
             Questioned(cache[here].messages) \subseteq Questioned(cache'[here].messages) \union
                 (IF r.answer = "refused" THEN {r.turn} ELSE {})
  PROVE  ImpatientInv' /\ QuestionsStand
<1>1. P!Nothing' = P!Nothing
  BY DEF P!Nothing
<1>2. Alone' /\ OneWrite'
  BY <1>1 DEF ImpatientInv, Alone, OneWrite
<1>3. ImpatientInv'
  BY <1>2 DEF ImpatientInv
<1>4. QED
  BY <1>3 DEF QuestionsStand

LEMMA ImpatientIsAccepted ==
  ASSUME Assumptions, P!TypeOK, ImpatientInv, NEW r \in requests, P!Accepted(r)
  PROVE  ImpatientInv' /\ QuestionsStand
<1>1. /\ requests = {r} /\ r.of = here /\ OnItsWay(r) /\ here \in Convs
      /\ cache[here] # None => cache[here].messages \in Seq(P!Messages)
      /\ cache[here] # None =>
             Questioned(cache[here].messages) \subseteq Questioned(stored[here]) \union
                 (IF r.kind = "send" /\ r.answer # "accepted" THEN {r.turn} ELSE {})
  BY ImpatientWaits
<1>2. /\ cache' = IF r.kind = "send" THEN P!Reconciled(r) ELSE cache
      /\ UNCHANGED <<stored, open, fetch>> /\ requests' = {} /\ r.answer = "accepted"
      /\ generation' = [turn |-> r.turn, of |-> here]
  BY <1>1 DEF P!Accepted, P!server
<1>3. /\ \A c \in Convs \ {here} : cache'[c] = cache[c]
      /\ cache[here] = None <=> cache'[here] = None
      /\ cache[here] # None => Questioned(cache'[here].messages) = Questioned(cache[here].messages)
  <2>1. CASE r.kind # "send" \/ cache[here] = None
    BY <1>1, <1>2, <2>1 DEF P!Reconciled
  <2>2. CASE r.kind = "send" /\ cache[here] # None
    <3> DEFINE m == cache[here].messages
               s == Confirmed(m, r.turn)
    <3>1. m \in Seq(P!Messages) /\ cache' = With(here, s)
      BY <1>1, <1>2, <2>2 DEF P!Reconciled, Confirmed, With
    <3> HIDE DEF m
    <3>2. /\ s \in Seq(P!Messages) /\ Len(s) = Len(m)
          /\ \A i \in 1 .. Len(m) : s[i].type = m[i].type /\ s[i].turn = m[i].turn
      <4>1. m \in Seq(P!Messages)
        BY <3>1
      <4>2. /\ Confirmed(m, r.turn) \in Seq(P!Messages) /\ Len(Confirmed(m, r.turn)) = Len(m)
            /\ \A i \in 1 .. Len(m) :
                   /\ Confirmed(m, r.turn)[i].type = m[i].type /\ Confirmed(m, r.turn)[i].turn = m[i].turn
                   /\ ~m[i].temporary => Confirmed(m, r.turn)[i] = m[i]
                   /\ m[i].temporary /\ m[i].turn = r.turn =>
                          Confirmed(m, r.turn)[i] = [m[i] EXCEPT !.temporary = FALSE]
        BY <4>1, ReconcileIs
      <4>3. QED
        BY <4>2
    <3> HIDE DEF s
    <3>3. Questioned(s) = Questioned(m)
      BY <3>1, <3>2, QuestionedSame
    <3>4. /\ cache'[here] \in P!Copies /\ cache'[here].messages = s
          /\ \A c \in Convs \ {here} : cache'[c] = cache[c]
      BY <1>1, <2>2, <3>1, <3>2, CopyIs
    <3>5. QED
      BY <2>2, <3>3, <3>4, NoneApart DEF m
  <2>3. QED
    BY <2>1, <2>2
<1>4. QED
  BY <1>1, <1>2, <1>3, ImpatientIsDone

LEMMA ImpatientIsEditedOrRefused ==
  ASSUME Assumptions, P!TypeOK, ImpatientInv, NEW r \in requests, P!Edited(r) \/ P!Refused(r)
  PROVE  ImpatientInv' /\ QuestionsStand
<1>1. /\ requests = {r} /\ r.of = here /\ OnItsWay(r) /\ here \in Convs /\ open = here
      /\ cache \in [Convs -> P!Copies \union {None}] /\ r \in P!Requests
      /\ cache[here] # None =>
             Questioned(cache[here].messages) \subseteq Questioned(stored[here]) \union
                 (IF r.kind = "send" /\ r.answer # "accepted" THEN {r.turn} ELSE {})
  BY ImpatientWaits DEF P!TypeOK
<1> DEFINE data == IF P!Edited(r) \/ (r.kind = "send" /\ r.previous # None)
                   THEN [cache EXCEPT ![here] = r.previous] ELSE cache
<1>2. P!Commit(open, data) /\ UNCHANGED <<stored, fetch>> /\ requests' = {}
  <2>1. CASE P!Edited(r)
    BY <1>1, <2>1 DEF P!Edited, P!server
  <2>2. CASE P!Refused(r)
    BY <1>1, <2>2 DEF P!Edited, P!Refused, P!server
  <2>3. QED
    BY <2>1, <2>2
<1>3. /\ cache' = data /\ open' = open
      /\ generation' # None => generation'.of = here
  BY <1>1, <1>2 DEF P!Commit, P!Adopted, ImpatientInv, Alone
<1>4. \A c \in Convs \ {here} : cache'[c] = cache[c]
  BY <1>1, <1>3
<1>5. /\ cache'[here] # None =>
             Questioned(cache'[here].messages) \subseteq Questioned(stored[here])
      /\ cache[here] # None /\ cache'[here] # None =>
             Questioned(cache[here].messages) \subseteq Questioned(cache'[here].messages) \union
                 (IF r.answer = "refused" THEN {r.turn} ELSE {})
  <2>1. CASE P!Edited(r)
    <3>1. cache'[here] = r.previous /\ r.kind = "edit" /\ r.answer = "accepted"
      BY <1>1, <1>3, <2>1 DEF P!Edited
    <3>2. QED
      BY <1>1, <3>1 DEF OnItsWay
  <2>2. CASE P!Refused(r) /\ ~P!Edited(r) /\ r.kind = "send"
    <3>1. /\ cache'[here] = IF r.previous # None THEN r.previous ELSE cache[here]
          /\ r.answer = "refused"
      BY <1>1, <1>3, <2>2 DEF P!Refused
    <3>2. QED
      BY <1>1, <2>2, <3>1 DEF OnItsWay
  <2>3. CASE P!Refused(r) /\ ~P!Edited(r) /\ r.kind # "send"
    BY <1>1, <1>3, <2>3
  <2>4. QED
    BY <2>1, <2>2, <2>3
<1> HIDE DEF data
<1>6. QED
  BY <1>2, <1>3, <1>4, <1>5, ImpatientIsDone

LEMMA ImpatientStep ==
  ASSUME Assumptions, P!TypeOK, ImpatientInv, I!Next, open' = open
  PROVE  ImpatientInv' /\ I!QuestionStays
<1>1. \A c : ~P!Open(c)
  BY DEF P!Open, P!Commit
<1>2. ImpatientInv' /\ QuestionsStand
  BY <1>1, SameReaders, ImpatientReads, ImpatientLands, ImpatientSends, ImpatientRegenerates, ImpatientEdits,
     ImpatientSettles, ImpatientReloads, ImpatientIsRefused, ImpatientStarts, ImpatientIsEdited,
     ImpatientIsReplied, ImpatientIsAccepted, ImpatientIsEditedOrRefused
  DEF I!Next
<1>3. QED
  BY <1>2, QuestionsStandIs

LEMMA ImpatientInit ==
  ASSUME Assumptions, P!Init, open = here
  PROVE  ImpatientInv
<1>1. here \in Convs
  BY NoneApart
<1>2. Alone /\ OneWrite
  BY <1>1 DEF P!Init, Alone, OneWrite
<1>3. QED
  BY <1>1, <1>2, NotIdle DEF P!Init, ImpatientInv

-----------------------------------------------------------------------------
(* All of it.                                                              *)

(* The conversation on the screen, for the reader whose it is.             *)
TranscriptInv ==
    /\ P!TypeOK
    /\ part = "patient" => PatientInv
    /\ part = "impatient" => ImpatientInv

IInv == TranscriptInv /\ ComposerInv /\ ScrollInv

LEMMA TranscriptInit ==
  ASSUME Assumptions, P!Init, part # "patient" => open = here
  PROVE  TranscriptInv
<1>1. << >> \in Seq(P!Messages) /\ P!NoRun \in P!Runs /\ P!Nothing \in P!Fetches /\ P!Asked \in P!Fetches
  <2>1. P!Nothing \in P!Fetches
    BY DEF P!Fetches, P!Nothing
  <2>2. P!Asked \in P!Fetches
    BY <2>1 DEF P!Fetches, P!Asked
  <2>3. QED
    BY <2>1, <2>2 DEF P!NoRun, P!Runs
<1>2. P!TypeOK
  BY <1>1 DEF P!Init, P!TypeOK
<1>3. QED
  BY <1>2, PatientInit, ImpatientInit DEF TranscriptInv

LEMMA TranscriptStay ==
  ASSUME TranscriptInv, UNCHANGED <<part, transcriptVars>>
  PROVE  TranscriptInv'
<1>1. UNCHANGED <<part, stored, run, open, cache, invalid, fetch, requests, generation, live, settled,
                  settling, turns, edits, reloads>>
  BY DEF transcriptVars
<1>2. P!TypeOK'
  BY <1>1
  DEF TranscriptInv, P!TypeOK, P!Messages, P!Copies, P!Generations, P!Runs, P!Fetches, P!Requests
<1>3. part = "patient" => PatientInv'
  <2>1. SUFFICES ASSUME PatientInv PROVE PatientInv'
    BY <1>1 DEF TranscriptInv
  <2>2. Elsewhere' /\ Reading' /\ Shown'
    BY <1>1, <2>1
    DEF PatientInv, Elsewhere, Reading, Shown, Still, AfterRun, ReplyOf, Blank, P!Message, P!NoRun,
        P!Idle, P!Nothing
  <2>3. QED
    BY <1>1, <2>1, <2>2, ReadsOnly DEF PatientInv
<1>4. part = "impatient" => ImpatientInv'
  BY <1>1
  DEF TranscriptInv, ImpatientInv, Alone, OneWrite, OnItsWay, Questioned, P!Idle, P!Busy, P!Nothing
<1>5. QED
  BY <1>1, <1>2, <1>3, <1>4 DEF TranscriptInv

LEMMA ComposerStay ==
  ASSUME ComposerInv, UNCHANGED composerVars
  PROVE  ComposerInv'
<1>1. UNCHANGED <<tray, uploads, draft, place, sends, watched, file, deletes, chats, questions,
                  running, dismissed, overtaken, words, files, presses, lost>>
  BY DEF composerVars
<1>2. B!TypeOK'
  BY <1>1
  DEF ComposerInv, B!TypeOK, B!Items, B!Uploads, B!Sends, B!Questions, B!Files
<1>3. OneSend' /\ OneOfEach' /\ SendHolds' /\ B!NothingTypedIsLost'
  BY <1>1 DEF ComposerInv, Written, OneSend, OneOfEach, SendHolds, B!NothingTypedIsLost
<1>4. Stands' /\ Kept'
  BY <1>1 DEF ComposerInv, Written, Stands, Kept, B!Files
<1>5. QED
  BY <1>2, <1>3, <1>4 DEF ComposerInv, Written

LEMMA ScrollStay ==
  ASSUME ScrollInv, UNCHANGED scrollVars
  PROVE  ScrollInv'
<1>1. UNCHANGED <<above, below, view, top, event, pinned, userScrolled, scrollable, programmatic,
                  smooth, smoothing, resizing, seen, effects, busy, noted, reading, squeezed, scrolls>>
  BY DEF scrollVars
<1>2. V!Flags'
  BY <1>1 DEF ScrollInv, V!Flags
<1>3. Placed'
  BY <1>1
  DEF ScrollInv, Placed, V!Lengths, Fits, Away, Explained, Seen, V!AtBottom, V!Bottom, V!End,
      V!Height, V!TailOf
<1>4. QED
  BY <1>2, <1>3 DEF ScrollInv

LEMMA AllStep ==
  ASSUME Assumptions, IInv, [Next]_vars
  PROVE  IInv'
<1>0. V!TypeOK
  BY DEF IInv, ScrollInv, Placed, V!TypeOK
<1>1. TranscriptInv'
  <2>1. CASE part = "patient" /\ P!Next /\ part' = part
    BY <2>1, TranscriptType, PatientStep DEF IInv, TranscriptInv
  <2>2. CASE part = "impatient" /\ I!Next /\ open' = open /\ part' = part
    BY <2>2, TranscriptType, ImpatientStep DEF IInv, TranscriptInv
  <2>3. CASE UNCHANGED <<part, transcriptVars>>
    BY <2>3, TranscriptStay DEF IInv
  <2>4. QED
    BY <2>1, <2>2, <2>3 DEF Next, vars
<1>2. ComposerInv'
  <2>1. CASE B!Next
    BY <2>1, ComposerType, ComposerStep DEF IInv, ComposerInv
  <2>2. CASE UNCHANGED composerVars
    BY <2>2, ComposerStay DEF IInv
  <2>3. QED
    BY <2>1, <2>2 DEF Next, vars
<1>3. ScrollInv'
  <2>1. CASE V!Next
    BY <1>0, <2>1, FlagsStep, PlacedStep DEF IInv, ScrollInv
  <2>2. CASE UNCHANGED scrollVars
    BY <2>2, ScrollStay DEF IInv
  <2>3. QED
    BY <2>1, <2>2 DEF Next, vars
<1>4. QED
  BY <1>1, <1>2, <1>3 DEF IInv

(* What the four parts keep: for any conversations, files, heights and     *)
(* bounds, over everything the server may answer.                          *)
THEOREM ReadersAreKept == Spec => []IInv
<1>0. Assumptions
  BY Assumptions
<1>1. Init => IInv
  BY <1>0, TranscriptInit, ComposerInit, ScrollInit DEF Init, IInv
<1>2. IInv /\ [Next]_vars => IInv'
  BY <1>0, AllStep
<1>3. QED
  BY <1>1, <1>2, PTL DEF Spec, vars

(* "cleared earlier, a failed send would lose the files as well as the     *)
(* text" (App.tsx:781): every word and file is in the composer, on its way *)
(* or in a question, what is kept can be sent, and when nothing is under   *)
(* way what is stored is shown, for any files, words, presses and lost     *)
(* answers, any conversations and any number of questions, edits and       *)
(* failures.                                                               *)
THEOREM KeepsWhatWasWritten == Spec => []NothingIsLost
<1>0. Assumptions
  BY Assumptions
<1>1. IInv => NothingIsLost
  BY <1>0, ComposerKeeps, PatientSeesIt DEF IInv, TranscriptInv, NothingIsLost
<1>2. QED
  BY <1>1, ReadersAreKept, PTL

(* "Let go once the stored transcript has landed" (App.tsx:648): a reply   *)
(* that was shown stays on the screen of whoever waits for the page, and a *)
(* question that was shown stays for whoever does not, for any             *)
(* conversations, any number of questions, edits and reloads, and every    *)
(* order of the answers.                                                   *)
THEOREM ShowsWhatItShowed == Spec => WhatIsShownStays
<1>0. Assumptions
  BY Assumptions
<1>1. IInv /\ [Next]_vars =>
        [ /\ part = "patient" => P!ReplyStaysOnScreen
          /\ part = "impatient" => I!QuestionStays ]_<<part, transcriptVars>>
  <2>1. SUFFICES ASSUME IInv, [Next]_vars, ~ UNCHANGED <<part, transcriptVars>>
                 PROVE  /\ part = "patient" => P!ReplyStaysOnScreen
                        /\ part = "impatient" => I!QuestionStays
    OBVIOUS
  <2>2. \/ part = "patient" /\ P!Next
        \/ part = "impatient" /\ I!Next /\ open' = open
    BY <2>1 DEF Next, vars
  <2>3. CASE part = "patient" /\ P!Next
    BY <1>0, <2>1, <2>3, PatientKeepsReplies DEF IInv, TranscriptInv
  <2>4. CASE part = "impatient" /\ I!Next /\ open' = open
    BY <1>0, <2>1, <2>4, ImpatientStep DEF IInv, TranscriptInv
  <2>5. QED
    BY <2>2, <2>3, <2>4
<1>2. QED
  BY <1>1, ReadersAreKept, PTL DEF Spec, vars, WhatIsShownStays

(* Whoever scrolled up is not moved, who follows goes on following, and a  *)
(* question that is being answered stays where it is (useScrollPin.ts,     *)
(* useTailSpace.ts): for any heights, windows and thresholds, and events   *)
(* that come as late as they may.                                          *)
THEOREM KeepsThePlace == Spec => ReaderKeepsThePlace
<1>0. Assumptions
  BY Assumptions
<1>1. IInv /\ [Next]_vars =>
        [ /\ V!ReaderKeepsThePlace /\ V!OnlyTheReaderUnpins
          /\ V!QuestionHoldsStill ]_<<part, scrollVars>>
  <2>1. SUFFICES ASSUME IInv, [Next]_vars, ~ UNCHANGED <<part, scrollVars>>
                 PROVE  V!ReaderKeepsThePlace /\ V!OnlyTheReaderUnpins /\ V!QuestionHoldsStill
    OBVIOUS
  <2>2. V!Next
    BY <2>1 DEF Next, vars
  <2>3. QED
    BY <1>0, <2>1, <2>2, ReadingStays, FollowingStays, QuestionStill DEF IInv
<1>2. QED
  BY <1>1, ReadersAreKept, PTL DEF Spec, vars, ReaderKeepsThePlace

=============================================================================
