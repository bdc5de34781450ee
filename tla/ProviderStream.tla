--------------------------- MODULE ProviderStream ---------------------------
(***************************************************************************)
(* One streamed reply of the model provider: LlamaCppProvider.streamChat() *)
(* (provider/llamacpp.ts) over safeFetch() (provider/ssrf.ts), and where   *)
(* its end puts the run (#run, generation/manager.ts).                     *)
(*                                                                         *)
(* The bytes come in reads that end anywhere: after whole frames, or with  *)
(* a part of one.  A frame is told when its end has come, so what a part   *)
(* holds is chosen then.  A piece of arguments is the place of the frame   *)
(* that brought it.                                                        *)
(***************************************************************************)
EXTENDS Integers, SequencesExt, FiniteSetsExt

CONSTANTS Frames,            \* [kind, says, fragment, finish]
          NoFragment,
          FrameBytes,        \* of a frame; a part of one is one byte
          MaxResponseBytes,  \* #maxResponseBytes
          MaxArguments,      \* MAX_TOOL_ARGUMENT_CHARS
          MaxCalls           \* MAX_TOOL_CALLS

Kinds == {"delta", "junk", "error", "usage"}

Fragments == [index : Nat, named : BOOLEAN, length : Nat]

FrameAssumption ==
    /\ \A f \in Frames :
          /\ f.kind \in Kinds /\ f.says \in Seq({"reasoning", "content"})
          /\ f.fragment \in Fragments \union {NoFragment} /\ f.finish \in BOOLEAN
    /\ {FrameBytes, MaxResponseBytes, MaxArguments, MaxCalls} \subseteq Nat \ {0}

VARIABLES pc,
          frames,    \* the whole frames received so far
          part,      \* bytes of a frame whose end has not come
          parsed,    \* how many of the frames are parsed
          pending,   \* calls under construction, by index
          output,    \* what the consumer was given
          released,  \* the dispatcher is closed
          outcome,   \* how the request ended, None while it runs
          aborted, expired  \* the two signals

vars == <<pc, frames, part, parsed, pending, output, released, outcome, aborted, expired>>

Fresh == [named |-> FALSE, args |-> << >>, length |-> 0, overflow |-> FALSE]

NoCalls == [i \in {} |-> Fresh]

Init ==
    /\ pc = "connecting" /\ outcome = "none" /\ released = FALSE
    /\ frames = << >> /\ part = 0 /\ parsed = 0
    /\ pending = NoCalls /\ output = << >>
    /\ aborted = FALSE /\ expired = FALSE

-----------------------------------------------------------------------------
(* Every way out of streamChat() releases the connection.                  *)
End(how) ==
    /\ pc' = "ended" /\ outcome' = how /\ released' = TRUE

UNCHANGEDStream == UNCHANGED <<frames, part, parsed, pending, output>>

Signalled == aborted \/ expired

Connect ==
    /\ pc = "connecting" /\ ~Signalled
    /\ pc' \in {"reading", "refused"}
    /\ UNCHANGED <<released, outcome, aborted, expired>> /\ UNCHANGEDStream

FetchFails ==
    /\ pc = "connecting"
    /\ \E how \in (IF aborted THEN {"raw"} ELSE
                   IF expired THEN {"PROVIDER_TIMEOUT"}
                   ELSE {"PROVIDER_UNAVAILABLE", "ENDPOINT_NOT_ALLOWED"}) : End(how)
    /\ UNCHANGED <<aborted, expired>> /\ UNCHANGEDStream

(* Not ok, or no body.  A body that cannot be read leaves the status.      *)
Refuse ==
    /\ pc = "refused"
    /\ \E how \in {"PROVIDER_ERROR"} \union (IF Signalled THEN {} ELSE {"MODEL_NOT_FOUND"}) : End(how)
    /\ UNCHANGED <<aborted, expired>> /\ UNCHANGEDStream

-----------------------------------------------------------------------------
(* The reader.                                                             *)

Bytes(whole, rest) == FrameBytes * whole + rest

(* The bytes a read brings, counted from the start.                        *)
TooMuch(whole, rest) == Bytes(whole, rest) > MaxResponseBytes

(* Some whole frames, the first of them with the part there already was,   *)
(* and perhaps a part of another.                                          *)
Read ==
    /\ pc = "reading" /\ ~Signalled
    /\ \E n \in 0 .. 2, rest \in 0 .. FrameBytes - 1 :
          /\ Bytes(Len(frames) + n, rest) > Bytes(Len(frames), part)
          /\ IF TooMuch(Len(frames) + n, rest)
             THEN /\ End("PROVIDER_ERROR")
                  /\ UNCHANGED <<frames, part>>
             ELSE /\ frames' \in {frames \o fs : fs \in [1 .. n -> Frames]}
                  /\ part' = rest
                  /\ pc' = (IF n = 0 THEN pc ELSE "parsing")
                  /\ UNCHANGED <<released, outcome>>
    /\ UNCHANGED <<parsed, pending, output, aborted, expired>>

(* A part that is left is dropped.                                         *)
StreamDone ==
    /\ pc = "reading" /\ ~Signalled
    /\ End("done")
    /\ UNCHANGED <<aborted, expired>> /\ UNCHANGEDStream

(* reader.read() rejects: a signal, or the connection broke.               *)
ReadFails ==
    /\ pc = "reading"
    /\ End("raw")
    /\ UNCHANGED <<aborted, expired>> /\ UNCHANGEDStream

-----------------------------------------------------------------------------
(* #parseFrame() and #accumulateToolCalls().                               *)

CallAt(i) == IF i \in DOMAIN pending THEN pending[i] ELSE Fresh

(* A slip: an oversized call starts afresh.                                *)
ExtendedAfresh(call, fragment) ==
    LET called == [call EXCEPT !.named = @ \/ fragment.named]
    IN  IF fragment.length = 0 THEN called
        ELSE IF call.length + fragment.length > MaxArguments THEN Fresh
             ELSE [called EXCEPT !.args = Append(@, parsed + 1), !.length = @ + fragment.length]

(* The call with one more piece.                                           *)
Extended(call, fragment) ==
    LET called == [call EXCEPT !.named = @ \/ fragment.named]
    IN  IF fragment.length = 0 THEN called
        ELSE IF call.length + fragment.length > MaxArguments
             THEN [called EXCEPT !.overflow = TRUE]
             ELSE [called EXCEPT !.args = Append(@, parsed + 1), !.length = @ + fragment.length]

Accumulated(fragment) ==
    IF fragment = NoFragment \/ fragment.index >= MaxCalls THEN pending
    ELSE [i \in DOMAIN pending \union {fragment.index} |->
             IF i = fragment.index THEN Extended(CallAt(i), fragment) ELSE pending[i]]

Emitted(call) == call.named /\ ~call.overflow

(* In the order of their index.                                            *)
Calls(held) ==
    LET indices == SetToSortSeq({i \in DOMAIN held : Emitted(held[i])}, <)
    IN  [k \in DOMAIN indices |->
            [type |-> "tool_call", at |-> indices[k], args |-> held[indices[k]].args]]

Say(type) == [type |-> type, at |-> parsed + 1, args |-> << >>]

Told(frame) ==
    [k \in DOMAIN frame.says |-> Say(frame.says[k])]
      \o (IF frame.finish THEN Calls(Accumulated(frame.fragment)) \o <<Say("finish")>> ELSE << >>)

Left(frame) == IF frame.finish THEN NoCalls ELSE Accumulated(frame.fragment)

(* A consumer that has stopped leaves the loop at the next chunk.          *)
Parse ==
    /\ pc = "parsing"
    /\ LET frame == frames[parsed + 1]
           chunks == IF frame.kind = "delta" THEN Told(frame) ELSE << >>
           stopped == aborted /\ chunks # << >>
       IN  /\ parsed' = parsed + 1
           /\ pending' = (IF frame.kind = "delta" THEN Left(frame) ELSE pending)
           /\ output' = (IF stopped THEN output ELSE output \o chunks)
           /\ IF frame.kind = "error" THEN End("PROVIDER_ERROR")
              ELSE IF stopped THEN End("returned")
              ELSE /\ pc' = (IF parsed' = Len(frames) THEN "reading" ELSE pc)
                   /\ UNCHANGED <<released, outcome>>
    /\ UNCHANGED <<frames, part, aborted, expired>>

-----------------------------------------------------------------------------
(* cancel(), and the timeout that covers the request to its last byte.     *)

Abort ==
    /\ pc # "ended" /\ ~aborted
    /\ aborted' = TRUE
    /\ UNCHANGED <<pc, released, outcome, expired>> /\ UNCHANGEDStream

Expire ==
    /\ pc \in {"connecting", "refused", "reading"} /\ ~expired
    /\ expired' = TRUE
    /\ UNCHANGED <<pc, released, outcome, aborted>> /\ UNCHANGEDStream

Next ==
    \/ Connect \/ FetchFails \/ Refuse
    \/ Read \/ StreamDone \/ ReadFails \/ Parse
    \/ Abort \/ Expire

Spec == Init /\ [][Next]_vars

-----------------------------------------------------------------------------
(* What the first n frames ask for, read as a whole: the pieces of each    *)
(* index since the last finish.                                            *)
Delta(k) == frames[k].kind = "delta"
Finishes(k) == Delta(k) /\ frames[k].finish
Since(p) == {k \in 1 .. p : Delta(k) /\ \A q \in k .. p - 1 : ~Finishes(q)}
PiecesOf(i, p) ==
    {k \in Since(p) : frames[k].fragment # NoFragment /\ frames[k].fragment.index = i}
Wanted(i, p) ==
    /\ \E k \in PiecesOf(i, p) : frames[k].fragment.named
    /\ MapThenSumSet(LAMBDA k : frames[k].fragment.length, PiecesOf(i, p)) <= MaxArguments
CallsAsked(p) ==
    {[type |-> "tool_call", at |-> i,
      args |-> SetToSortSeq({k \in PiecesOf(i, p) : frames[k].fragment.length > 0}, <)] :
        i \in {j \in 0 .. MaxCalls - 1 : Wanted(j, p)}}

(* The consumer is given the calls that were asked for, each of them       *)
(* whole, once and before the finish that closes it; a call without a name *)
(* or beyond the limit is never given in part, whatever follows it, and    *)
(* one index takes nothing of another or of a turn before.                 *)
(* (#accumulateToolCalls, MAX_TOOL_ARGUMENT_CHARS.)                        *)
CallsAreWhole ==
    LET finishes == {k \in 1 .. parsed : Finishes(k)}
        given(p) == {o \in ToSet(output) : o.type = "finish" /\ o.at = p}
        before(p) == {k \in DOMAIN output :
                        /\ output[k].type = "tool_call"
                        /\ Cardinality({q \in 1 .. k : output[q].type = "finish"})
                             = Cardinality({q \in finishes : q < p})}
    IN  ~aborted => \A p \in finishes :
            /\ given(p) # {}
            /\ {output[k] : k \in before(p)} = CallsAsked(p)
            /\ Cardinality(before(p)) = Cardinality(CallsAsked(p))

(* What the process holds of a reply stays within its two limits, however  *)
(* the provider cuts what it sends.  (#maxResponseBytes.)                  *)
HeldIsBounded ==
    /\ Bytes(Len(frames), part) <= MaxResponseBytes
    /\ \A i \in DOMAIN pending : pending[i].length <= MaxArguments

(* The connection is given back by the time the request has ended, however *)
(* it ended, and not while it is read.                                     *)
ReleasedAtTheEnd == released <=> pc = "ended"
=============================================================================
