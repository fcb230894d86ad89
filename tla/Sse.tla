--------------------------------- MODULE Sse ---------------------------------
(***************************************************************************)
(* Server-sent events (sse.rs): SseDecoder fed with the chunks of a body,  *)
(* the SseEventStream that polls the body and hands out the events, and,   *)
(* as the reference both are compared with, parse_sse_events on the whole  *)
(* text.                                                                   *)
(*                                                                         *)
(* A text is a sequence of tokens: a line end ("cr", "lf"), the name of a  *)
(* field with its colon ("data", "event", "id"), a blank, or another       *)
(* character ("text").                                                     *)
(*                                                                         *)
(* The limit of SseEventStream is that of the MaxBytesStream below it, and *)
(* is reported there first: for the decoder it is a body that fails.       *)
(***************************************************************************)
EXTENDS Integers, Sequences, SequencesExt

CONSTANTS
  MinChunk,  (* the length of the shortest chunk the body may hold         *)
  MaxText    (* bound: the length of a text                                *)

Fields == {"data", "event", "id"}
Tokens == Fields \cup {"cr", "lf", "blank", "text"}

ASSUME BoundsAssumption == MinChunk \in {0, 1} /\ MaxText \in Nat

VARIABLES
  text,       (* history: what the decoder was given                       *)
  buffer,     (* SseDecoder.buffer                                         *)
  pendingCr,  (* SseDecoder.pending_cr                                     *)
  pending,    (* SseEventStream.pending                                    *)
  delivered,  (* history: the events the reader got                        *)
  finished,   (* SseEventStream.finished                                   *)
  failed,     (* history: the reader got an error                          *)
  closed      (* the body stream has failed                                *)

decoder == <<text, buffer, pendingCr>>
vars == <<decoder, pending, delivered, finished, failed, closed>>

-----------------------------------------------------------------------------
(* Lines, blocks and events.                                               *)

(* Where the first blank line of s begins, 0 if there is none.             *)
BlankLine(s) ==
  LET starts == {i \in 1..(Len(s) - 1) : s[i] = "lf" /\ s[i + 1] = "lf"}
  IN  IF starts = {} THEN 0 ELSE Min(starts)

(* Where the first line of s ends.                                         *)
LineEnd(s) == Min({i \in 1..Len(s) : s[i] = "lf"} \cup {Len(s) + 1})

(* One blank after a field's colon is not part of its value.               *)
StripOneSpace(value) ==
  IF value # <<>> /\ Head(value) = "blank" THEN Tail(value) ELSE value

(* The value of the field f in one line, if the line begins with its name. *)
ValueIn(f, line) ==
  IF line # <<>> /\ Head(line) = f THEN <<StripOneSpace(Tail(line))>> ELSE <<>>

(* The values of f in the lines of a block, one line after the other.      *)
Values(f, block) ==
  LET values[s \in Seq(Tokens)] ==
        LET end == LineEnd(s)
        IN  ValueIn(f, SubSeq(s, 1, end - 1))
              \o IF end > Len(s) THEN <<>> ELSE values[SubSeq(s, end + 1, Len(s))]
  IN  values[block]

(* parse_sse_block: at most one event.  Its data are the values of all     *)
(* data lines; of its name and its id, there is at most one, the last.     *)
ParseBlock(block) ==
  LET last(f) == IF Values(f, block) = <<>> THEN <<>> ELSE <<Last(Values(f, block))>>
  IN  IF \A f \in Fields : Values(f, block) = <<>> THEN <<>>
      ELSE <<[data |-> Values("data", block), event |-> last("event"), id |-> last("id")]>>

(* s without the tokens of `from` at its ends.                             *)
Trim(s, from) ==
  LET kept == {i \in DOMAIN s : s[i] \notin from}
  IN  IF kept = {} THEN <<>> ELSE SubSeq(s, Min(kept), Max(kept))

TrimmedBlock(block) == ParseBlock(Trim(block, {"lf", "blank"}))

(* The events of the blocks of s that a blank line ends, and what follows. *)
Drain(buffered) ==
  LET drain[s \in Seq(Tokens)] ==
        LET pos == BlankLine(s)
        IN  IF pos = 0 THEN [events |-> <<>>, rest |-> s]
            ELSE LET later == drain[SubSeq(s, pos + 2, Len(s))]
                 IN  [events |-> TrimmedBlock(SubSeq(s, 1, pos - 1)) \o later.events,
                      rest   |-> later.rest]
  IN  drain[buffered]

-----------------------------------------------------------------------------
EndsInCr(s) == s # <<>> /\ Last(s) = "cr"

(* parse_sse_events: every CRLF and every CR of the whole text is an LF.   *)
Normalized(whole) ==
  LET normal[s \in Seq(Tokens)] ==
        IF s = <<>> THEN <<>>
        ELSE normal[Front(s)] \o
               IF Last(s) = "cr" THEN <<"lf">>
               ELSE IF Last(s) = "lf" /\ EndsInCr(Front(s)) THEN <<>> ELSE <<Last(s)>>
  IN  normal[whole]

ParseSseEvents(s) ==
  LET drained == Drain(Normalized(s))
  IN  drained.events \o TrimmedBlock(drained.rest)

-----------------------------------------------------------------------------
Init ==
  /\ text = <<>> /\ buffer = <<>> /\ pendingCr = FALSE
  /\ pending = <<>> /\ delivered = <<>>
  /\ finished = FALSE /\ failed = FALSE /\ closed = FALSE

(* Faulty variant: a CR at the end of a chunk is not remembered.           *)
NormalizedChunkForgetful(chunk) == Normalized(chunk)

(* push_normalized: a CR at the end of the previous chunk swallows an LF   *)
(* at the beginning of this one; a CR at the end of this one waits.        *)
NormalizedChunk(chunk) ==
  LET carried == IF pendingCr THEN <<"cr">> \o chunk ELSE chunk
  IN  Normalized(IF EndsInCr(chunk) THEN Front(carried) ELSE carried)

(* Faulty variant: one event per chunk.                                    *)
PushOne(chunk) ==
  LET grown == buffer \o NormalizedChunk(chunk)
      pos == BlankLine(grown)
  IN  IF pos = 0 THEN [events |-> <<>>, rest |-> grown]
      ELSE [events |-> TrimmedBlock(SubSeq(grown, 1, pos - 1)),
            rest   |-> SubSeq(grown, pos + 2, Len(grown))]

Push(chunk) == Drain(buffer \o NormalizedChunk(chunk))

(* SseEventStream hands out what it has before it polls the body again.    *)
TakeEvent ==
  /\ pending # <<>>
  /\ delivered' = Append(delivered, Head(pending))
  /\ pending' = Tail(pending)
  /\ UNCHANGED <<decoder, finished, failed, closed>>

Polls == pending = <<>> /\ ~finished

PushChunk ==
  /\ Polls /\ ~closed
  /\ \E n \in MinChunk..(MaxText - Len(text)) : \E chunk \in [1..n -> Tokens] :
       /\ text' = text \o chunk
       /\ LET pushed == Push(chunk)
          IN  buffer' = pushed.rest /\ pending' = pushed.events
       /\ pendingCr' = EndsInCr(chunk)
  /\ UNCHANGED <<delivered, finished, failed, closed>>

(* A chunk that is not UTF-8 by itself, as when it ends inside a character,*)
(* is lost; the stream goes on.                                            *)
RejectChunk ==
  /\ Polls /\ ~closed
  /\ failed' = TRUE
  /\ UNCHANGED <<decoder, pending, delivered, finished, closed>>

(* The transport, the limit or the token ends the body with an error.      *)
BodyFails ==
  /\ Polls /\ ~closed
  /\ failed' = TRUE /\ closed' = TRUE
  /\ UNCHANGED <<decoder, pending, delivered, finished>>

(* Faulty variant: a tail without a blank line is dropped.                 *)
FinishTailless == <<>>

(* SseDecoder::finish: a CR that still waits is an LF; what is left is a   *)
(* block of its own, not trimmed.                                          *)
Finish == ParseBlock(buffer \o IF pendingCr THEN <<"lf">> ELSE <<>>)

(* The body has ended, by itself or after an error.                        *)
BodyEnds ==
  /\ Polls
  /\ finished' = TRUE
  /\ pending' = Finish
  /\ buffer' = <<>> /\ pendingCr' = FALSE
  /\ UNCHANGED <<text, delivered, failed, closed>>

(* A poll after the end is answered with the end.                          *)
StaysEnded == finished /\ pending = <<>> /\ UNCHANGED vars

Next == TakeEvent \/ PushChunk \/ RejectChunk \/ BodyFails \/ BodyEnds \/ StaysEnded

Spec == Init /\ [][Next]_vars

-----------------------------------------------------------------------------
Emitted == delivered \o pending

Events == [data : Seq(Seq(Tokens)), event : Seq(Seq(Tokens)), id : Seq(Seq(Tokens))]

(* The variables have their types; the buffer holds no CR and no complete  *)
(* block.                                                                  *)
TypeOK ==
  /\ text \in Seq(Tokens) /\ Len(text) <= MaxText
  /\ buffer \in Seq(Tokens \ {"cr"}) /\ BlankLine(buffer) = 0
  /\ pendingCr \in BOOLEAN /\ finished \in BOOLEAN
  /\ failed \in BOOLEAN /\ closed \in BOOLEAN
  /\ pending \in Seq(Events) /\ delivered \in Seq(Events)

(* However the body is cut into chunks, also between a CR and its LF, the  *)
(* events are those of the whole text, in its order.                       *)
EventsInOrder == ~failed /\ ~finished => IsPrefix(Emitted, ParseSseEvents(text))

(* No event waits for the next one: all but the last block, which may be   *)
(* unfinished, are out as soon as their bytes are in.                      *)
EventsOnTime == ~failed => Len(Emitted) + 1 >= Len(ParseSseEvents(text))

(* At its end the stream has given the events read_sse_events gives.  Only *)
(* a last block that begins or ends with a blank and whose blank line is   *)
(* missing, or ends in the body's last CR, may be read differently: the    *)
(* whole-text parser trims it, finish does not.                            *)
BlankAtAnEnd(block) ==
  LET inner == Trim(block, {"lf"})
  IN  inner # <<>> /\ (inner[1] = "blank" \/ Last(inner) = "blank")
StreamEqualsBuffer ==
  ~failed /\ finished =>
    LET ended == Drain(Normalized(IF EndsInCr(text) THEN Front(text) ELSE text))
    IN  IF BlankAtAnEnd(ended.rest)
        THEN IsPrefix(ended.events, Emitted) /\ Len(Emitted) <= Len(ParseSseEvents(text))
        ELSE Emitted = ParseSseEvents(text)

=============================================================================
