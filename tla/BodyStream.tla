------------------------------ MODULE BodyStream ------------------------------
(***************************************************************************)
(* The bytes of one response body on their way from the transport to who   *)
(* reads them (streaming.rs): the prefix that is peeked for a retry        *)
(* predicate or an error hook and put back in front, the wrappers that     *)
(* enforce max_response_bytes and the cancellation token, and the readers. *)
(*                                                                         *)
(* A chunk is the stretch of the body it holds: the bytes after position   *)
(* `from` up to position `to`.  One action is one poll that is ready.      *)
(***************************************************************************)
EXTENDS Integers, Sequences

CONSTANT Bodies   (* the bodies under study, records of BodyType           *)

BodyType ==
  [ size     : Nat,       (* bytes the server means to send                *)
    use      : {"caller",   (* a StreamingResponse polled by the caller    *)
                "collect",  (* StreamingResponse::collect                  *)
                "file",     (* StreamingResponse::stream_to_file           *)
                "drain",    (* drain_body_for_retry inside the loop        *)
                "buffered"},(* fetch_buffered_response under a cap         *)
    peeks    : BOOLEAN,   (* peek_stream_prefix comes first                *)
    peek     : Nat,       (* stream_peek_limit                             *)
    limited  : BOOLEAN,   (* max_response_bytes is set ...                 *)
    max      : Nat,       (* ... to this                                   *)
    capped   : BOOLEAN,   (* stream_to_file has a max_bytes of its own ... *)
    cap      : Nat,       (* ... which is this                             *)
    token    : BOOLEAN ]  (* the request has a cancellation token          *)

(* A buffered body is read here only under a cap, and never peeked.        *)
ASSUME BodiesAssumption ==
  /\ Bodies \subseteq BodyType
  /\ \A b \in Bodies : b.use = "buffered" => b.limited /\ ~b.peeks

VARIABLES
  body,       (* the body; never changes                                   *)
  phase,      (* "peeking", "reading" or "over"                            *)
  arrived,    (* bytes the transport has yielded                           *)
  closed,     (* the transport stream has failed or ended                  *)
  buf,        (* bytes in peek_stream_prefix's buffer                      *)
  front,      (* chunks prepended to the transport stream                  *)
  read,       (* MaxBytesStream.read                                       *)
  limitHit,   (* MaxBytesStream.limit_hit                                  *)
  cancelled,  (* the token is triggered                                    *)
  out,        (* bytes the reader has                                      *)
  intact,     (* history: they are the first `out` bytes of the body       *)
  errors,     (* history: errors the reader was given                      *)
  result      (* "none" until the reader stops, then how it stopped        *)

source  == <<arrived, closed>>
limiter == <<read, limitHit>>
reader  == <<out, intact, errors, result>>
vars == <<body, phase, source, buf, front, limiter, cancelled, reader>>

(* What stands between the transport and the reader: wrap_stream_body, for *)
(* a buffered request wrap_cancellation only, for a drain nothing.         *)
Limited == body.limited /\ body.use \in {"caller", "collect", "file"}

(* Faulty variant: the capped body of a buffered request is not wrapped.   *)
CancelledStreamsOnly ==
  body.token /\ cancelled /\ body.use \in {"caller", "collect", "file"}

Cancelled == body.token /\ cancelled /\ body.use # "drain"

(* The limit of the reader itself (accumulate_stream, stream_to_file).     *)
HasReaderLimit ==
  \/ body.use \in {"drain", "buffered"}
  \/ body.use = "file" /\ body.capped
  \/ body.use \in {"collect", "file"} /\ body.limited

ReaderLimit ==
  IF body.use = "drain" THEN body.peek
  ELSE IF body.use = "file" /\ body.capped THEN body.cap
  ELSE body.max

Init ==
  /\ body \in Bodies
  /\ phase = IF body.peeks THEN "peeking" ELSE "reading"
  /\ arrived = 0 /\ closed = FALSE
  /\ buf = 0 /\ front = <<>>
  /\ read = 0 /\ limitHit = FALSE
  /\ cancelled = FALSE
  /\ out = 0 /\ intact = TRUE /\ errors = {} /\ result = "none"

-----------------------------------------------------------------------------
(* The transport: it yields the body in chunks of any length, may break at *)
(* any moment, and ends after the last byte.                               *)
Chunk(from, to) == [from |-> from, to |-> to]

(* Faulty variant: the split is computed from the wrong end.               *)
LengthReversed(chunk) == chunk.from - chunk.to

Length(chunk) == chunk.to - chunk.from

Yields(chunk) ==
  /\ ~closed
  /\ \E to \in (arrived + 1)..body.size : chunk = Chunk(arrived, to)

Ends == closed \/ arrived = body.size

-----------------------------------------------------------------------------
(* peek_stream_prefix and body_stream_prepend.  The peek reads the bare    *)
(* transport stream.                                                       *)

(* Faulty variant: the rest of a chunk that is split is not put back.      *)
HandOverForgettingRest(peeked, rest) ==
  /\ phase' = "reading"
  /\ front' = IF peeked > 0 THEN <<Chunk(0, peeked)>> ELSE <<>>

(* The peeked bytes go back in front of what was read too far.             *)
HandOver(peeked, rest) ==
  /\ phase' = "reading"
  /\ front' = (IF peeked > 0 THEN <<Chunk(0, peeked)>> ELSE <<>>) \o rest

(* Faulty variant: the chunk that crosses the limit is buffered whole.     *)
PeekChunkWhole ==
  /\ phase = "peeking"
  /\ buf < body.peek
  /\ \E chunk \in {Chunk(arrived, to) : to \in (arrived + 1)..body.size} :
       /\ Yields(chunk)
       /\ arrived' = chunk.to
       /\ buf' = buf + Length(chunk)
       /\ UNCHANGED <<phase, front>>
  /\ UNCHANGED <<body, closed, limiter, cancelled, reader>>

(* A chunk that fits is buffered; one that does not is split.              *)
PeekChunk ==
  /\ phase = "peeking"
  /\ buf < body.peek
  /\ \E chunk \in {Chunk(arrived, to) : to \in (arrived + 1)..body.size} :
       /\ Yields(chunk)
       /\ arrived' = chunk.to
       /\ IF Length(chunk) <= body.peek - buf
          THEN /\ buf' = buf + Length(chunk)
               /\ UNCHANGED <<phase, front>>
          ELSE /\ buf' = body.peek
               /\ HandOver(body.peek, <<Chunk(body.peek, chunk.to)>>)
  /\ UNCHANGED <<body, closed, limiter, cancelled, reader>>

(* The buffer is full, or the body has ended.                              *)
PeekStops ==
  /\ phase = "peeking"
  /\ buf >= body.peek \/ Ends
  /\ closed' = (closed \/ buf < body.peek)
  /\ HandOver(buf, <<>>)
  /\ UNCHANGED <<body, arrived, buf, limiter, cancelled, reader>>

(* The `?` inside peek_stream_prefix: the buffer is lost with the body.    *)
PeekFails ==
  /\ phase = "peeking"
  /\ buf < body.peek /\ ~closed
  /\ closed' = TRUE
  /\ phase' = "over" /\ result' = "Transport" /\ errors' = errors \cup {"Transport"}
  /\ UNCHANGED <<body, arrived, buf, front, limiter, cancelled, out, intact>>

-----------------------------------------------------------------------------
(* The readers.                                                            *)

(* A caller that polls sees an error and may poll again; the other readers *)
(* return it.                                                              *)
Receive(err) ==
  /\ errors' = errors \cup {err}
  /\ IF body.use = "caller"
     THEN UNCHANGED <<phase, result>>
     ELSE phase' = "over" /\ result' = err
  /\ UNCHANGED <<out, intact>>

(* Faulty variant: the limit is compared before the chunk is counted.      *)
KeepLate(chunk) ==
  IF HasReaderLimit /\ out > ReaderLimit
  THEN Receive("BodyTooLarge")
  ELSE /\ out' = out + Length(chunk)
       /\ intact' = (intact /\ chunk.from = out)
       /\ UNCHANGED <<phase, errors, result>>

(* accumulate_stream and stream_to_file look at their limit before they    *)
(* take the chunk.                                                         *)
Keep(chunk) ==
  IF HasReaderLimit /\ out + Length(chunk) > ReaderLimit
  THEN Receive("BodyTooLarge")
  ELSE /\ out' = out + Length(chunk)
       /\ intact' = (intact /\ chunk.from = out)
       /\ UNCHANGED <<phase, errors, result>>

(* CancelBodyStream::poll_next asks the token before the stream.           *)
ReadCancelled ==
  /\ phase = "reading"
  /\ Cancelled
  /\ Receive("Cancelled")
  /\ UNCHANGED <<body, source, buf, front, limiter, cancelled>>

(* MaxBytesStream is silent once it has reported its limit.                *)
ReadPastLimit ==
  /\ phase = "reading"
  /\ ~Cancelled
  /\ limitHit
  /\ phase' = "over" /\ result' = "Ok"
  /\ UNCHANGED <<body, source, buf, front, limiter, cancelled, out, intact, errors>>

(* Faulty variant: the limiter reports its limit and carries on.           *)
PassOn(chunk) ==
  IF Limited /\ read + Length(chunk) > body.max
  THEN Receive("BodyTooLarge") /\ UNCHANGED limiter
  ELSE /\ read' = (IF Limited THEN read + Length(chunk) ELSE read)
       /\ Keep(chunk)
       /\ UNCHANGED limitHit

(* MaxBytesStream drops the chunk that crosses its limit.                  *)
Pass(chunk) ==
  IF Limited /\ read + Length(chunk) > body.max
  THEN limitHit' = TRUE /\ Receive("BodyTooLarge") /\ UNCHANGED read
  ELSE /\ read' = (IF Limited THEN read + Length(chunk) ELSE read)
       /\ Keep(chunk)
       /\ UNCHANGED limitHit

(* Faulty variant: the token is not asked while chunks are at hand.        *)
ReadFrontUncancelled ==
  /\ phase = "reading" /\ ~limitHit
  /\ front # <<>>
  /\ Pass(Head(front))
  /\ front' = Tail(front)
  /\ UNCHANGED <<body, source, buf, cancelled>>

ReadFront ==
  /\ phase = "reading" /\ ~Cancelled /\ ~limitHit
  /\ front # <<>>
  /\ Pass(Head(front))
  /\ front' = Tail(front)
  /\ UNCHANGED <<body, source, buf, cancelled>>

ReadChunk ==
  /\ phase = "reading" /\ ~Cancelled /\ ~limitHit
  /\ front = <<>>
  /\ \E chunk \in {Chunk(arrived, to) : to \in (arrived + 1)..body.size} :
       /\ Yields(chunk)
       /\ arrived' = chunk.to
       /\ Pass(chunk)
  /\ UNCHANGED <<body, closed, buf, front, cancelled>>

ReadBreaks ==
  /\ phase = "reading" /\ ~Cancelled /\ ~limitHit
  /\ front = <<>> /\ ~closed
  /\ closed' = TRUE
  /\ Receive("Transport")
  /\ UNCHANGED <<body, arrived, buf, front, limiter, cancelled>>

ReadEnds ==
  /\ phase = "reading" /\ ~Cancelled /\ ~limitHit
  /\ front = <<>> /\ Ends
  /\ closed' = TRUE
  /\ phase' = "over" /\ result' = "Ok"
  /\ UNCHANGED <<body, arrived, buf, front, limiter, cancelled, out, intact, errors>>

-----------------------------------------------------------------------------
Cancel ==
  /\ body.token /\ ~cancelled
  /\ phase # "over"
  /\ cancelled' = TRUE
  /\ UNCHANGED <<body, phase, source, buf, front, limiter, reader>>

Over == phase = "over" /\ UNCHANGED vars

(* What is ready without the transport's help.                             *)
ReadAtHand == ReadCancelled \/ ReadPastLimit \/ ReadFront \/ (closed /\ ReadEnds)

Next ==
  \/ PeekChunk \/ PeekStops \/ PeekFails
  \/ ReadAtHand \/ ReadChunk \/ ReadBreaks \/ ReadEnds
  \/ Cancel \/ Over

Spec == Init /\ [][Next]_vars

(* A reader that was asked to read the body polls it until it is done.     *)
Fairness == WF_vars(ReadAtHand)

FairSpec == Spec /\ Fairness

-----------------------------------------------------------------------------
Errors == {"Transport", "Cancelled", "BodyTooLarge"}

(* The variables have their types.                                         *)
TypeOK ==
  /\ body \in Bodies
  /\ phase \in {"peeking", "reading", "over"}
  /\ arrived \in 0..body.size /\ closed \in BOOLEAN
  /\ buf \in Nat
  /\ front \in Seq([from : Nat, to : Nat])
  /\ read \in Nat /\ limitHit \in BOOLEAN /\ cancelled \in BOOLEAN
  /\ out \in Nat /\ intact \in BOOLEAN
  /\ errors \subseteq Errors
  /\ result \in {"none", "Ok"} \cup Errors

(* The reader's bytes are the first bytes of the body in their order,      *)
(* whatever was peeked, split and put back, and wherever it stopped.       *)
BytesInOrder == intact /\ out <= arrived

(* A body that ends without an error has been read to its last byte.       *)
NothingMissing == result = "Ok" /\ errors = {} => out = body.size

(* No reader gets more than any limit that applies to it, and it is told   *)
(* of a limit only when the body is really longer.                         *)
LimitExact ==
  /\ Limited => out <= body.max
  /\ HasReaderLimit => out <= ReaderLimit
  /\ "BodyTooLarge" \in errors =>
       \/ Limited /\ body.size > body.max
       \/ HasReaderLimit /\ body.size > ReaderLimit

(* The peek never holds more than its limit in memory.                     *)
PeekBounded == buf <= body.peek

(* A reader gets nothing after the limit was reported or the token was     *)
(* triggered, even one that goes on polling, and even what was peeked      *)
(* before and waits in memory.                                             *)
SilentAfterStop ==
  [][(\/ "BodyTooLarge" \in errors
      \/ body.token /\ cancelled /\ body.use # "drain") => out' = out]_vars

(* A triggered token ends a collect, a file download and the reading of a  *)
(* capped body without the server's help.                                  *)
CancelEndsRead ==
  (/\ phase = "reading"
   /\ body.token /\ cancelled
   /\ body.use \in {"collect", "file", "buffered"}) ~> phase = "over"

=============================================================================
