--------------------------- MODULE BodyStreamProofs ---------------------------
(***************************************************************************)
(* Proofs about BodyStream, for bodies, chunks and limits of every length. *)
(***************************************************************************)
EXTENDS BodyStream, TLAPS

Chunks == [from : Nat, to : Nat]

(* The chunks of s cover the bytes after position a up to position b.      *)
Covers(s, a, b) ==
  /\ s \in Seq(Chunks)
  /\ s = <<>> => a = b
  /\ s # <<>> => s[1].from = a /\ s[Len(s)].to = b
  /\ \A i \in 1..Len(s) : s[i].from < s[i].to /\ s[i].to <= b
  /\ \A i \in 1..(Len(s) - 1) : s[i].to = s[i + 1].from

(* What the peek has buffered is what has arrived; the reader has nothing. *)
PeekHolds ==
  phase = "peeking" =>
    /\ front = <<>> /\ buf = arrived /\ out = 0 /\ read = 0
    /\ errors = {} /\ ~limitHit /\ ~closed

(* The chunks in front join what the reader has and what has arrived.      *)
FrontJoins ==
  phase = "reading" /\ ~limitHit => Covers(front, out, arrived)

(* The limiter has counted what the reader has.                            *)
LimiterCounts ==
  Limited => /\ out <= read /\ read <= body.max
             /\ phase # "over" => read = out

(* Every stop leaves its mark: a limit, a broken transport, a result.      *)
StopsMarked ==
  /\ limitHit => "BodyTooLarge" \in errors
  /\ "BodyTooLarge" \in errors => limitHit \/ phase = "over"
  /\ closed => "Transport" \in errors \/ arrived = body.size
  /\ phase # "over" => result = "none"

IInv ==
  /\ TypeOK /\ PeekHolds /\ FrontJoins /\ LimiterCounts /\ StopsMarked
  /\ BytesInOrder /\ NothingMissing /\ LimitExact /\ PeekBounded

-----------------------------------------------------------------------------
(* A body under study has the fields of its type.                          *)
LEMMA BodyFacts ==
  ASSUME TypeOK
  PROVE  /\ body.size \in Nat /\ body.peek \in Nat /\ body.max \in Nat
         /\ body.cap \in Nat /\ body.limited \in BOOLEAN
         /\ body.use \in {"caller", "collect", "file", "drain", "buffered"}
BY BodiesAssumption DEF TypeOK, BodyType

(* A sequence with a length is not the empty one.                          *)
LEMMA NotEmpty ==
  ASSUME NEW s, Len(s) = 2
  PROVE  s # <<>>
<1> SUFFICES ASSUME s = <<>> PROVE FALSE
  OBVIOUS
<1>1. Len(<<>>) = 0
  OBVIOUS
<1>2. Len(s) = Len(<<>>)
  OBVIOUS
<1> QED
  BY <1>1, <1>2

(* Sequences of up to two chunks that cover a stretch.                     *)
LEMMA CoversNone ==
  ASSUME NEW a \in Nat
  PROVE  Covers(<<>>, a, a)
BY DEF Covers

LEMMA CoversOne ==
  ASSUME NEW a \in Nat, NEW b \in Nat, a < b
  PROVE  Covers(<<Chunk(a, b)>>, a, b)
BY DEF Covers, Chunk, Chunks

LEMMA CoversTwo ==
  ASSUME NEW a \in Nat, NEW b \in Nat, NEW c \in Nat, a < b, b < c,
         NEW s \in Seq(Chunks), Len(s) = 2, s[1] = Chunk(a, b), s[2] = Chunk(b, c)
  PROVE  Covers(s, a, c)
<1>1. s[1].from = a /\ s[1].to = b /\ s[2].from = b /\ s[2].to = c
  BY DEF Chunk
<1>4. s # <<>>
  BY NotEmpty
<1>2. \A i \in 1..Len(s) : i = 1 \/ i = 2
  OBVIOUS
<1>3. \A i \in 1..(Len(s) - 1) : i = 1
  OBVIOUS
<1> QED
  BY <1>1, <1>2, <1>3, <1>4 DEF Covers

(* Reading the first of some chunks leaves the chunks after it.            *)
LEMMA CoversTail ==
  ASSUME NEW a \in Nat, NEW b \in Nat, NEW s, Covers(s, a, b), s # <<>>
  PROVE  /\ Head(s).from = a /\ Head(s).to \in Nat
         /\ a < Head(s).to /\ Head(s).to <= b
         /\ Covers(Tail(s), Head(s).to, b)
<1>1. /\ s \in Seq(Chunks) /\ Len(s) \in Nat /\ Len(s) >= 1 /\ Head(s) = s[1]
      /\ s[1] \in Chunks
  BY DEF Covers
<1>2. /\ s[1].from = a /\ s[1].to \in Nat /\ a < s[1].to /\ s[1].to <= b
      /\ s[Len(s)].to = b
  BY <1>1 DEF Covers, Chunks
<1>3. PICK t : t = Tail(s)
  OBVIOUS
<1>4. /\ t \in Seq(Chunks) /\ Len(t) = Len(s) - 1
      /\ \A i \in 1..(Len(s) - 1) : t[i] = s[i + 1]
  BY <1>1, <1>3
<1>5. /\ \A i \in 1..Len(s) : s[i].from < s[i].to /\ s[i].to <= b
      /\ \A i \in 1..(Len(s) - 1) : s[i].to = s[i + 1].from
  BY DEF Covers
<1>6. \A i \in 1..Len(t) : t[i].from < t[i].to /\ t[i].to <= b
  BY <1>1, <1>4, <1>5
<1>7. \A i \in 1..(Len(t) - 1) : t[i].to = t[i + 1].from
  <2> SUFFICES ASSUME NEW i \in 1..(Len(t) - 1) PROVE t[i].to = t[i + 1].from
    OBVIOUS
  <2>1. i + 1 \in 1..(Len(s) - 1) /\ i \in 1..(Len(s) - 1)
    BY <1>1, <1>4
  <2>2. t[i] = s[i + 1] /\ t[i + 1] = s[(i + 1) + 1]
    BY <1>4, <2>1
  <2>3. s[i + 1].to = s[(i + 1) + 1].from
    BY <1>5, <2>1
  <2> QED
    BY <2>2, <2>3
<1>8. t = <<>> => s[1].to = b
  <2> SUFFICES ASSUME t = <<>> PROVE s[1].to = b
    OBVIOUS
  <2>1. Len(s) = 1
    BY <1>1, <1>4
  <2> QED
    BY <1>2, <2>1
<1>9. t # <<>> => t[1].from = s[1].to /\ t[Len(t)].to = b
  <2> SUFFICES ASSUME t # <<>> PROVE t[1].from = s[1].to /\ t[Len(t)].to = b
    OBVIOUS
  <2>1. Len(t) >= 1 /\ Len(s) \in Nat
    BY <1>1, <1>4
  <2>2. 1 \in 1..(Len(s) - 1) /\ Len(t) \in 1..(Len(s) - 1) /\ Len(t) + 1 = Len(s)
    BY <1>4, <2>1
  <2>3. t[1] = s[1 + 1] /\ t[Len(t)] = s[Len(t) + 1]
    BY <1>4, <2>2
  <2>4. s[1].to = s[1 + 1].from
    BY <1>5, <2>2
  <2> QED
    BY <1>2, <2>2, <2>3, <2>4
<1>10. Covers(t, s[1].to, b)
  BY <1>4, <1>6, <1>7, <1>8, <1>9 DEF Covers
<1> QED
  BY <1>1, <1>2, <1>3, <1>10

-----------------------------------------------------------------------------
(* The limits are those of the body, which never changes.                  *)
LEMMA LimitsFixed ==
  ASSUME body' = body
  PROVE  /\ Limited' = Limited /\ HasReaderLimit' = HasReaderLimit
         /\ ReaderLimit' = ReaderLimit
BY DEF Limited, HasReaderLimit, ReaderLimit

(* The caller has no limit of its own; a limit is a number of bytes.       *)
LEMMA LimitFacts ==
  ASSUME TypeOK
  PROVE  /\ ReaderLimit \in Nat /\ Limited \in BOOLEAN /\ HasReaderLimit \in BOOLEAN
         /\ body.use = "caller" => ~HasReaderLimit
BY BodyFacts DEF Limited, HasReaderLimit, ReaderLimit

(* What is true of the reader and the limiter between polls.               *)
ReaderOK ==
  /\ out \in Nat /\ read \in Nat /\ limitHit \in BOOLEAN /\ intact \in BOOLEAN
  /\ errors \subseteq Errors /\ result \in {"none", "Ok"} \cup Errors
  /\ phase \in {"reading", "over"}
  /\ intact /\ out <= arrived
  /\ LimiterCounts /\ LimitExact
  /\ limitHit => "BodyTooLarge" \in errors
  /\ "BodyTooLarge" \in errors => limitHit \/ phase = "over"
  /\ closed => "Transport" \in errors \/ arrived = body.size
  /\ phase # "over" => result = "none"
  /\ NothingMissing

(* An error given to the reader: it keeps what it has, and stops unless it *)
(* is a caller that polls.                                                 *)
LEMMA ReceiveStep ==
  ASSUME IInv, phase = "reading", NEW err \in Errors, Receive(err),
         body' = body, arrived' \in Nat, arrived <= arrived',
         read' = read, limitHit' \in BOOLEAN, closed' \in BOOLEAN,
         closed' => closed \/ err = "Transport",
         closed => arrived' = arrived,
         limitHit => limitHit',
         limitHit' => limitHit \/ err = "BodyTooLarge",
         err = "BodyTooLarge" => limitHit' \/ body.use # "caller",
         err = "BodyTooLarge" => \/ Limited /\ body.size > body.max
                                 \/ HasReaderLimit /\ body.size > ReaderLimit
  PROVE  ReaderOK'
<1>1. /\ errors' = errors \cup {err} /\ out' = out /\ intact' = intact
      /\ body.use = "caller" => phase' = phase /\ result' = result
      /\ body.use # "caller" => phase' = "over" /\ result' = err
  BY DEF Receive
<1>2. out' \in Nat /\ read' \in Nat /\ intact' \in BOOLEAN /\ errors' \subseteq Errors
  BY <1>1 DEF IInv, TypeOK
<1>3. /\ result' \in {"none", "Ok"} \cup Errors /\ phase' \in {"reading", "over"}
      /\ phase' # "over" => result' = "none"
  BY <1>1 DEF IInv, TypeOK, StopsMarked
<1>4. intact' /\ out' <= arrived'
  BY <1>1 DEF IInv, TypeOK, BytesInOrder
<1>5. LimiterCounts'
  BY <1>1, <1>3, LimitsFixed DEF IInv, LimiterCounts
<1>6. LimitExact'
  BY <1>1, LimitsFixed DEF IInv, LimitExact
<1>7. /\ limitHit' => "BodyTooLarge" \in errors'
      /\ "BodyTooLarge" \in errors' => limitHit' \/ phase' = "over"
      /\ closed' => "Transport" \in errors' \/ arrived' = body'.size
  BY <1>1 DEF IInv, StopsMarked
<1>8. NothingMissing'
  BY <1>1 DEF NothingMissing
<1> QED
  BY <1>2, <1>3, <1>4, <1>5, <1>6, <1>7, <1>8 DEF ReaderOK

(* The next chunk reaches the reader whole, or a limit stops it.           *)
LEMMA PassStep ==
  ASSUME IInv, phase = "reading", ~limitHit, NEW chunk \in Chunks, Pass(chunk),
         chunk.from = out, out < chunk.to, chunk.to <= arrived',
         arrived' \in Nat, arrived' <= body.size, arrived <= arrived',
         body' = body, closed' = closed, closed => arrived' = arrived
  PROVE  /\ ReaderOK'
         /\ phase' = "reading" /\ ~limitHit' => out' = chunk.to
<1>1. /\ out \in Nat /\ read \in Nat /\ body.size \in Nat /\ body.max \in Nat
      /\ ReaderLimit \in Nat /\ chunk.to \in Nat /\ chunk.from \in Nat
      /\ arrived \in Nat
  BY BodyFacts, LimitFacts DEF IInv, TypeOK, Chunks
<1>2. /\ Length(chunk) \in Nat /\ out + Length(chunk) = chunk.to
      /\ chunk.to <= body.size
  BY <1>1 DEF Length
<1>3. closed' \in BOOLEAN /\ limitHit \in BOOLEAN
  BY DEF IInv, TypeOK
<1>4. CASE Limited /\ read + Length(chunk) > body.max
  <2>1. limitHit' = TRUE /\ Receive("BodyTooLarge") /\ read' = read
    BY <1>4 DEF Pass
  <2>2. read = out
    BY <1>4 DEF IInv, LimiterCounts
  <2>3. body.size > body.max
    BY <1>1, <1>2, <1>4, <2>2
  <2>4. ReaderOK'
    BY <1>3, <1>4, <2>1, <2>3, ReceiveStep DEF Errors
  <2> QED
    BY <2>1, <2>4
<1>5. CASE ~(Limited /\ read + Length(chunk) > body.max)
  <2>1. /\ read' = (IF Limited THEN read + Length(chunk) ELSE read)
        /\ Keep(chunk) /\ limitHit' = limitHit
    BY <1>5 DEF Pass
  <2>2. /\ Limited => read = out /\ read' = chunk.to /\ read' <= body.max
        /\ ~Limited => read' = read
        /\ read' \in Nat
    BY <1>1, <1>2, <1>5, <2>1 DEF IInv, LimiterCounts
  <2>3. CASE HasReaderLimit /\ out + Length(chunk) > ReaderLimit
    <3>1. Receive("BodyTooLarge") /\ body.size > ReaderLimit
      BY <1>1, <1>2, <2>1, <2>3 DEF Keep
    <3>2. /\ body.use # "caller"
          /\ errors' = errors \cup {"BodyTooLarge"}
          /\ out' = out /\ intact' = intact
          /\ phase' = "over" /\ result' = "BodyTooLarge"
      BY <2>3, <3>1, LimitFacts DEF Receive, IInv
    <3>3. /\ out' \in Nat /\ errors' \subseteq Errors /\ intact'
          /\ intact' \in BOOLEAN /\ result' \in {"none", "Ok"} \cup Errors
      BY <1>1, <3>2 DEF IInv, TypeOK, BytesInOrder, Errors
    <3>4. out' <= arrived'
      BY <1>1, <3>2 DEF IInv, BytesInOrder
    <3>5. LimiterCounts'
      <4>1. Limited' => Limited
        BY LimitsFixed
      <4>2. out <= chunk.to
        BY <1>1
      <4>3. Limited => out' <= read' /\ read' <= body'.max
        BY <1>1, <2>2, <3>2, <4>2
      <4> QED
        BY <3>2, <4>1, <4>3 DEF LimiterCounts
    <3>6. LimitExact'
      BY <2>3, <3>1, <3>2, LimitsFixed DEF IInv, LimitExact
    <3>7. /\ limitHit' => "BodyTooLarge" \in errors'
          /\ closed' => "Transport" \in errors' \/ arrived' = body'.size
      BY <2>1, <3>2 DEF IInv, StopsMarked
    <3>8. NothingMissing'
      BY <3>2 DEF NothingMissing
    <3> QED
      BY <1>3, <2>1, <2>2, <3>2, <3>3, <3>4, <3>5, <3>6, <3>7, <3>8 DEF ReaderOK
  <2>4. CASE ~(HasReaderLimit /\ out + Length(chunk) > ReaderLimit)
    <3>1. /\ out' = out + Length(chunk)
          /\ intact' = (intact /\ chunk.from = out)
          /\ phase' = phase /\ errors' = errors /\ result' = result
      BY <2>1, <2>4 DEF Keep
    <3>2. out' = chunk.to /\ out' \in Nat /\ out' <= arrived'
      BY <1>1, <1>2, <3>1
    <3>3. intact' /\ intact' \in BOOLEAN
      BY <3>1 DEF IInv, BytesInOrder
    <3>4. LimiterCounts'
      <4>1. Limited' => Limited
        BY LimitsFixed
      <4>2. Limited => out' <= read' /\ read' <= body'.max /\ read' = out'
        BY <1>1, <2>2, <3>2
      <4> QED
        BY <4>1, <4>2 DEF LimiterCounts
    <3>5. LimitExact'
      <4>1. Limited => out' <= body.max
        BY <1>1, <1>2, <2>2, <3>1
      <4>2. HasReaderLimit => out' <= ReaderLimit
        BY <1>1, <1>2, <2>4, <3>1
      <4> QED
        BY <3>1, <4>1, <4>2, LimitsFixed DEF IInv, LimitExact
    <3>6. /\ errors' \subseteq Errors /\ result' \in {"none", "Ok"} \cup Errors
          /\ phase' = "reading"
          /\ limitHit' => "BodyTooLarge" \in errors'
          /\ "BodyTooLarge" \in errors' => limitHit' \/ phase' = "over"
          /\ closed' => "Transport" \in errors' \/ arrived' = body'.size
          /\ result' = "none"
      BY <2>1, <3>1 DEF IInv, TypeOK, StopsMarked
    <3>7. NothingMissing'
      BY <3>6 DEF NothingMissing
    <3> QED
      BY <1>3, <2>1, <2>2, <3>2, <3>3, <3>4, <3>5, <3>6, <3>7 DEF ReaderOK
  <2> QED
    BY <2>3, <2>4
<1> QED
  BY <1>4, <1>5

(* After a poll of the reader the invariant holds again.                   *)
LEMMA Reassembled ==
  ASSUME IInv, ReaderOK', body' = body, buf' = buf,
         arrived' \in 0..body.size, closed' \in BOOLEAN, cancelled' \in BOOLEAN,
         front' \in Seq(Chunks),
         phase' = "reading" /\ ~limitHit' => Covers(front', out', arrived')
  PROVE  IInv'
<1>1. TypeOK'
  BY DEF IInv, TypeOK, ReaderOK, Chunks
<1>2. PeekHolds' /\ FrontJoins'
  BY DEF PeekHolds, FrontJoins, ReaderOK
<1>3. LimiterCounts' /\ StopsMarked' /\ BytesInOrder' /\ NothingMissing' /\ LimitExact'
  BY DEF ReaderOK, StopsMarked, BytesInOrder
<1>4. PeekBounded'
  BY DEF IInv, PeekBounded
<1> QED
  BY <1>1, <1>2, <1>3, <1>4 DEF IInv

LEMMA InvariantInit == Init => IInv
<1> SUFFICES ASSUME Init PROVE IInv
  OBVIOUS
<1>1. body \in BodyType /\ body.size \in Nat /\ body.max \in Nat /\ body.peek \in Nat
  BY BodiesAssumption DEF Init, BodyType
<1>2. TypeOK
  <2>1. phase \in {"peeking", "reading", "over"} /\ arrived \in 0..body.size
    BY <1>1 DEF Init
  <2>2. front \in Seq([from : Nat, to : Nat])
    BY DEF Init
  <2> QED
    BY <2>1, <2>2 DEF Init, TypeOK
<1>3. PeekHolds /\ LimiterCounts /\ StopsMarked /\ BytesInOrder /\ NothingMissing
  BY <1>1 DEF Init, PeekHolds, LimiterCounts, StopsMarked, BytesInOrder, NothingMissing
<1>4. FrontJoins
  <2>1. Covers(<<>>, 0, 0)
    BY CoversNone
  <2> QED
    BY <2>1 DEF Init, FrontJoins
<1>5. LimitExact /\ PeekBounded
  BY <1>1, <1>2, LimitFacts DEF Init, LimitExact, PeekBounded
<1> QED
  BY <1>2, <1>3, <1>4, <1>5 DEF IInv

(* What the peek hands over covers what has arrived.                       *)
LEMMA HandOverNothing ==
  ASSUME NEW p \in Nat, HandOver(p, <<>>)
  PROVE  Covers(front', 0, p) /\ phase' = "reading"
<1>1. CASE p > 0
  <2>1. front' = <<Chunk(0, p)>>
    BY <1>1 DEF HandOver
  <2> QED
    BY <1>1, <2>1, CoversOne DEF HandOver
<1>2. CASE p = 0
  <2>1. front' = <<>>
    BY <1>2 DEF HandOver
  <2> QED
    BY <1>2, <2>1, CoversNone DEF HandOver
<1> QED
  BY <1>1, <1>2

LEMMA HandOverRest ==
  ASSUME NEW p \in Nat, NEW to \in Nat, 0 < p, p < to,
         HandOver(p, <<Chunk(p, to)>>)
  PROVE  Covers(front', 0, to) /\ phase' = "reading"
<1>1. front' = <<Chunk(0, p)>> \o <<Chunk(p, to)>>
  BY DEF HandOver
<1>2. PICK c, d : c = Chunk(0, p) /\ d = Chunk(p, to)
  OBVIOUS
<1>3. c \in Chunks /\ d \in Chunks
  BY <1>2 DEF Chunk, Chunks
<1>4. front' = <<c>> \o <<d>>
  BY <1>1, <1>2
<1>5. PICK s : s = <<c>> \o <<d>>
  OBVIOUS
<1>6. s \in Seq(Chunks) /\ Len(s) = 2 /\ s[1] = c /\ s[2] = d
  BY <1>3, <1>5
<1>7. Covers(s, 0, to)
  BY <1>2, <1>6, CoversTwo
<1> QED
  BY <1>4, <1>5, <1>7 DEF HandOver

(* While it peeks the reader has nothing and the limiter has counted none. *)
LEMMA PeekStep ==
  ASSUME IInv, phase = "peeking", body' = body,
         arrived' \in 0..body.size, closed' \in BOOLEAN, cancelled' \in BOOLEAN,
         closed' => arrived' = body.size,
         buf' \in Nat, buf' <= body.peek, front' \in Seq(Chunks),
         UNCHANGED <<limiter, reader>>,
         \/ phase' = "peeking" /\ front' = <<>> /\ buf' = arrived' /\ ~closed'
         \/ phase' = "reading" /\ Covers(front', 0, arrived')
  PROVE  IInv'
<1>1. /\ out' = 0 /\ read' = 0 /\ errors' = {} /\ ~limitHit'
      /\ result' = "none" /\ intact'
  BY DEF IInv, PeekHolds, StopsMarked, BytesInOrder, limiter, reader
<1>2. TypeOK'
  BY DEF IInv, TypeOK, Chunks, limiter, reader
<1>3. PeekHolds' /\ FrontJoins' /\ StopsMarked' /\ NothingMissing'
  BY <1>1 DEF PeekHolds, FrontJoins, StopsMarked, NothingMissing
<1>4. LimiterCounts' /\ LimitExact'
  BY <1>1, BodyFacts, LimitFacts, LimitsFixed DEF IInv, LimiterCounts, LimitExact
<1>5. BytesInOrder' /\ PeekBounded'
  BY <1>1 DEF BytesInOrder, PeekBounded
<1> QED
  BY <1>2, <1>3, <1>4, <1>5 DEF IInv

LEMMA PeekChunkStep == IInv /\ PeekChunk => IInv'
<1> SUFFICES ASSUME IInv, PeekChunk PROVE IInv'
  OBVIOUS
<1>1. /\ arrived \in Nat /\ buf = arrived /\ body.peek \in Nat /\ body.size \in Nat
      /\ arrived <= body.size /\ ~closed /\ front = <<>> /\ buf < body.peek
      /\ closed' = closed /\ cancelled' \in BOOLEAN /\ phase = "peeking"
      /\ body' = body /\ UNCHANGED <<limiter, reader>>
  BY BodyFacts DEF IInv, TypeOK, PeekHolds, PeekChunk
<1>2. PICK to \in (arrived + 1)..body.size :
        /\ arrived' = Chunk(arrived, to).to
        /\ IF Length(Chunk(arrived, to)) <= body.peek - buf
           THEN /\ buf' = buf + Length(Chunk(arrived, to))
                /\ UNCHANGED <<phase, front>>
           ELSE /\ buf' = body.peek
                /\ HandOver(body.peek, <<Chunk(body.peek, Chunk(arrived, to).to)>>)
  BY DEF PeekChunk
<1>3. Chunk(arrived, to).to = to /\ Length(Chunk(arrived, to)) = to - arrived
  BY DEF Chunk, Length
<1>4. to \in Nat /\ arrived' = to /\ to <= body.size /\ arrived < to
  BY <1>1, <1>2, <1>3
<1>7. arrived' \in 0..body.size /\ closed' \in BOOLEAN /\ ~closed'
  <2>1. arrived' \in 0..body.size
    BY <1>1, <1>4
  <2>2. closed' \in BOOLEAN /\ ~closed'
    BY DEF IInv, TypeOK, PeekHolds, PeekChunk
  <2> QED
    BY <2>1, <2>2
<1>5. CASE to - arrived <= body.peek - buf
  <2>1. buf + (to - arrived) = buf' /\ phase' = "peeking" /\ front' = <<>>
    BY <1>1, <1>2, <1>3, <1>5
  <2>2. buf' = to
    BY <1>1, <1>4, <2>1
  <2>3. buf' \in Nat /\ buf' <= body.peek /\ front' \in Seq(Chunks)
    BY <1>1, <1>4, <1>5, <2>1, <2>2
  <2> QED
    BY <1>1, <1>4, <1>7, <2>1, <2>2, <2>3, PeekStep
<1>6. CASE ~(to - arrived <= body.peek - buf)
  <2>1. buf' = body.peek /\ HandOver(body.peek, <<Chunk(body.peek, to)>>)
    BY <1>2, <1>3, <1>6
  <2>2. 0 < body.peek /\ body.peek < to
    BY <1>1, <1>4, <1>6
  <2>3. Covers(front', 0, to) /\ phase' = "reading"
    BY <1>1, <1>4, <2>1, <2>2, HandOverRest
  <2>4. front' \in Seq(Chunks)
    BY <2>3 DEF Covers
  <2>5. buf' \in Nat /\ buf' <= body.peek
    BY <1>1, <2>1
  <2> QED
    BY <1>1, <1>4, <1>7, <2>1, <2>3, <2>4, <2>5, PeekStep
<1> QED
  BY <1>5, <1>6

LEMMA PeekStopsStep == IInv /\ PeekStops => IInv'
<1> SUFFICES ASSUME IInv, PeekStops PROVE IInv'
  OBVIOUS
<1>1. /\ buf \in Nat /\ buf = arrived /\ ~closed /\ arrived' = arrived /\ buf' = buf
      /\ phase = "peeking" /\ body' = body /\ arrived \in 0..body.size
      /\ buf <= body.peek /\ cancelled' \in BOOLEAN /\ UNCHANGED <<limiter, reader>>
  BY DEF IInv, TypeOK, PeekHolds, PeekBounded, PeekStops
<1>2. /\ buf >= body.peek \/ arrived = body.size
      /\ closed' = (closed \/ buf < body.peek) /\ HandOver(buf, <<>>)
  BY <1>1 DEF PeekStops, Ends
<1>3. closed' \in BOOLEAN /\ (closed' => arrived' = body.size)
  <2>1. CASE buf < body.peek
    <3>1. arrived = body.size
      BY <1>1, <1>2, <2>1, BodyFacts DEF IInv
    <3> QED
      BY <1>1, <1>2, <2>1, <3>1
  <2>2. CASE ~(buf < body.peek)
    BY <1>1, <1>2, <2>2
  <2> QED
    BY <2>1, <2>2
<1>4. Covers(front', 0, buf) /\ phase' = "reading"
  BY <1>1, <1>2, HandOverNothing
<1>5. front' \in Seq(Chunks)
  BY <1>4 DEF Covers
<1> QED
  BY <1>1, <1>3, <1>4, <1>5, PeekStep

LEMMA PeekFailsStep == IInv /\ PeekFails => IInv'
<1> SUFFICES ASSUME IInv, PeekFails PROVE IInv'
  OBVIOUS
<1>1. TypeOK'
  BY DEF IInv, TypeOK, PeekFails, Errors, limiter
<1>2. PeekHolds' /\ FrontJoins' /\ StopsMarked' /\ NothingMissing' /\ PeekBounded'
  BY DEF IInv, PeekFails, PeekHolds, FrontJoins, StopsMarked, NothingMissing, PeekBounded,
         limiter
<1>3. BytesInOrder'
  BY DEF IInv, PeekFails, BytesInOrder
<1>4. LimiterCounts' /\ LimitExact'
  BY LimitsFixed DEF IInv, PeekFails, PeekHolds, LimiterCounts, LimitExact, limiter
<1> QED
  BY <1>1, <1>2, <1>3, <1>4 DEF IInv

(* The reader's steps: nothing of the source moves but what it reads.      *)
LEMMA ReadFrontStep == IInv /\ ReadFront => IInv'
<1> SUFFICES ASSUME IInv, ReadFront PROVE IInv'
  OBVIOUS
<1>1. /\ phase = "reading" /\ ~limitHit /\ front # <<>> /\ Pass(Head(front))
      /\ front' = Tail(front) /\ body' = body /\ arrived' = arrived
      /\ closed' = closed /\ buf' = buf /\ cancelled' = cancelled
  BY DEF ReadFront, source
<1>2. /\ out \in Nat /\ arrived \in Nat /\ arrived <= body.size
      /\ arrived \in 0..body.size /\ closed' \in BOOLEAN /\ cancelled' \in BOOLEAN
      /\ front \in Seq(Chunks) /\ Covers(front, out, arrived)
  BY <1>1, BodyFacts DEF IInv, TypeOK, FrontJoins, Chunks
<1>3. /\ Head(front).from = out /\ Head(front).to \in Nat
      /\ out < Head(front).to /\ Head(front).to <= arrived
      /\ Covers(Tail(front), Head(front).to, arrived)
  BY <1>1, <1>2, CoversTail
<1>4. Head(front) \in Chunks /\ Tail(front) \in Seq(Chunks)
  BY <1>1, <1>2
<1>5. /\ ReaderOK'
      /\ phase' = "reading" /\ ~limitHit' => out' = Head(front).to
  BY <1>1, <1>2, <1>3, <1>4, PassStep
<1>6. phase' = "reading" /\ ~limitHit' => Covers(front', out', arrived')
  BY <1>1, <1>3, <1>5
<1> QED
  BY <1>1, <1>2, <1>4, <1>5, <1>6, Reassembled

LEMMA ReadChunkStep == IInv /\ ReadChunk => IInv'
<1> SUFFICES ASSUME IInv, ReadChunk PROVE IInv'
  OBVIOUS
<1>1. /\ phase = "reading" /\ ~limitHit /\ front = <<>> /\ front' = front
      /\ body' = body /\ closed' = closed /\ buf' = buf /\ cancelled' = cancelled
  BY DEF ReadChunk
<1>2. /\ out \in Nat /\ arrived \in Nat /\ body.size \in Nat
      /\ closed' \in BOOLEAN /\ cancelled' \in BOOLEAN /\ Covers(front, out, arrived)
  BY <1>1, BodyFacts DEF IInv, TypeOK, FrontJoins
<1>3. out = arrived
  BY <1>1, <1>2 DEF Covers
<1>4. PICK to \in (arrived + 1)..body.size :
        /\ Yields(Chunk(arrived, to))
        /\ arrived' = Chunk(arrived, to).to
        /\ Pass(Chunk(arrived, to))
  BY DEF ReadChunk
<1>5. PICK chunk : chunk = Chunk(arrived, to)
  OBVIOUS
<1>6. /\ chunk \in Chunks /\ chunk.from = out /\ chunk.to = to /\ to \in Nat
      /\ arrived' = to /\ arrived < to /\ to <= body.size
  BY <1>2, <1>3, <1>4, <1>5 DEF Chunk, Chunks
<1>7. Pass(chunk) /\ ~closed
  BY <1>4, <1>5 DEF Yields
<1>8. /\ ReaderOK'
      /\ phase' = "reading" /\ ~limitHit' => out' = chunk.to
  BY <1>1, <1>2, <1>3, <1>6, <1>7, PassStep
<1>9. phase' = "reading" /\ ~limitHit' => Covers(front', out', arrived')
  BY <1>1, <1>6, <1>8, CoversNone
<1>10. front' \in Seq(Chunks) /\ arrived' \in 0..body.size
  BY <1>1, <1>2, <1>6
<1> QED
  BY <1>1, <1>2, <1>8, <1>9, <1>10, Reassembled

(* An error leaves the chunks where they are.                              *)
LEMMA ReadBreaksStep == IInv /\ ReadBreaks => IInv'
<1> SUFFICES ASSUME IInv, ReadBreaks PROVE IInv'
  OBVIOUS
<1>1. /\ phase = "reading" /\ ~limitHit /\ closed' = TRUE /\ ~closed
      /\ Receive("Transport") /\ body' = body /\ arrived' = arrived
      /\ buf' = buf /\ front' = front /\ read' = read /\ limitHit' = limitHit
      /\ cancelled' = cancelled
  BY DEF ReadBreaks, limiter
<1>2. /\ arrived \in Nat /\ arrived <= arrived /\ arrived \in 0..body.size
      /\ limitHit \in BOOLEAN /\ cancelled' \in BOOLEAN /\ front' \in Seq(Chunks)
      /\ out' = out
  BY <1>1, BodyFacts DEF IInv, TypeOK, Chunks, Receive
<1>3. ReaderOK'
  BY <1>1, <1>2, ReceiveStep DEF Errors
<1>4. phase' = "reading" /\ ~limitHit' => Covers(front', out', arrived')
  BY <1>1, <1>2 DEF IInv, FrontJoins
<1> QED
  BY <1>1, <1>2, <1>3, <1>4, Reassembled

LEMMA ReadCancelledStep == IInv /\ ReadCancelled => IInv'
<1> SUFFICES ASSUME IInv, ReadCancelled PROVE IInv'
  OBVIOUS
<1>1. /\ phase = "reading" /\ closed' = closed
      /\ Receive("Cancelled") /\ body' = body /\ arrived' = arrived
      /\ buf' = buf /\ front' = front /\ read' = read /\ limitHit' = limitHit
      /\ cancelled' = cancelled
  BY DEF ReadCancelled, limiter, source
<1>2. /\ arrived \in Nat /\ arrived <= arrived /\ arrived \in 0..body.size
      /\ limitHit \in BOOLEAN /\ cancelled' \in BOOLEAN /\ closed' \in BOOLEAN
      /\ front' \in Seq(Chunks) /\ out' = out
  BY <1>1, BodyFacts DEF IInv, TypeOK, Chunks, Receive
<1>3. ReaderOK'
  BY <1>1, <1>2, ReceiveStep DEF Errors
<1>4. phase' = "reading" /\ ~limitHit' => Covers(front', out', arrived')
  BY <1>1, <1>2 DEF IInv, FrontJoins
<1> QED
  BY <1>1, <1>2, <1>3, <1>4, Reassembled

(* The end of the body, or of what the limiter lets through.               *)
LEMMA ReadStopsStep == IInv /\ (ReadPastLimit \/ ReadEnds) => IInv'
<1> SUFFICES ASSUME IInv, ReadPastLimit \/ ReadEnds PROVE IInv'
  OBVIOUS
<1>1. /\ phase' = "over" /\ result' = "Ok"
      /\ UNCHANGED <<body, arrived, buf, front, read, limitHit, cancelled, out,
                     intact, errors>>
  BY DEF ReadPastLimit, ReadEnds, limiter, source
<1>2. TypeOK'
  <2>1. closed' \in BOOLEAN
    BY DEF IInv, TypeOK, ReadPastLimit, ReadEnds, source
  <2> QED
    BY <1>1, <2>1 DEF IInv, TypeOK
<1>3. errors = {} => out = body.size /\ (closed' => arrived = body.size)
  <2>1. CASE ReadPastLimit
    BY <2>1 DEF IInv, StopsMarked, ReadPastLimit
  <2>2. CASE ReadEnds
    <3>1. ~limitHit /\ phase = "reading" /\ front = <<>> /\ Ends
      BY <2>2 DEF ReadEnds
    <3>2. out = arrived
      BY <3>1 DEF IInv, FrontJoins, Covers
    <3>3. errors = {} => arrived = body.size
      BY <3>1 DEF Ends, IInv, StopsMarked
    <3> QED
      BY <3>2, <3>3
  <2> QED
    BY <2>1, <2>2
<1>4. closed' => "Transport" \in errors \/ arrived = body.size
  <2>1. CASE ReadPastLimit
    BY <2>1 DEF IInv, StopsMarked, ReadPastLimit, source
  <2>2. CASE ReadEnds
    BY <2>2 DEF ReadEnds, Ends, IInv, StopsMarked
  <2> QED
    BY <2>1, <2>2
<1>5. StopsMarked' /\ NothingMissing' /\ PeekHolds' /\ FrontJoins'
  BY <1>1, <1>3, <1>4
  DEF IInv, StopsMarked, NothingMissing, PeekHolds, FrontJoins
<1>6. LimiterCounts' /\ LimitExact' /\ BytesInOrder' /\ PeekBounded'
  BY <1>1, LimitsFixed DEF IInv, LimiterCounts, LimitExact, BytesInOrder, PeekBounded
<1> QED
  BY <1>2, <1>5, <1>6 DEF IInv

LEMMA CancelStep == IInv /\ (Cancel \/ UNCHANGED vars) => IInv'
<1> SUFFICES ASSUME IInv, Cancel \/ UNCHANGED vars PROVE IInv'
  OBVIOUS
<1>1. UNCHANGED <<body, phase, arrived, closed, buf, front, read, limitHit, out,
                  intact, errors, result>>
  BY DEF Cancel, vars, source, limiter, reader
<1>2. TypeOK'
  <2>1. cancelled' \in BOOLEAN
    BY DEF IInv, TypeOK, Cancel, vars
  <2> QED
    BY <1>1, <2>1 DEF IInv, TypeOK
<1>3. PeekHolds' /\ FrontJoins' /\ StopsMarked' /\ NothingMissing' /\ PeekBounded'
  BY <1>1 DEF IInv, PeekHolds, FrontJoins, StopsMarked, NothingMissing, PeekBounded
<1>4. LimiterCounts' /\ LimitExact' /\ BytesInOrder'
  BY <1>1, LimitsFixed DEF IInv, LimiterCounts, LimitExact, BytesInOrder
<1> QED
  BY <1>2, <1>3, <1>4 DEF IInv

LEMMA InvariantStep == IInv /\ [Next]_vars => IInv'
<1> SUFFICES ASSUME IInv, [Next]_vars PROVE IInv'
  OBVIOUS
<1>1. CASE PeekChunk
  BY <1>1, PeekChunkStep
<1>2. CASE PeekStops
  BY <1>2, PeekStopsStep
<1>3. CASE PeekFails
  BY <1>3, PeekFailsStep
<1>4. CASE ReadFront
  BY <1>4, ReadFrontStep
<1>5. CASE ReadChunk
  BY <1>5, ReadChunkStep
<1>6. CASE ReadBreaks
  BY <1>6, ReadBreaksStep
<1>7. CASE ReadCancelled
  BY <1>7, ReadCancelledStep
<1>8. CASE ReadPastLimit \/ ReadEnds
  BY <1>8, ReadStopsStep
<1>9. CASE Cancel \/ UNCHANGED vars
  BY <1>9, CancelStep
<1> QED
  BY <1>1, <1>2, <1>3, <1>4, <1>5, <1>6, <1>7, <1>8, <1>9 DEF Next, ReadAtHand, Over

(* After a limit or a cancellation no step gives the reader anything.      *)
LEMMA NothingAfterStop ==
  ASSUME IInv, [Next]_vars,
         \/ "BodyTooLarge" \in errors
         \/ body.token /\ cancelled /\ body.use # "drain"
  PROVE  out' = out
<1>1. limitHit \/ phase # "reading" \/ Cancelled
  BY DEF IInv, StopsMarked, Cancelled
<1>2. CASE ReadFront \/ ReadChunk
  BY <1>1, <1>2 DEF ReadFront, ReadChunk
<1>3. CASE PeekChunk \/ PeekStops \/ PeekFails
  BY <1>3 DEF PeekChunk, PeekStops, PeekFails, reader
<1>4. CASE ReadBreaks \/ ReadCancelled
  BY <1>4 DEF ReadBreaks, ReadCancelled, Receive
<1>5. CASE ReadPastLimit \/ ReadEnds \/ Cancel \/ UNCHANGED vars
  BY <1>5 DEF ReadPastLimit, ReadEnds, Cancel, vars, reader
<1> QED
  BY <1>2, <1>3, <1>4, <1>5 DEF Next, ReadAtHand, Over

-----------------------------------------------------------------------------
(* The invariant holds of every reachable state.                           *)
THEOREM Invariance == Spec => []IInv
BY InvariantInit, InvariantStep, PTL DEF Spec

(* The variables keep their types.                                         *)
THEOREM TypeCorrect == Spec => []TypeOK
<1>1. IInv => TypeOK
  BY DEF IInv
<1> QED
  BY Invariance, <1>1, PTL

(* Peeking, splitting and prepending never reorder or repeat a byte.       *)
THEOREM OrderKept == Spec => []BytesInOrder
<1>1. IInv => BytesInOrder
  BY DEF IInv
<1> QED
  BY Invariance, <1>1, PTL

(* A reader that reaches the end without an error has the whole body.      *)
THEOREM EndIsComplete == Spec => []NothingMissing
<1>1. IInv => NothingMissing
  BY DEF IInv
<1> QED
  BY Invariance, <1>1, PTL

(* All limits are exact, for every cut of every body into chunks.          *)
THEOREM LimitsExact == Spec => []LimitExact
<1>1. IInv => LimitExact
  BY DEF IInv
<1> QED
  BY Invariance, <1>1, PTL

(* The peek buffer keeps its bound although chunks have any length.        *)
THEOREM PeekStaysBounded == Spec => []PeekBounded
<1>1. IInv => PeekBounded
  BY DEF IInv
<1> QED
  BY Invariance, <1>1, PTL

(* No byte reaches the reader after a limit or a cancellation.             *)
THEOREM SilenceAfterStop == Spec => SilentAfterStop
<1>1. IInv /\ [Next]_vars =>
        [(\/ "BodyTooLarge" \in errors
          \/ body.token /\ cancelled /\ body.use # "drain") => out' = out]_vars
  BY NothingAfterStop
<1> QED
  BY Invariance, <1>1, PTL DEF Spec, SilentAfterStop

=============================================================================
