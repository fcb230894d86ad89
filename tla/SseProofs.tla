------------------------------ MODULE SseProofs ------------------------------
(***************************************************************************)
(* The events of a stream are those of the whole text, for every body and  *)
(* every cut into chunks that are not empty.  The parts: the recursive     *)
(* functions satisfy their equations; Normalized and Drain may be applied  *)
(* to a text part by part; a CR that waits at the end of a chunk changes   *)
(* nothing but the last, unfinished block; and what finish reads of that   *)
(* block is what parse_sse_events reads of it, but for blanks at its ends. *)
(***************************************************************************)
EXTENDS Sse, Induction, SequenceTheorems

(* The texts, and the facts on sequences that the proofs need of them.     *)
Text == Seq(Tokens)

LEMMA TextLength ==
  ASSUME NEW s \in Text
  PROVE  Len(s) \in Nat /\ (s = <<>> <=> Len(s) = 0) /\ \A i \in 1..Len(s) : s[i] \in Tokens
BY DEF Text

LEMMA TextConcat ==
  ASSUME NEW a \in Text, NEW b \in Text
  PROVE  /\ a \o b \in Text /\ Len(a \o b) = Len(a) + Len(b)
         /\ \A i \in 1..(Len(a) + Len(b)) : (a \o b)[i] = IF i <= Len(a) THEN a[i] ELSE b[i - Len(a)]
         /\ a \o <<>> = a /\ <<>> \o a = a
BY ConcatProperties, ConcatEmptySeq DEF Text

LEMMA TextAssociative ==
  ASSUME NEW a \in Text, NEW b \in Text, NEW c \in Text
  PROVE  (a \o b) \o c = a \o (b \o c)
BY ConcatAssociative DEF Text

LEMMA TextEqual ==
  ASSUME NEW a \in Text, NEW b \in Text, Len(a) = Len(b), \A i \in 1..Len(a) : a[i] = b[i]
  PROVE  a = b
BY SeqEqual DEF Text

LEMMA TextSub ==
  ASSUME NEW s \in Text, NEW m \in 1..(Len(s) + 1), NEW n \in (m - 1)..Len(s)
  PROVE  /\ SubSeq(s, m, n) \in Text /\ Len(SubSeq(s, m, n)) = n - m + 1
         /\ \A i \in 1..(n - m + 1) : SubSeq(s, m, n)[i] = s[m + i - 1]
<1>1. m \in Int /\ n \in Int /\ n - m + 1 >= 0 /\ (m <= n \/ n - m + 1 = 0)
  BY TextLength
<1>2. \A i \in m..n : s[i] \in Tokens
  BY TextLength
<1> QED BY <1>1, <1>2, SubSeqProperties DEF Text

LEMMA PrefixConcat ==
  ASSUME NEW a \in Text, NEW b \in Text, NEW n \in 0..Len(a)
  PROVE  SubSeq(a \o b, 1, n) = SubSeq(a, 1, n)
<1>1. CASE n = 0
  BY <1>1, SubSeqEmpty
<1>2. CASE n \in 1..Len(a)
  BY <1>2, TextLength, SubSeqOfConcat1 DEF Text
<1> QED BY <1>1, <1>2, TextLength

LEMMA SuffixConcat ==
  ASSUME NEW a \in Text, NEW b \in Text, NEW m \in 1..(Len(a) + 1)
  PROVE  SubSeq(a \o b, m, Len(a \o b)) = SubSeq(a, m, Len(a)) \o b
<1>1. PICK n, v, u : n = Len(a) - m + 1 /\ v = SubSeq(a, m, Len(a)) /\ u = SubSeq(a \o b, m, Len(a \o b))
  OBVIOUS
<1>2. /\ a \o b \in Text /\ Len(a) \in Nat /\ Len(b) \in Nat /\ Len(a \o b) = Len(a) + Len(b)
      /\ \A i \in 1..(Len(a) + Len(b)) : (a \o b)[i] = IF i <= Len(a) THEN a[i] ELSE b[i - Len(a)]
  BY TextConcat, TextLength
<1>3. n \in Nat /\ n <= Len(a)
  BY <1>1, <1>2
<1>4. v \in Text /\ Len(v) = n /\ \A i \in 1..n : v[i] = a[m + i - 1]
  <2>1. Len(a) \in (m - 1)..Len(a)
    BY <1>2
  <2> QED BY <1>1, <2>1, TextSub
<1>5. u \in Text /\ Len(u) = n + Len(b) /\ \A i \in 1..(n + Len(b)) : u[i] = (a \o b)[m + i - 1]
  <2>1. m \in 1..(Len(a \o b) + 1) /\ Len(a \o b) \in (m - 1)..Len(a \o b)
    BY <1>2
  <2>2. Len(a \o b) - m + 1 = n + Len(b)
    BY <1>1, <1>2
  <2> QED BY <1>1, <1>2, <2>1, <2>2, TextSub
<1>6. /\ v \o b \in Text /\ Len(v \o b) = n + Len(b)
      /\ \A i \in 1..(n + Len(b)) : (v \o b)[i] = IF i <= n THEN v[i] ELSE b[i - n]
  BY <1>4, TextConcat
<1>7. \A i \in 1..(n + Len(b)) : u[i] = (v \o b)[i]
  <2> TAKE i \in 1..(n + Len(b))
  <2>1. m + i - 1 \in 1..(Len(a) + Len(b)) /\ (m + i - 1 <= Len(a) <=> i <= n) /\ m + i - 1 - Len(a) = i - n
    BY <1>1, <1>2, <1>3
  <2>2. u[i] = IF i <= n THEN a[m + i - 1] ELSE b[i - n]
    BY <1>2, <1>5, <2>1
  <2>3. i <= n => v[i] = a[m + i - 1]
    BY <1>3, <1>4
  <2> QED BY <1>6, <2>2, <2>3
<1>8. u = v \o b
  BY <1>5, <1>6, <1>7, TextEqual
<1> QED BY <1>1, <1>8

(* Blank lines.                                                            *)
PairAt(s, i) == s[i] = "lf" /\ s[i + 1] = "lf"
Pairless(s)  == \A i \in 1..(Len(s) - 1) : ~PairAt(s, i)
FirstPair(s, p) == p \in 1..(Len(s) - 1) /\ PairAt(s, p) /\ \A j \in 1..(p - 1) : ~PairAt(s, j)

(* BlankLine finds the first pair of line ends.                            *)
LEMMA BlankLineIs ==
  ASSUME NEW s \in Text
  PROVE  /\ Pairless(s) => BlankLine(s) = 0
         /\ \A p : FirstPair(s, p) => BlankLine(s) = p
         /\ Pairless(s) \/ \E p \in 1..(Len(s) - 1) : FirstPair(s, p)
<1> DEFINE starts == {i \in 1..(Len(s) - 1) : PairAt(s, i)}
<1>1. BlankLine(s) = IF starts = {} THEN 0 ELSE Min(starts)
  BY DEF BlankLine, PairAt
<1>2. starts \subseteq Nat /\ Len(s) \in Nat
  BY DEF Text
<1>3. Pairless(s) <=> starts = {}
  BY DEF Pairless
<1>4. ASSUME NEW p, FirstPair(s, p) PROVE p \in starts /\ \A m \in starts : p <= m
  BY <1>2, <1>4 DEF FirstPair
<1>5. ASSUME NEW p \in starts, \A m \in starts : p <= m PROVE FirstPair(s, p)
  <2>1. \A j \in 1..(p - 1) : j \in 1..(Len(s) - 1) /\ ~(p <= j)
    BY <1>2
  <2> QED BY <1>2, <1>5, <2>1 DEF FirstPair
<1>6. starts # {} => \E p \in starts : \A m \in starts : p <= m
  BY <1>2, SmallestElement
<1> HIDE DEF starts
<1>7. \A p : FirstPair(s, p) => BlankLine(s) = p
  BY <1>1, <1>2, <1>4, MinIs
<1>8. starts # {} => \E p \in 1..(Len(s) - 1) : FirstPair(s, p)
  BY <1>5, <1>6 DEF FirstPair
<1> QED BY <1>1, <1>3, <1>7, <1>8

(* LineEnd finds the end of the first line.                                *)
LEMMA LineEndIs ==
  ASSUME NEW s \in Text
  PROVE  /\ LineEnd(s) \in 1..(Len(s) + 1)
         /\ LineEnd(s) <= Len(s) => s[LineEnd(s)] = "lf"
         /\ \A j \in 1..(LineEnd(s) - 1) : s[j] # "lf"
<1> DEFINE ends == {i \in 1..Len(s) : s[i] = "lf"} \cup {Len(s) + 1}
<1>1. ends \subseteq Nat /\ ends # {} /\ Len(s) \in Nat
  BY DEF Text
<1>2. PICK n \in ends : \A m \in ends : n <= m
  BY <1>1, SmallestElement
<1>3. LineEnd(s) = n
  BY <1>1, <1>2, MinIs DEF LineEnd
<1> QED BY <1>1, <1>2, <1>3

LEMMA LineEndUnique ==
  ASSUME NEW s \in Text, NEW n \in 1..(Len(s) + 1),
         n <= Len(s) => s[n] = "lf", \A j \in 1..(n - 1) : s[j] # "lf"
  PROVE  LineEnd(s) = n
BY LineEndIs DEF Text

(* A text is its first line and the others.                                *)
FirstLine(s) == SubSeq(s, 1, LineEnd(s) - 1)
Others(s)    == SubSeq(s, LineEnd(s) + 1, Len(s))

LEMMA LineCut ==
  ASSUME NEW s \in Text
  PROVE  /\ FirstLine(s) \in Text /\ Others(s) \in Text
         /\ LineEnd(s) <= Len(s) => Len(Others(s)) = Len(s) - LineEnd(s)
         /\ LineEnd(s) <= Len(s) => Len(Others(s)) < Len(s)
<1>1. LineEnd(s) \in 1..(Len(s) + 1) /\ Len(s) \in Nat
  BY LineEndIs DEF Text
<1>2. FirstLine(s) \in Text
  BY <1>1 DEF FirstLine, Text
<1>3. Others(s) \in Text
  BY <1>1 DEF Others, Text
<1>4. ASSUME LineEnd(s) <= Len(s) PROVE Len(Others(s)) = Len(s) - LineEnd(s)
  BY <1>1, <1>4 DEF Others, Text
<1> QED BY <1>1, <1>2, <1>3, <1>4

(* The values of a field.                                                  *)
LEMMA ValueInType ==
  ASSUME NEW f, NEW line \in Text
  PROVE  ValueIn(f, line) \in Seq(Text)
<1>1. line # <<>> => Tail(line) \in Text
  BY DEF Text
<1>2. \A v \in Text : StripOneSpace(v) \in Text
  BY DEF StripOneSpace, Text
<1>3. line # <<>> => <<StripOneSpace(Tail(line))>> \in Seq(Text)
  BY <1>1, <1>2
<1> QED BY <1>3 DEF ValueIn

(* Values satisfies its equation: the value in the first line, then those  *)
(* of the other lines.                                                     *)
LEMMA ValuesDef ==
  ASSUME NEW f, NEW s \in Text
  PROVE  /\ Values(f, s) \in Seq(Text)
         /\ Values(f, s) = ValueIn(f, FirstLine(s))
                             \o IF LineEnd(s) > Len(s) THEN <<>> ELSE Values(f, Others(s))
<1> DEFINE V == Seq(Text)
           Own(t) == ValueIn(f, FirstLine(t))
           Eq(h) == h = [t \in Text |-> Own(t) \o IF LineEnd(t) > Len(t) THEN <<>> ELSE h[Others(t)]]
           size == [t \in Text |-> Len(t)]
           more == {t \in Text : LineEnd(t) <= Len(t)}
           rest == [t \in more |-> Others(t)]
           base == [t \in Text |-> Own(t)]
           step == [p \in Text \X V |-> Own(p[1]) \o p[2]]
<1>1. ASSUME NEW t \in Text
      PROVE  Own(t) \in V /\ Len(t) \in Nat /\ LineEnd(t) \in Nat /\ Others(t) \in Text
  <2>1. LineEnd(t) \in Nat /\ Len(t) \in Nat
    BY LineEndIs DEF Text
  <2>2. Own(t) \in V
    BY LineCut, ValueInType
  <2> QED BY <2>1, <2>2, LineCut
<1> HIDE DEF Own
<1>2. PICK g : Solution(Text, V, more, rest, base, step, g)
  <2>1. size \in [Text -> Nat] /\ more \in SUBSET Text /\ base \in [Text -> V]
    BY <1>1
  <2>2. \A t \in more : rest[t] \in Text /\ size[rest[t]] < size[t]
    BY <1>1, LineCut
  <2>3. \A t \in Text, v \in V : Own(t) \o v \in V
    BY <1>1
  <2>4. step \in [Text \X V -> V]
    BY <2>3
  <2>5. Recursion(Text, V, size, more, rest, base, step)
    BY <2>1, <2>2, <2>4 DEF Recursion
  <2> HIDE DEF V, size, more, rest, base, step
  <2> QED BY <2>5, MeasuredRecursion
<1>3. ASSUME NEW t \in Text
      PROVE  g[t] = Own(t) \o IF LineEnd(t) > Len(t) THEN <<>> ELSE g[Others(t)]
  <2>0. g \in [Text -> V]
    BY <1>2 DEF Solution
  <2>1. CASE LineEnd(t) <= Len(t)
    <3>1. t \in more /\ rest[t] = Others(t) /\ g[Others(t)] \in V
      BY <1>1, <2>0, <2>1
    <3>2. g[t] = step[<<t, g[Others(t)]>>]
      BY <1>2, <3>1 DEF Solution
    <3>3. \A v \in V : step[<<t, v>>] = Own(t) \o v
      OBVIOUS
    <3>4. g[t] = Own(t) \o g[Others(t)]
      BY <3>1, <3>2, <3>3
    <3> QED BY <1>1, <2>1, <3>4
  <2>2. CASE ~(LineEnd(t) <= Len(t))
    <3>1. g[t] = Own(t)
      BY <1>2, <2>2 DEF Solution
    <3> QED BY <1>1, <2>2, <3>1
  <2> QED BY <2>1, <2>2
<1> DEFINE values == CHOOSE h : Eq(h)
<1>4. Eq(values)
  <2>1. g = [t \in Text |-> g[t]]
    BY <1>2 DEF Solution
  <2>2. Eq(g)
    BY <1>3, <2>1
  <2> QED BY <2>2
<1>5. \A t : Values(f, t) = values[t]
  BY DEF Values, FirstLine, Others, Text, Own
<1> HIDE DEF values
<1>6. \A t \in Text : values[t] = Own(t) \o IF LineEnd(t) > Len(t) THEN <<>> ELSE values[Others(t)]
  BY <1>4
<1>7. \A t \in Text : values[t] \in V
  <2> DEFINE P == {t \in Text : values[t] \in V}
  <2>1. ASSUME NEW t \in Text, \A u \in Text : Len(u) < Len(t) => u \in P
        PROVE  values[t] \in V
    <3>1. CASE LineEnd(t) > Len(t)
      <4>1. values[t] = Own(t) \o <<>>
        BY <1>6, <3>1
      <4> QED BY <1>1, <4>1
    <3>2. CASE ~(LineEnd(t) > Len(t))
      <4>1. Len(Others(t)) < Len(t)
        BY <1>1, <3>2, LineCut
      <4>2. values[Others(t)] \in V
        BY <1>1, <2>1, <4>1
      <4>3. values[t] = Own(t) \o values[Others(t)]
        BY <1>6, <3>2
      <4> QED BY <1>1, <4>2, <4>3
    <3> QED BY <3>1, <3>2
  <2>2. ASSUME NEW t \in Text, \A u \in Text : Len(u) < Len(t) => u \in P PROVE t \in P
    BY <2>1, <2>2
  <2> HIDE DEF P
  <2>3. Text \subseteq P
    BY <2>2, LengthInduction DEF Text
  <2> QED BY <2>3 DEF P
<1> QED BY <1>1, <1>5, <1>6, <1>7 DEF Own

(* A block has at most one event.                                          *)
LEMMA ParseBlockType ==
  ASSUME NEW s \in Text
  PROVE  ParseBlock(s) \in Seq(Events) /\ Len(ParseBlock(s)) \in 0..1
<1> DEFINE last(f) == IF Values(f, s) = <<>> THEN <<>> ELSE <<Last(Values(f, s))>>
           event == [data |-> Values("data", s), event |-> last("event"), id |-> last("id")]
<1>1. \A f : Values(f, s) \in Seq(Text)
  BY ValuesDef
<1>2. ASSUME NEW f PROVE last(f) \in Seq(Text)
  <2>1. CASE Values(f, s) = <<>>
    BY <2>1
  <2>2. CASE Values(f, s) # <<>>
    <3>1. Last(Values(f, s)) \in Text
      BY <1>1, <2>2 DEF Last
    <3> QED BY <2>2, <3>1
  <2> QED BY <2>1, <2>2
<1>3. event \in Events
  BY <1>1, <1>2 DEF Events, Text
<1>4. ParseBlock(s) = <<>> \/ ParseBlock(s) = <<event>>
  BY DEF ParseBlock
<1> HIDE DEF event
<1>5. <<event>> \in Seq(Events) /\ Len(<<event>>) = 1
  BY <1>3
<1>6. <<>> \in Seq(Events) /\ Len(<<>>) = 0
  OBVIOUS
<1>7. 0 \in 0..1 /\ 1 \in 0..1
  OBVIOUS
<1> QED BY <1>4, <1>5, <1>6, <1>7, Zenon

(* What is kept of s is the part from a to b.                              *)
Trims(s, from, a, b) ==
  /\ a \in 1..Len(s) /\ b \in a..Len(s) /\ s[a] \notin from /\ s[b] \notin from
  /\ \A i \in 1..Len(s) : s[i] \notin from => a <= i /\ i <= b

(* Trim keeps such a part, or nothing.                                     *)
LEMMA TrimIs ==
  ASSUME NEW s \in Text, NEW from
  PROVE  /\ Trim(s, from) \in Text
         /\ (\A i \in 1..Len(s) : s[i] \in from) => Trim(s, from) = <<>>
         /\ \A a, b : Trims(s, from, a, b) => Trim(s, from) = SubSeq(s, a, b)
         /\ \/ \A i \in 1..Len(s) : s[i] \in from
            \/ \E a, b \in 1..Len(s) : Trims(s, from, a, b)
<1> DEFINE kept == {i \in DOMAIN s : s[i] \notin from}
<1>1. Trim(s, from) = IF kept = {} THEN <<>> ELSE SubSeq(s, Min(kept), Max(kept))
  BY DEF Trim
<1>2. Len(s) \in Nat /\ DOMAIN s = 1..Len(s) /\ kept \subseteq Nat /\ kept \subseteq 0..Len(s)
  BY DEF Text
<1>3. (\A i \in 1..Len(s) : s[i] \in from) <=> kept = {}
  BY <1>2
<1>4. ASSUME NEW a, NEW b, Trims(s, from, a, b) PROVE kept # {} /\ Trim(s, from) = SubSeq(s, a, b)
  <2>1. a \in kept /\ b \in kept /\ \A i \in kept : a <= i /\ i <= b
    BY <1>2, <1>4 DEF Trims
  <2> HIDE DEF kept
  <2>2. Min(kept) = a /\ Max(kept) = b
    BY <1>2, <2>1, MinIs, MaxIs
  <2> QED BY <1>1, <2>1, <2>2
<1>5. ASSUME kept # {} PROVE \E a, b \in 1..Len(s) : Trims(s, from, a, b)
  <2>1. PICK a \in kept : \A i \in kept : a <= i
    BY <1>2, <1>5, SmallestElement
  <2>2. PICK b \in kept : \A i \in kept : i <= b
    <3> HIDE DEF kept
    <3> QED BY <1>2, <1>5, LargestElement
  <2>3. Trims(s, from, a, b)
    BY <1>2, <2>1, <2>2 DEF Trims
  <2> QED BY <1>2, <2>3
<1>6. Trim(s, from) \in Text
  <2>1. CASE kept = {}
    BY <1>1, <2>1 DEF Text
  <2>2. CASE kept # {}
    <3>1. PICK a, b \in 1..Len(s) : Trims(s, from, a, b)
      BY <1>5, <2>2
    <3>2. SubSeq(s, a, b) \in Text
      BY <1>2 DEF Text
    <3> QED BY <1>4, <3>1, <3>2
  <2> QED BY <2>1, <2>2
<1> QED BY <1>1, <1>3, <1>4, <1>5, <1>6

(* A trimmed block has at most one event as well.                          *)
LEMMA TrimmedBlockType ==
  ASSUME NEW s \in Text
  PROVE  TrimmedBlock(s) \in Seq(Events) /\ Len(TrimmedBlock(s)) \in 0..1
BY TrimIs, ParseBlockType DEF TrimmedBlock

(* The first complete block of a text and what is beyond its blank line.   *)
Block(s)  == SubSeq(s, 1, BlankLine(s) - 1)
Beyond(s) == SubSeq(s, BlankLine(s) + 2, Len(s))
Drained   == [events : Seq(Events), rest : Text]

(* What is beyond the first block is shorter.                              *)
LEMMA BlockCut ==
  ASSUME NEW s \in Text
  PROVE  /\ Block(s) \in Text /\ Beyond(s) \in Text
         /\ BlankLine(s) # 0 => Len(Beyond(s)) < Len(s)
<1>1. Len(s) \in Nat
  BY DEF Text
<1>2. BlankLine(s) = 0 \/ BlankLine(s) \in 1..(Len(s) - 1)
  BY BlankLineIs DEF FirstPair
<1>3. Block(s) \in Text
  BY <1>1, <1>2 DEF Block, Text
<1>4. Beyond(s) \in Text
  BY <1>1, <1>2 DEF Beyond, Text
<1>5. BlankLine(s) # 0 => Len(Beyond(s)) < Len(s)
  BY <1>1, <1>2 DEF Beyond, Text
<1> QED BY <1>3, <1>4, <1>5

(* Drain satisfies its equation: the first block, then what is beyond it.  *)
LEMMA DrainDef ==
  ASSUME NEW s \in Text
  PROVE  /\ Drain(s) \in Drained
         /\ Pairless(s) => Drain(s) = [events |-> <<>>, rest |-> s]
         /\ ~Pairless(s) =>
              Drain(s) = [events |-> TrimmedBlock(Block(s)) \o Drain(Beyond(s)).events,
                          rest   |-> Drain(Beyond(s)).rest]
<1> DEFINE V == Drained
           Whole(t) == [events |-> <<>>, rest |-> t]
           Own(t)   == TrimmedBlock(Block(t))
           With(t, v) == [events |-> Own(t) \o v.events, rest |-> v.rest]
           Eq(h) == h = [t \in Text |-> IF BlankLine(t) = 0 THEN Whole(t) ELSE With(t, h[Beyond(t)])]
           size == [t \in Text |-> Len(t)]
           more == {t \in Text : BlankLine(t) # 0}
           rest == [t \in more |-> Beyond(t)]
           base == [t \in Text |-> Whole(t)]
           step == [p \in Text \X V |-> With(p[1], p[2])]
<1>1. ASSUME NEW t \in Text
      PROVE  /\ Whole(t) \in V /\ Len(t) \in Nat /\ Beyond(t) \in Text
             /\ \A v \in V : With(t, v) \in V
  <2>1. Own(t) \in Seq(Events)
    BY TrimmedBlockType, BlockCut
  <2>2. Whole(t) \in V
    BY DEF Drained
  <2>3. \A v \in V : With(t, v) \in V
    BY <2>1 DEF Drained
  <2>4. Len(t) \in Nat
    BY DEF Text
  <2> QED BY <2>2, <2>3, <2>4, BlockCut
<1> HIDE DEF Own, With, Whole
<1>2. PICK g : Solution(Text, V, more, rest, base, step, g)
  <2>1. size \in [Text -> Nat] /\ more \in SUBSET Text /\ base \in [Text -> V]
    BY <1>1
  <2>2. \A t \in more : rest[t] \in Text /\ size[rest[t]] < size[t]
    BY <1>1, BlockCut
  <2>3. step \in [Text \X V -> V]
    BY <1>1
  <2>4. Recursion(Text, V, size, more, rest, base, step)
    BY <2>1, <2>2, <2>3 DEF Recursion
  <2> HIDE DEF V, size, more, rest, base, step
  <2> QED BY <2>4, MeasuredRecursion
<1>3. ASSUME NEW t \in Text
      PROVE  g[t] = IF BlankLine(t) = 0 THEN Whole(t) ELSE With(t, g[Beyond(t)])
  <2>0. g \in [Text -> V]
    BY <1>2 DEF Solution
  <2>1. CASE BlankLine(t) # 0
    <3>1. t \in more /\ rest[t] = Beyond(t) /\ g[Beyond(t)] \in V
      BY <1>1, <2>0, <2>1
    <3>2. g[t] = step[<<t, g[Beyond(t)]>>]
      BY <1>2, <3>1 DEF Solution
    <3>3. \A v \in V : step[<<t, v>>] = With(t, v)
      OBVIOUS
    <3> QED BY <2>1, <3>1, <3>2, <3>3
  <2>2. CASE BlankLine(t) = 0
    BY <1>2, <2>2 DEF Solution
  <2> QED BY <2>1, <2>2
<1> DEFINE drain == CHOOSE h : Eq(h)
<1>4. Eq(drain)
  <2>1. g = [t \in Text |-> g[t]]
    BY <1>2 DEF Solution
  <2>2. Eq(g)
    BY <1>3, <2>1
  <2> QED BY <2>2
<1>5. \A t : Drain(t) = drain[t]
  BY DEF Drain, Block, Beyond, Text, Own, With, Whole
<1> HIDE DEF drain
<1>6. \A t \in Text : drain[t] = IF BlankLine(t) = 0 THEN Whole(t) ELSE With(t, drain[Beyond(t)])
  BY <1>4
<1>7. \A t \in Text : drain[t] \in V
  <2> DEFINE P == {t \in Text : drain[t] \in V}
  <2>1. ASSUME NEW t \in Text, \A u \in Text : Len(u) < Len(t) => u \in P
        PROVE  drain[t] \in V
    <3>1. CASE BlankLine(t) = 0
      BY <1>1, <1>6, <3>1
    <3>2. CASE BlankLine(t) # 0
      <4>1. Len(Beyond(t)) < Len(t)
        BY <1>1, <3>2, BlockCut
      <4>2. drain[Beyond(t)] \in V
        BY <1>1, <2>1, <4>1
      <4> QED BY <1>1, <1>6, <3>2, <4>2
    <3> QED BY <3>1, <3>2
  <2>2. ASSUME NEW t \in Text, \A u \in Text : Len(u) < Len(t) => u \in P PROVE t \in P
    BY <2>1, <2>2
  <2> HIDE DEF P
  <2>3. Text \subseteq P
    BY <2>2, LengthInduction DEF Text
  <2> QED BY <2>3 DEF P
<1>8. Pairless(s) <=> BlankLine(s) = 0
  BY BlankLineIs DEF Pairless, FirstPair
<1> QED BY <1>1, <1>5, <1>6, <1>7, <1>8 DEF Own, With, Whole

(* Normalized texts have no CR.                                            *)
Plain == Seq(Tokens \ {"cr"})

(* What one token adds to the normalized text before it.                   *)
NormalToken(t, before) ==
  IF t = "cr" THEN <<"lf">> ELSE IF t = "lf" /\ EndsInCr(before) THEN <<>> ELSE <<t>>

(* They are texts.                                                         *)
LEMMA PlainIsText == Plain \subseteq Text
BY SeqMonotonic DEF Plain, Text

(* A text is its front and its last token.                                 *)
LEMMA FrontLast ==
  ASSUME NEW s \in Text, s # <<>>
  PROVE  /\ Len(s) \in Nat \ {0}
         /\ Front(s) \in Text /\ Len(Front(s)) = Len(s) - 1
         /\ \A i \in 1..(Len(s) - 1) : Front(s)[i] = s[i]
         /\ Last(s) \in Tokens /\ Last(s) = s[Len(s)] /\ Head(s) = s[1]
         /\ s = Front(s) \o <<Last(s)>>
<1> DEFINE n == Len(s) - 1
<1>1. Len(s) \in Nat \ {0}
  BY TextLength
<1>2. n \in Int /\ 1 \in Int /\ n >= 0
  BY <1>1
<1>3. \A i \in 1..n : s[i] \in Tokens
  BY <1>1, TextLength
<1> HIDE DEF n
<1>4. /\ SubSeq(s, 1, n) \in Seq(Tokens)
      /\ Len(SubSeq(s, 1, n)) = IF 1 <= n THEN n - 1 + 1 ELSE 0
      /\ \A i \in 1..(n - 1 + 1) : SubSeq(s, 1, n)[i] = s[1 + i - 1]
  BY <1>2, <1>3, SubSeqProperties
<1>5. /\ SubSeq(s, 1, n) \in Seq(Tokens) /\ Len(SubSeq(s, 1, n)) = n
      /\ \A i \in 1..n : SubSeq(s, 1, n)[i] = s[i]
  BY <1>2, <1>4
<1>6. /\ Front(s) \in Text /\ Len(Front(s)) = Len(s) - 1
      /\ \A i \in 1..(Len(s) - 1) : Front(s)[i] = s[i]
  BY <1>5 DEF Front, Text, n
<1>7. Last(s) \in Tokens /\ Last(s) = s[Len(s)]
  BY <1>1, TextLength DEF Last
<1>8. SubSeq(s, 1, Len(s)) = SubSeq(s, 1, Len(s) - 1) \o <<s[Len(s)]>>
  BY <1>1, SubSeqRecursiveSecond DEF Text
<1>9. SubSeq(s, 1, Len(s)) = s
  BY SubSeqFull DEF Text
<1>10. s = Front(s) \o <<Last(s)>>
  BY <1>8, <1>9 DEF Front, Last
<1>11. Head(s) = s[1]
  BY DEF Text
<1> QED BY <1>1, <1>6, <1>7, <1>10, <1>11

(* Normalized satisfies its equation.                                      *)
LEMMA NormalizedDef ==
  ASSUME NEW s \in Text
  PROVE  /\ Normalized(s) \in Plain
         /\ s = <<>> => Normalized(s) = <<>>
         /\ s # <<>> => Normalized(s) = Normalized(Front(s)) \o NormalToken(Last(s), Front(s))
<1> DEFINE V == Plain
           Own(t) == NormalToken(Last(t), Front(t))
           Eq(h) == h = [t \in Text |-> IF t = <<>> THEN <<>> ELSE h[Front(t)] \o Own(t)]
           size == [t \in Text |-> Len(t)]
           more == {t \in Text : t # <<>>}
           rest == [t \in more |-> Front(t)]
           base == [t \in Text |-> <<>>]
           step == [p \in Text \X V |-> IF p[1] = <<>> THEN <<>> ELSE p[2] \o Own(p[1])]
<1>1. ASSUME NEW t \in Text
      PROVE  /\ <<>> \in V /\ Len(t) \in Nat
             /\ t # <<>> => Front(t) \in Text /\ Len(Front(t)) < Len(t) /\ Own(t) \in V
             /\ \A v \in V : t # <<>> => v \o Own(t) \in V
  <2>1. <<>> \in V /\ Len(t) \in Nat
    BY DEF Plain, Text
  <2>2. ASSUME t # <<>> PROVE Front(t) \in Text /\ Len(Front(t)) < Len(t) /\ Own(t) \in V
    <3>0. Last(t) \in Tokens /\ Front(t) \in Text /\ Len(Front(t)) = Len(t) - 1
      BY <2>2, FrontLast
    <3>1. Last(t) # "cr" => <<Last(t)>> \in Plain
      BY <3>0 DEF Plain
    <3>2. <<"lf">> \in Plain
      BY DEF Plain, Tokens
    <3>3. Own(t) \in Plain
      BY <2>1, <3>1, <3>2 DEF NormalToken
    <3> QED BY <2>1, <3>0, <3>3
  <2>3. \A v, w \in V : v \o w \in V
    BY DEF Plain
  <2> QED BY <2>1, <2>2, <2>3
<1> HIDE DEF Own
<1>2. PICK g : Solution(Text, V, more, rest, base, step, g)
  <2>1. size \in [Text -> Nat] /\ more \in SUBSET Text /\ base \in [Text -> V]
    BY <1>1
  <2>2. \A t \in more : rest[t] \in Text /\ size[rest[t]] < size[t]
    BY <1>1
  <2>3. \A t \in Text, v \in V : (IF t = <<>> THEN <<>> ELSE v \o Own(t)) \in V
    BY <1>1
  <2>4. step \in [Text \X V -> V]
    BY <2>3
  <2>5. Recursion(Text, V, size, more, rest, base, step)
    BY <2>1, <2>2, <2>4 DEF Recursion
  <2> HIDE DEF V, size, more, rest, base, step
  <2> QED BY <2>5, MeasuredRecursion
<1>3. ASSUME NEW t \in Text
      PROVE  g[t] = IF t = <<>> THEN <<>> ELSE g[Front(t)] \o Own(t)
  <2>0. g \in [Text -> V]
    BY <1>2 DEF Solution
  <2>1. CASE t # <<>>
    <3>1. t \in more /\ rest[t] = Front(t) /\ g[Front(t)] \in V
      BY <1>1, <2>0, <2>1
    <3>2. g[t] = step[<<t, g[Front(t)]>>]
      BY <1>2, <3>1 DEF Solution
    <3>3. \A v \in V : step[<<t, v>>] = v \o Own(t)
      BY <2>1
    <3> QED BY <2>1, <3>1, <3>2, <3>3
  <2>2. CASE t = <<>>
    BY <1>2, <2>2 DEF Solution
  <2> QED BY <2>1, <2>2
<1> DEFINE normal == CHOOSE h : Eq(h)
<1>4. Eq(normal)
  <2>1. g = [t \in Text |-> g[t]]
    BY <1>2 DEF Solution
  <2>2. Eq(g)
    BY <1>3, <2>1
  <2> QED BY <2>2
<1>5. \A t : Normalized(t) = normal[t]
  BY DEF Normalized, Text, Own, NormalToken
<1> HIDE DEF normal
<1>6. \A t \in Text : normal[t] = IF t = <<>> THEN <<>> ELSE normal[Front(t)] \o Own(t)
  BY <1>4
<1>7. \A t \in Text : normal[t] \in V
  <2> DEFINE P == {t \in Text : normal[t] \in V}
  <2>1. ASSUME NEW t \in Text, \A u \in Text : Len(u) < Len(t) => u \in P
        PROVE  normal[t] \in V
    <3>1. CASE t = <<>>
      BY <1>1, <1>6, <3>1
    <3>2. CASE t # <<>>
      <4>1. normal[Front(t)] \in V
        BY <1>1, <2>1, <3>2
      <4> QED BY <1>1, <1>6, <3>2, <4>1
    <3> QED BY <3>1, <3>2
  <2>2. ASSUME NEW t \in Text, \A u \in Text : Len(u) < Len(t) => u \in P PROVE t \in P
    BY <2>1, <2>2
  <2> HIDE DEF P
  <2>3. Text \subseteq P
    BY <2>2, LengthInduction DEF Text
  <2> QED BY <2>3 DEF P
<1> QED BY <1>5, <1>6, <1>7 DEF Own

(* The ends of a concatenation.                                            *)
LEMMA ConcatEnds ==
  ASSUME NEW a \in Text, NEW c \in Text, c # <<>>
  PROVE  /\ a \o c \in Text /\ a \o c # <<>>
         /\ Front(a \o c) = a \o Front(c) /\ Last(a \o c) = Last(c)
<1>1. /\ Len(c) \in Nat \ {0} /\ Front(c) \in Text /\ Len(Front(c)) = Len(c) - 1
      /\ \A i \in 1..(Len(c) - 1) : Front(c)[i] = c[i]
      /\ Last(c) = c[Len(c)]
  BY FrontLast
<1>2. /\ a \o c \in Text /\ Len(a) \in Nat /\ Len(a \o c) = Len(a) + Len(c)
      /\ \A i \in 1..(Len(a) + Len(c)) : (a \o c)[i] = IF i <= Len(a) THEN a[i] ELSE c[i - Len(a)]
  BY TextConcat, TextLength
<1>3. a \o c # <<>>
  BY <1>1, <1>2, TextLength
<1>4. /\ Front(a \o c) \in Text /\ Len(Front(a \o c)) = Len(a \o c) - 1
      /\ \A i \in 1..(Len(a \o c) - 1) : Front(a \o c)[i] = (a \o c)[i]
      /\ Last(a \o c) = (a \o c)[Len(a \o c)]
  BY <1>2, <1>3, FrontLast
<1>5. Last(a \o c) = Last(c)
  BY <1>1, <1>2, <1>4
<1>6. /\ a \o Front(c) \in Text /\ Len(a \o Front(c)) = Len(a) + (Len(c) - 1)
      /\ \A i \in 1..(Len(a) + (Len(c) - 1)) :
           (a \o Front(c))[i] = IF i <= Len(a) THEN a[i] ELSE Front(c)[i - Len(a)]
  BY <1>1, TextConcat
<1>7. \A i \in 1..(Len(a) + (Len(c) - 1)) : (a \o Front(c))[i] = Front(a \o c)[i]
  <2> TAKE i \in 1..(Len(a) + (Len(c) - 1))
  <2>1. Front(a \o c)[i] = (a \o c)[i] /\ i \in 1..(Len(a) + Len(c))
    BY <1>1, <1>2, <1>4
  <2>2. CASE i <= Len(a)
    BY <1>2, <1>6, <2>1, <2>2
  <2>3. CASE ~(i <= Len(a))
    <3>1. Front(c)[i - Len(a)] = c[i - Len(a)]
      BY <1>1, <1>2, <2>3
    <3> QED BY <1>2, <1>6, <2>1, <2>3, <3>1
  <2> QED BY <2>2, <2>3
<1>8. Front(a \o c) = a \o Front(c)
  <2> DEFINE u == Front(a \o c)
             v == a \o Front(c)
  <2>1. Len(u) = Len(a) + (Len(c) - 1) /\ Len(v) = Len(u) /\ u \in Text /\ v \in Text
    BY <1>1, <1>2, <1>4, <1>6
  <2>2. \A i \in 1..Len(u) : u[i] = v[i]
    BY <1>7, <2>1
  <2> HIDE DEF u, v
  <2>3. u = v
    BY <2>1, <2>2, TextEqual
  <2> QED BY <2>3 DEF u, v
<1> QED BY <1>2, <1>3, <1>5, <1>8

(* No CRLF is cut between a and c.                                         *)
Apart(a, c) == ~(EndsInCr(a) /\ c # <<>> /\ Head(c) = "lf")

(* One token adds at most one.                                             *)
LEMMA NormalTokenType ==
  ASSUME NEW t \in Tokens, NEW before
  PROVE  NormalToken(t, before) \in Text
<1>1. <<"lf">> \in Text /\ <<>> \in Text /\ <<t>> \in Text
  BY DEF Text, Tokens
<1> QED BY <1>1 DEF NormalToken

(* A normalized text is a text.                                            *)
LEMMA NormalizedText ==
  ASSUME NEW s \in Text
  PROVE  Normalized(s) \in Text
BY NormalizedDef, PlainIsText

(* Two parts of a text can be normalized one by one, unless a CRLF is cut. *)
LEMMA NormalizedConcat ==
  ASSUME NEW a \in Text, NEW b \in Text, Apart(a, b)
  PROVE  Normalized(a \o b) = Normalized(a) \o Normalized(b)
<1> DEFINE P == {c \in Text : Apart(a, c) => Normalized(a \o c) = Normalized(a) \o Normalized(c)}
<1>1. ASSUME NEW c \in Text, \A t \in Text : Len(t) < Len(c) => t \in P, Apart(a, c)
      PROVE  Normalized(a \o c) = Normalized(a) \o Normalized(c)
  <2>1. CASE c = <<>>
    <3>1. a \o c = a /\ Normalized(c) = <<>> /\ Normalized(a) \in Text
      BY <2>1, NormalizedDef, NormalizedText, TextConcat
    <3> QED BY <3>1, TextConcat
  <2>2. CASE c # <<>>
    <3> DEFINE f == Front(c)
               l == Last(c)
    <3>1. /\ f \in Text /\ Len(f) = Len(c) - 1 /\ Len(c) \in Nat \ {0} /\ l \in Tokens
          /\ \A i \in 1..(Len(c) - 1) : f[i] = c[i]
          /\ l = c[Len(c)] /\ Head(c) = c[1]
      BY <2>2, FrontLast
    <3>2. Front(a \o c) = a \o f /\ Last(a \o c) = l /\ a \o c \in Text /\ a \o c # <<>>
      BY <2>2, ConcatEnds
    <3> HIDE DEF f, l
    <3>3. f # <<>> => Head(f) = Head(c) /\ Last(a \o f) = Last(f) /\ a \o f # <<>>
      BY <3>1, ConcatEnds, FrontLast
    <3>4. f = <<>> => l = Head(c) /\ a \o f = a
      <4> SUFFICES ASSUME f = <<>> PROVE l = Head(c) /\ a \o f = a
        OBVIOUS
      <4>1. Len(f) = 0
        OBVIOUS
      <4>2. Len(c) = 1
        BY <3>1, <4>1
      <4>3. l = Head(c)
        BY <3>1, <4>2
      <4>4. a \o <<>> = a
        BY TextConcat, <3>1
      <4> QED BY <4>3, <4>4
    <3>5. Normalized(a \o f) = Normalized(a) \o Normalized(f)
      <4>1. Apart(a, f)
        BY <1>1, <2>2, <3>3 DEF Apart
      <4>2. f \in P
        BY <1>1, <3>1
      <4> QED BY <4>1, <4>2
    <3>6. NormalToken(l, a \o f) = NormalToken(l, f)
      BY <1>1, <2>2, <3>3, <3>4 DEF NormalToken, EndsInCr, Apart
    <3>7. Normalized(a \o c) = Normalized(a \o f) \o NormalToken(l, a \o f)
      BY <3>2, NormalizedDef
    <3>8. Normalized(c) = Normalized(f) \o NormalToken(l, f)
      BY <2>2, NormalizedDef DEF f, l
    <3>9. Normalized(a) \in Text /\ Normalized(f) \in Text /\ NormalToken(l, f) \in Text
      BY <3>1, NormalizedText, NormalTokenType
    <3> QED BY <3>5, <3>6, <3>7, <3>8, <3>9, TextAssociative
  <2> QED BY <2>1, <2>2
<1>2. ASSUME NEW c \in Text, \A t \in Text : Len(t) < Len(c) => t \in P PROVE c \in P
  BY <1>1, <1>2
<1> HIDE DEF P
<1>3. Text \subseteq P
  BY <1>2, LengthInduction DEF Text
<1> QED BY <1>3 DEF P

(* More text does not change the first block.                              *)
LEMMA PairStays ==
  ASSUME NEW a \in Text, NEW b \in Text, ~Pairless(a)
  PROVE  /\ ~Pairless(a \o b)
         /\ Block(a \o b) = Block(a) /\ Beyond(a \o b) = Beyond(a) \o b
<1>1. PICK p \in 1..(Len(a) - 1) : FirstPair(a, p)
  BY BlankLineIs
<1>2. /\ a \o b \in Text /\ Len(a) \in Nat /\ Len(b) \in Nat /\ Len(a \o b) = Len(a) + Len(b)
      /\ \A i \in 1..Len(a) : (a \o b)[i] = a[i]
  BY DEF Text
<1>3. FirstPair(a \o b, p)
  BY <1>1, <1>2 DEF FirstPair, PairAt
<1>4. BlankLine(a) = p /\ BlankLine(a \o b) = p
  BY <1>1, <1>2, <1>3, BlankLineIs
<1>5. ~Pairless(a \o b)
  BY <1>3 DEF Pairless, FirstPair
<1>6. SubSeq(a \o b, 1, p - 1) = SubSeq(a, 1, p - 1)
  BY <1>1, <1>2, PrefixConcat
<1>7. SubSeq(a \o b, p + 2, Len(a \o b)) = SubSeq(a, p + 2, Len(a)) \o b
  <2>1. p + 2 \in 1..(Len(a) + 1)
    BY <1>1, <1>2
  <2> QED BY <2>1, SuffixConcat
<1> QED BY <1>4, <1>5, <1>6, <1>7 DEF Block, Beyond

(* Drain answers events and a text.                                        *)
LEMMA DrainType ==
  ASSUME NEW s \in Text
  PROVE  Drain(s).events \in Seq(Events) /\ Drain(s).rest \in Text
BY DrainDef DEF Drained

(* Events in a row.                                                        *)
LEMMA EventsAssociative ==
  ASSUME NEW a \in Seq(Events), NEW b \in Seq(Events), NEW c \in Seq(Events)
  PROVE  (a \o b) \o c = a \o (b \o c)
BY ConcatAssociative

(* A text can be drained in two parts: the rest of the first goes before   *)
(* the second.                                                             *)
LEMMA DrainConcat ==
  ASSUME NEW s \in Text, NEW b \in Text
  PROVE  Drain(s \o b) = [events |-> Drain(s).events \o Drain(Drain(s).rest \o b).events,
                          rest   |-> Drain(Drain(s).rest \o b).rest]
<1> DEFINE Claim(a) ==
             Drain(a \o b) = [events |-> Drain(a).events \o Drain(Drain(a).rest \o b).events,
                              rest   |-> Drain(Drain(a).rest \o b).rest]
           P == {a \in Text : Claim(a)}
<1>1. ASSUME NEW a \in Text, \A t \in Text : Len(t) < Len(a) => t \in P
      PROVE  Claim(a)
  <2>0. a \o b \in Text /\ Drain(a \o b) \in Drained
    BY TextConcat, DrainDef
  <2>1. CASE Pairless(a)
    <3>1. Drain(a).events = <<>> /\ Drain(a).rest = a
      BY <2>1, DrainDef
    <3>2. Drain(a \o b) = [events |-> <<>> \o Drain(a \o b).events, rest |-> Drain(a \o b).rest]
      BY <2>0 DEF Drained
    <3> QED BY <3>1, <3>2
  <2>2. CASE ~Pairless(a)
    <3> DEFINE c == Beyond(a)
               e == TrimmedBlock(Block(a))
    <3>1. c \in Text /\ e \in Seq(Events) /\ Len(c) < Len(a)
      <4>1. BlankLine(a) # 0
        BY <2>2, BlankLineIs DEF FirstPair
      <4> QED BY <4>1, BlockCut, TrimmedBlockType
    <3>2. /\ ~Pairless(a \o b) /\ Block(a \o b) = Block(a) /\ Beyond(a \o b) = c \o b
      BY <2>2, PairStays
    <3>3. Drain(a \o b) = [events |-> e \o Drain(c \o b).events, rest |-> Drain(c \o b).rest]
      BY <2>0, <3>2, DrainDef
    <3>4. Drain(a).events = e \o Drain(c).events /\ Drain(a).rest = Drain(c).rest
      BY <2>2, DrainDef
    <3>5. Claim(c)
      BY <1>1, <3>1
    <3>6. PICK d, f, q : d = Drain(c) /\ f = Drain(d.rest \o b) /\ q = Drain(c \o b)
      OBVIOUS
    <3>7. d.events \in Seq(Events) /\ d.rest \in Text /\ f.events \in Seq(Events)
      <4>1. d.events \in Seq(Events) /\ d.rest \in Text
        BY <3>1, <3>6, DrainType
      <4>2. d.rest \o b \in Text
        BY <4>1, TextConcat
      <4> QED BY <3>6, <4>1, <4>2, DrainType
    <3>8. q = [events |-> d.events \o f.events, rest |-> f.rest]
      BY <3>5, <3>6
    <3>9. q.events = d.events \o f.events /\ q.rest = f.rest
      BY <3>8
    <3>10. (e \o d.events) \o f.events = e \o (d.events \o f.events)
      BY <3>1, <3>7, EventsAssociative
    <3>11. Drain(a).rest = d.rest /\ Drain(a).events = e \o d.events
      BY <3>4, <3>6
    <3>12. Drain(a \o b) = [events |-> e \o q.events, rest |-> q.rest]
      BY <3>3, <3>6
    <3>13. Drain(a \o b) = [events |-> (e \o d.events) \o f.events, rest |-> f.rest]
      BY <3>9, <3>10, <3>12
    <3>14. f = Drain(Drain(a).rest \o b)
      BY <3>6, <3>11
    <3> HIDE DEF c, e
    <3> QED BY <3>11, <3>13, <3>14
  <2> QED BY <2>1, <2>2
<1>2. ASSUME NEW a \in Text, \A t \in Text : Len(t) < Len(a) => t \in P PROVE a \in P
  BY <1>1, <1>2
<1> HIDE DEF P
<1>3. Text \subseteq P
  BY <1>2, LengthInduction DEF Text
<1> QED BY <1>3 DEF P

(* The rest has no complete block, and no CR if the text had none.         *)
LEMMA DrainRest ==
  ASSUME NEW s \in Text
  PROVE  Pairless(Drain(s).rest) /\ (s \in Plain => Drain(s).rest \in Plain)
<1> DEFINE P == {a \in Text : Pairless(Drain(a).rest) /\ (a \in Plain => Drain(a).rest \in Plain)}
<1>1. ASSUME NEW a \in Text, \A t \in Text : Len(t) < Len(a) => t \in P PROVE a \in P
  <2>1. CASE Pairless(a)
    BY <2>1, DrainDef
  <2>2. CASE ~Pairless(a)
    <3>1. BlankLine(a) \in 1..(Len(a) - 1) /\ Len(a) \in Nat
      BY <2>2, BlankLineIs, TextLength DEF FirstPair
    <3>2. Beyond(a) \in Text /\ Len(Beyond(a)) < Len(a)
      BY <3>1, BlockCut
    <3>3. a \in Plain => Beyond(a) \in Plain
      BY <3>1 DEF Beyond, Plain
    <3>4. Drain(a).rest = Drain(Beyond(a)).rest
      BY <2>2, DrainDef
    <3> QED BY <1>1, <3>2, <3>3, <3>4
  <2> QED BY <2>1, <2>2
<1> HIDE DEF P
<1>2. Text \subseteq P
  BY <1>1, LengthInduction DEF Text
<1> QED BY <1>2 DEF P

(* A text of one line.                                                     *)
LEMMA LastLine ==
  ASSUME NEW f, NEW s \in Text, LineEnd(s) = Len(s) + 1
  PROVE  FirstLine(s) = s /\ Values(f, s) = ValueIn(f, s)
<1>1. Len(s) \in Nat /\ LineEnd(s) > Len(s) /\ LineEnd(s) - 1 = Len(s)
  BY TextLength
<1>2. FirstLine(s) = s
  BY <1>1, SubSeqFull DEF FirstLine, Text
<1>3. Values(f, s) = ValueIn(f, s) \o <<>>
  BY <1>1, <1>2, ValuesDef
<1> QED BY <1>2, <1>3, ValueInType

(* A text of several lines.                                                *)
LEMMA MoreLines ==
  ASSUME NEW f, NEW s \in Text, LineEnd(s) <= Len(s)
  PROVE  Values(f, s) = ValueIn(f, FirstLine(s)) \o Values(f, Others(s))
<1>1. ~(LineEnd(s) > Len(s))
  BY LineEndIs, TextLength
<1> QED BY <1>1, ValuesDef

(* No text, no values.                                                     *)
LEMMA ValuesEmpty ==
  ASSUME NEW f
  PROVE  Values(f, <<>>) = <<>>
<1>1. <<>> \in Text /\ Len(<<>>) = 0
  BY DEF Text
<1>2. LineEnd(<<>>) = Len(<<>>) + 1
  BY <1>1, LineEndIs
<1>3. Values(f, <<>>) = ValueIn(f, <<>>)
  BY <1>1, <1>2, LastLine
<1> QED BY <1>3 DEF ValueIn

(* A line end before the first line adds no value.                         *)
LEMMA ValuesLeadingLf ==
  ASSUME NEW f, NEW s \in Text, s # <<>>, s[1] = "lf"
  PROVE  Tail(s) \in Text /\ Values(f, s) = Values(f, Tail(s))
<1>1. Len(s) \in Nat \ {0}
  BY TextLength
<1>2. LineEnd(s) = 1
  BY <1>1, LineEndUnique
<1>3. FirstLine(s) = <<>>
  BY <1>2, SubSeqEmpty DEF FirstLine
<1>4. Others(s) = Tail(s) /\ Tail(s) \in Text
  BY <1>2, TailIsSubSeq, HeadTailProperties DEF Others, Text
<1>5. Values(f, s) = ValueIn(f, <<>>) \o Values(f, Tail(s))
  <2>1. LineEnd(s) <= Len(s)
    BY <1>1, <1>2
  <2>2. Values(f, s) = ValueIn(f, FirstLine(s)) \o Values(f, Others(s))
    BY <2>1, MoreLines
  <2> QED BY <1>3, <1>4, <2>2
<1>6. ValueIn(f, <<>>) = <<>>
  BY DEF ValueIn
<1>7. Values(f, Tail(s)) \in Seq(Text)
  BY <1>4, ValuesDef
<1> QED BY <1>4, <1>5, <1>6, <1>7

(* A line end after the last line adds no value.                           *)
LEMMA ValuesTrailingLf ==
  ASSUME NEW f, NEW s \in Text
  PROVE  s \o <<"lf">> \in Text /\ Values(f, s \o <<"lf">>) = Values(f, s)
<1> DEFINE L == <<"lf">>
           P == {t \in Text : Values(f, t \o L) = Values(f, t)}
<1>0. L \in Text /\ Len(L) = 1 /\ L[1] = "lf"
  BY DEF Text, Tokens
<1> HIDE DEF L
<1>1. ASSUME NEW t \in Text, \A u \in Text : Len(u) < Len(t) => u \in P PROVE Values(f, t \o L) = Values(f, t)
  <2>1. /\ t \o L \in Text /\ Len(t) \in Nat /\ Len(t \o L) = Len(t) + 1
        /\ \A i \in 1..Len(t) : (t \o L)[i] = t[i]
        /\ (t \o L)[Len(t) + 1] = "lf"
    <3>1. t \o L \in Text /\ Len(t) \in Nat /\ Len(t \o L) = Len(t) + Len(L)
      BY <1>0, TextConcat, TextLength
    <3>2. \A i \in 1..(Len(t) + Len(L)) : (t \o L)[i] = IF i <= Len(t) THEN t[i] ELSE L[i - Len(t)]
      BY <1>0, TextConcat
    <3>3. (t \o L)[Len(t) + 1] = L[1]
      BY <1>0, <3>1, <3>2
    <3>4. \A i \in 1..Len(t) : (t \o L)[i] = t[i]
      BY <1>0, <3>1, <3>2
    <3> QED BY <1>0, <3>1, <3>3, <3>4
  <2>2. /\ LineEnd(t) \in 1..(Len(t) + 1)
        /\ LineEnd(t) <= Len(t) => t[LineEnd(t)] = "lf"
        /\ \A j \in 1..(LineEnd(t) - 1) : t[j] # "lf"
    BY LineEndIs
  <2>3. LineEnd(t \o L) = LineEnd(t)
    <3>1. LineEnd(t) \in 1..(Len(t \o L) + 1) /\ (t \o L)[LineEnd(t)] = "lf"
      BY <2>1, <2>2
    <3>2. \A j \in 1..(LineEnd(t) - 1) : (t \o L)[j] # "lf"
      BY <2>1, <2>2
    <3> QED BY <2>1, <3>1, <3>2, LineEndUnique
  <2>4. FirstLine(t \o L) = FirstLine(t)
    BY <1>0, <2>1, <2>2, <2>3, PrefixConcat DEF FirstLine
  <2>5. Values(f, t \o L) = ValueIn(f, FirstLine(t)) \o Values(f, Others(t \o L))
    <3>1. LineEnd(t \o L) <= Len(t \o L)
      BY <2>1, <2>2, <2>3
    <3>2. Values(f, t \o L) = ValueIn(f, FirstLine(t \o L)) \o Values(f, Others(t \o L))
      BY <2>1, <3>1, MoreLines
    <3> QED BY <2>4, <3>2
  <2>6. CASE LineEnd(t) <= Len(t)
    <3>1. Others(t) \in Text /\ Len(Others(t)) < Len(t)
      BY <2>6, LineCut
    <3>2. Others(t \o L) = Others(t) \o L
      <4>1. LineEnd(t) + 1 \in 1..(Len(t) + 1)
        BY <2>1, <2>2, <2>6
      <4>2. SubSeq(t \o L, LineEnd(t) + 1, Len(t \o L)) = SubSeq(t, LineEnd(t) + 1, Len(t)) \o L
        BY <1>0, <4>1, SuffixConcat
      <4> QED BY <2>3, <4>2 DEF Others
    <3>3. Values(f, Others(t) \o L) = Values(f, Others(t))
      BY <1>1, <3>1
    <3> QED BY <2>5, <2>6, <3>2, <3>3, MoreLines
  <2>7. CASE LineEnd(t) = Len(t) + 1
    <3>1. FirstLine(t) = t /\ Values(f, t) = ValueIn(f, t)
      BY <2>7, LastLine
    <3>2. Others(t \o L) = <<>>
      BY <2>1, <2>3, <2>7, SubSeqEmpty DEF Others
    <3>3. Values(f, t \o L) = ValueIn(f, t) \o <<>>
      BY <2>5, <3>1, <3>2, ValuesEmpty
    <3> QED BY <3>1, <3>3, ValueInType
  <2> QED BY <2>1, <2>2, <2>6, <2>7
<1>2. ASSUME NEW t \in Text, \A u \in Text : Len(u) < Len(t) => u \in P PROVE t \in P
  BY <1>1, <1>2
<1>3. Text \subseteq P
  <2> HIDE DEF P
  <2> QED BY <1>2, LengthInduction DEF Text
<1> QED BY <1>0, <1>3, TextConcat DEF L

(* The event of a block depends on the values of its fields only.          *)
LEMMA SameValues ==
  ASSUME NEW s, NEW t, \A f : Values(f, s) = Values(f, t)
  PROVE  ParseBlock(s) = ParseBlock(t)
BY DEF ParseBlock

(* A token to be trimmed at the end can be dropped before.                 *)
LEMMA TrimFront ==
  ASSUME NEW s \in Text, s # <<>>, NEW from, Last(s) \in from
  PROVE  Trim(s, from) = Trim(Front(s), from)
<1> DEFINE f == Front(s)
<1>1. /\ Len(s) \in Nat \ {0} /\ f \in Text /\ Len(f) = Len(s) - 1
      /\ \A i \in 1..(Len(s) - 1) : f[i] = s[i]
      /\ s[Len(s)] \in from
  BY FrontLast
<1> HIDE DEF f
<1>2. CASE \A i \in 1..Len(s) : s[i] \in from
  <2>1. \A i \in 1..Len(f) : f[i] \in from
    BY <1>1, <1>2
  <2> QED BY <1>1, <1>2, <2>1, TrimIs DEF f
<1>3. CASE ~\A i \in 1..Len(s) : s[i] \in from
  <2>1. PICK a, b \in 1..Len(s) : Trims(s, from, a, b)
    BY <1>3, TrimIs
  <2>2. a \in 1..Len(f) /\ b \in a..Len(f)
    BY <1>1, <2>1 DEF Trims
  <2>3. Trims(f, from, a, b)
    BY <1>1, <2>1, <2>2 DEF Trims
  <2>4. SubSeq(f, a, b) = SubSeq(s, a, b)
    <3>1. s = f \o <<Last(s)>> /\ <<Last(s)>> \in Text
      BY FrontLast DEF f, Text
    <3> QED BY <1>1, <2>2, <3>1, SubSeqOfConcat1 DEF Text
  <2>5. Trim(s, from) = SubSeq(s, a, b)
    BY <2>1, TrimIs
  <2>6. Trim(f, from) = SubSeq(f, a, b)
    BY <1>1, <2>3, TrimIs
  <2> QED BY <2>4, <2>5, <2>6 DEF f
<1> QED BY <1>2, <1>3

(* And one at the beginning.                                               *)
LEMMA TrimTail ==
  ASSUME NEW s \in Text, s # <<>>, NEW from, s[1] \in from
  PROVE  Trim(s, from) = Trim(Tail(s), from)
<1> DEFINE f == Tail(s)
<1>1. /\ Len(s) \in Nat \ {0} /\ f \in Text /\ Len(f) = Len(s) - 1
      /\ \A i \in 1..(Len(s) - 1) : f[i] = s[i + 1]
      /\ f = SubSeq(s, 2, Len(s))
  BY TextLength, HeadTailProperties, TailIsSubSeq DEF Text
<1> HIDE DEF f
<1>2. CASE \A i \in 1..Len(s) : s[i] \in from
  <2>1. \A i \in 1..Len(f) : f[i] \in from
    BY <1>1, <1>2
  <2> QED BY <1>1, <1>2, <2>1, TrimIs DEF f
<1>3. CASE ~\A i \in 1..Len(s) : s[i] \in from
  <2>1. PICK a, b \in 1..Len(s) : Trims(s, from, a, b)
    BY <1>3, TrimIs
  <2>2. a - 1 \in 1..Len(f) /\ b - 1 \in (a - 1)..Len(f)
    BY <1>1, <2>1 DEF Trims
  <2>3. Trims(f, from, a - 1, b - 1)
    BY <1>1, <2>1, <2>2 DEF Trims
  <2>4. SubSeq(f, a - 1, b - 1) = SubSeq(s, a, b)
    <3>1. /\ SubSeq(f, a - 1, b - 1) \in Text /\ Len(SubSeq(f, a - 1, b - 1)) = (b - 1) - (a - 1) + 1
          /\ \A i \in 1..((b - 1) - (a - 1) + 1) : SubSeq(f, a - 1, b - 1)[i] = f[(a - 1) + i - 1]
      <4>1. a - 1 \in 1..(Len(f) + 1) /\ b - 1 \in ((a - 1) - 1)..Len(f)
        BY <1>1, <2>2
      <4> QED BY <1>1, <4>1, TextSub
    <3>2. /\ SubSeq(s, a, b) \in Text /\ Len(SubSeq(s, a, b)) = b - a + 1
          /\ \A i \in 1..(b - a + 1) : SubSeq(s, a, b)[i] = s[a + i - 1]
      <4>1. a \in 1..(Len(s) + 1) /\ b \in (a - 1)..Len(s)
        BY <1>1, <2>1 DEF Trims
      <4> QED BY <4>1, TextSub
    <3>3. a \in Nat /\ b \in Nat
      BY <2>1
    <3>4. \A i \in 1..(b - a + 1) : SubSeq(f, a - 1, b - 1)[i] = SubSeq(s, a, b)[i]
      BY <1>1, <2>2, <3>1, <3>2, <3>3
    <3>5. Len(SubSeq(f, a - 1, b - 1)) = b - a + 1
      BY <3>1, <3>3
    <3> QED BY <3>1, <3>2, <3>4, <3>5, TextEqual
  <2>5. Trim(s, from) = SubSeq(s, a, b)
    BY <2>1, TrimIs
  <2>6. Trim(f, from) = SubSeq(f, a - 1, b - 1)
    <3>1. PICK c, d : c = a - 1 /\ d = b - 1
      OBVIOUS
    <3>2. Trims(f, from, c, d)
      BY <2>3, <3>1
    <3>3. ASSUME NEW u \in Text PROVE \A x, y : Trims(u, from, x, y) => Trim(u, from) = SubSeq(u, x, y)
      BY TrimIs
    <3>4. f \in Text
      BY <1>1
    <3>5. Trim(f, from) = SubSeq(f, c, d)
      BY <3>2, <3>3, <3>4
    <3> QED BY <3>1, <3>5
  <2> QED BY <2>4, <2>5, <2>6 DEF f
<1> QED BY <1>2, <1>3

(* Line ends around a block add no value.                                  *)
LEMMA ValuesTrimmed ==
  ASSUME NEW f, NEW s \in Text
  PROVE  Values(f, s) = Values(f, Trim(s, {"lf"}))
<1> DEFINE P == {t \in Text : Values(f, t) = Values(f, Trim(t, {"lf"}))}
<1>1. ASSUME NEW t \in Text, \A u \in Text : Len(u) < Len(t) => u \in P
      PROVE  Values(f, t) = Values(f, Trim(t, {"lf"}))
  <2>1. CASE t = <<>>
    <3>1. Trim(t, {"lf"}) = <<>>
      BY <2>1, TrimIs, TextLength
    <3> QED BY <2>1, <3>1
  <2>2. CASE t # <<>> /\ t[1] = "lf"
    <3>1. Tail(t) \in Text /\ Len(Tail(t)) < Len(t)
      BY <2>2, TextLength, HeadTailProperties DEF Text
    <3>2. Tail(t) \in P
      BY <1>1, <3>1
    <3>3. Values(f, t) = Values(f, Tail(t))
      BY <2>2, ValuesLeadingLf
    <3>4. Trim(t, {"lf"}) = Trim(Tail(t), {"lf"})
      BY <2>2, TrimTail
    <3> QED BY <3>2, <3>3, <3>4
  <2>3. CASE t # <<>> /\ Last(t) = "lf"
    <3>1. Front(t) \in Text /\ Len(Front(t)) < Len(t) /\ t = Front(t) \o <<"lf">>
      BY <2>3, FrontLast
    <3>2. Front(t) \in P
      BY <1>1, <3>1
    <3>3. Values(f, t) = Values(f, Front(t))
      BY <3>1, ValuesTrailingLf
    <3>4. Trim(t, {"lf"}) = Trim(Front(t), {"lf"})
      BY <2>3, TrimFront
    <3> QED BY <3>2, <3>3, <3>4
  <2>4. CASE t # <<>> /\ t[1] # "lf" /\ Last(t) # "lf"
    <3>1. Len(t) \in Nat \ {0} /\ t[Len(t)] # "lf"
      BY <2>4, FrontLast
    <3>2. Trims(t, {"lf"}, 1, Len(t))
      BY <2>4, <3>1 DEF Trims
    <3>3. Trim(t, {"lf"}) = SubSeq(t, 1, Len(t))
      BY <3>2, TrimIs
    <3> QED BY <3>3, SubSeqFull DEF Text
  <2> QED BY <2>1, <2>2, <2>3, <2>4
<1>2. ASSUME NEW t \in Text, \A u \in Text : Len(u) < Len(t) => u \in P PROVE t \in P
  BY <1>1, <1>2
<1>3. Text \subseteq P
  <2> HIDE DEF P
  <2> QED BY <1>2, LengthInduction DEF Text
<1> QED BY <1>3

(* finish, which does not trim, reads a block without blanks at its ends as*)
(* the trimmed one.                                                        *)
LEMMA FinishIsTrimmed ==
  ASSUME NEW s \in Text, ~BlankAtAnEnd(s)
  PROVE  ParseBlock(s) = TrimmedBlock(s)
<1> DEFINE wide == {"lf", "blank"}
<1>1. Trim(s, wide) = Trim(s, {"lf"})
  <2>1. CASE \A i \in 1..Len(s) : s[i] \in {"lf"}
    <3>1. \A i \in 1..Len(s) : s[i] \in wide
      BY <2>1
    <3> QED BY <2>1, <3>1, TrimIs
  <2>2. CASE ~\A i \in 1..Len(s) : s[i] \in {"lf"}
    <3>1. PICK a, b \in 1..Len(s) : Trims(s, {"lf"}, a, b)
      BY <2>2, TrimIs
    <3> DEFINE inner == Trim(s, {"lf"})
    <3>2. inner = SubSeq(s, a, b) /\ a \in Nat /\ b \in Nat /\ a <= b
      <4>1. inner = SubSeq(s, a, b)
        BY <3>1, TrimIs
      <4>2. a \in Nat /\ b \in Nat /\ a <= b
        BY <3>1, TextLength DEF Trims
      <4> QED BY <4>1, <4>2
    <3>3. /\ inner \in Text /\ Len(inner) = b - a + 1
          /\ \A i \in 1..(b - a + 1) : inner[i] = s[a + i - 1]
      <4>1. a \in 1..(Len(s) + 1) /\ b \in (a - 1)..Len(s)
        BY <3>1, TextLength DEF Trims
      <4> QED BY <3>2, <4>1, TextSub
    <3>4. inner # <<>> /\ inner[1] = s[a] /\ Last(inner) = s[b]
      BY <3>2, <3>3, TextLength DEF Last
    <3>5. s[a] # "blank" /\ s[b] # "blank"
      BY <3>4 DEF BlankAtAnEnd
    <3>6. Trims(s, wide, a, b)
      BY <3>1, <3>5 DEF Trims
    <3> QED BY <3>2, <3>6, TrimIs
  <2> QED BY <2>1, <2>2
<1>2. ParseBlock(s) = ParseBlock(Trim(s, {"lf"}))
  BY ValuesTrimmed, SameValues
<1> QED BY <1>1, <1>2 DEF TrimmedBlock

(* A line that begins with the name of f.                                  *)
Begins(f, s, i) == i \in 1..Len(s) /\ s[i] = f /\ (i = 1 \/ s[i - 1] = "lf")

(* A block has a value of f exactly if one of its lines begins with f.     *)
LEMMA FieldFound ==
  ASSUME NEW f \in Fields, NEW s \in Text
  PROVE  Values(f, s) # <<>> <=> \E i \in 1..Len(s) : Begins(f, s, i)
<1> DEFINE Claim(t) == Values(f, t) # <<>> <=> \E i \in 1..Len(t) : Begins(f, t, i)
           P == {t \in Text : Claim(t)}
<1>0. f # "lf" /\ f \in Tokens
  BY DEF Fields, Tokens
<1>1. ASSUME NEW t \in Text, \A u \in Text : Len(u) < Len(t) => u \in P PROVE Claim(t)
  <2> DEFINE end == LineEnd(t)
             own == ValueIn(f, FirstLine(t))
  <2>1. /\ Len(t) \in Nat /\ end \in 1..(Len(t) + 1)
        /\ end <= Len(t) => t[end] = "lf"
        /\ \A j \in 1..(end - 1) : t[j] # "lf"
    BY LineEndIs, TextLength
  <2>2. /\ FirstLine(t) \in Text /\ Len(FirstLine(t)) = end - 1
        /\ \A i \in 1..(end - 1) : FirstLine(t)[i] = t[i]
    <3>1. 1 \in 1..(Len(t) + 1) /\ end - 1 \in (1 - 1)..Len(t)
      BY <2>1
    <3>2. /\ SubSeq(t, 1, end - 1) \in Text /\ Len(SubSeq(t, 1, end - 1)) = (end - 1) - 1 + 1
          /\ \A i \in 1..((end - 1) - 1 + 1) : SubSeq(t, 1, end - 1)[i] = t[1 + i - 1]
      BY <3>1, TextSub
    <3> QED BY <2>1, <3>2 DEF FirstLine
  <2> HIDE DEF end
  <2>3. own # <<>> <=> end > 1 /\ t[1] = f
    <3>1. FirstLine(t) # <<>> <=> end > 1
      BY <2>1, <2>2, TextLength
    <3>2. end > 1 => Head(FirstLine(t)) = t[1]
      <4>1. end > 1 => FirstLine(t)[1] = t[1] /\ FirstLine(t) # <<>>
        BY <2>1, <2>2, <3>1
      <4> QED BY <2>2, <4>1, FrontLast
    <3> QED BY <3>1, <3>2 DEF ValueIn
  <2>4. own # <<>> <=> Begins(f, t, 1)
    BY <1>0, <2>1, <2>3 DEF Begins
  <2>5. \A i \in 2..end : ~Begins(f, t, i)
    BY <1>0, <2>1 DEF Begins
  <2>6. CASE end = Len(t) + 1
    <3>1. Values(f, t) = own
      BY <2>6, LastLine DEF end
    <3>2. \A i \in 1..Len(t) : Begins(f, t, i) => i = 1
      BY <2>1, <2>5, <2>6
    <3>3. Begins(f, t, 1) => 1 \in 1..Len(t)
      BY DEF Begins
    <3> QED BY <2>4, <3>1, <3>2, <3>3
  <2>7. CASE end <= Len(t)
    <3> DEFINE u == Others(t)
    <3>1. u \in Text /\ Len(u) = Len(t) - end /\ Len(u) < Len(t)
      BY <2>7, LineCut DEF end
    <3>2. \A i \in 1..(Len(t) - end) : u[i] = t[end + i]
      <4>1. end + 1 \in 1..(Len(t) + 1) /\ Len(t) \in ((end + 1) - 1)..Len(t)
        BY <2>1, <2>7
      <4>2. \A i \in 1..(Len(t) - (end + 1) + 1) : SubSeq(t, end + 1, Len(t))[i] = t[(end + 1) + i - 1]
        BY <4>1, TextSub
      <4> QED BY <2>1, <4>2 DEF Others, end
    <3>3. Claim(u)
      BY <1>1, <3>1
    <3> HIDE DEF u
    <3>4. \A i \in 1..Len(u) : Begins(f, u, i) <=> Begins(f, t, end + i)
      <4> TAKE i \in 1..Len(u)
      <4>1. u[i] = t[end + i] /\ end + i \in 1..Len(t) /\ end + i # 1
        BY <2>1, <2>7, <3>1, <3>2
      <4>2. i # 1 => u[i - 1] = t[(end + i) - 1]
        BY <2>1, <2>7, <3>1, <3>2
      <4>3. i = 1 => t[(end + i) - 1] = "lf"
        BY <2>1, <2>7
      <4> QED BY <4>1, <4>2, <4>3 DEF Begins
    <3>5. (\E i \in 1..Len(u) : Begins(f, u, i)) <=> (\E i \in (end + 1)..Len(t) : Begins(f, t, i))
      <4>1. ASSUME NEW i \in 1..Len(u), Begins(f, u, i) PROVE end + i \in (end + 1)..Len(t) /\ Begins(f, t, end + i)
        BY <2>1, <3>1, <3>4, <4>1
      <4>2. ASSUME NEW i \in (end + 1)..Len(t), Begins(f, t, i) PROVE i - end \in 1..Len(u) /\ Begins(f, u, i - end)
        <5>1. i - end \in 1..Len(u) /\ end + (i - end) = i
          BY <2>1, <3>1
        <5> QED BY <3>4, <4>2, <5>1
      <4> QED BY <4>1, <4>2
    <3>6. (\E i \in 1..Len(t) : Begins(f, t, i))
            <=> Begins(f, t, 1) \/ \E i \in (end + 1)..Len(t) : Begins(f, t, i)
      <4>1. Begins(f, t, 1) => 1 \in 1..Len(t)
        BY DEF Begins
      <4>2. \A i \in 1..Len(t) : Begins(f, t, i) => i = 1 \/ i \in (end + 1)..Len(t)
        BY <2>1, <2>5
      <4>3. \A i \in (end + 1)..Len(t) : i \in 1..Len(t)
        BY <2>1
      <4> QED BY <4>1, <4>2, <4>3
    <3>7. Values(f, t) = own \o Values(f, u)
      BY <2>7, MoreLines DEF end, u
    <3>8. own \in Seq(Text) /\ Values(f, u) \in Seq(Text)
      BY <2>2, <3>1, ValuesDef, ValueInType
    <3>9. Values(f, t) # <<>> <=> own # <<>> \/ Values(f, u) # <<>>
      BY <3>7, <3>8, ConcatEqualIffEmpty
    <3> QED BY <2>4, <3>3, <3>5, <3>6, <3>9
  <2> QED BY <2>1, <2>6, <2>7
<1>2. ASSUME NEW t \in Text, \A u \in Text : Len(u) < Len(t) => u \in P PROVE t \in P
  BY <1>1, <1>2
<1>3. Text \subseteq P
  <2> HIDE DEF P
  <2> QED BY <1>2, LengthInduction DEF Text
<1> QED BY <1>3

(* finish does not give more than the trimmed block.                       *)
LEMMA LengthOfFinish ==
  ASSUME NEW s \in Text
  PROVE  Len(ParseBlock(s)) <= Len(TrimmedBlock(s))
<1> DEFINE wide == {"lf", "blank"}
<1>1. PICK t : t = Trim(s, wide)
  OBVIOUS
<1>2. t \in Text /\ TrimmedBlock(s) = ParseBlock(t)
  BY <1>1, TrimIs DEF TrimmedBlock
<1>3. ASSUME NEW f \in Fields, Values(f, s) # <<>> PROVE Values(f, t) # <<>>
  <2>1. PICK i \in 1..Len(s) : Begins(f, s, i)
    BY <1>3, FieldFound
  <2>2. f \notin wide
    BY DEF Fields
  <2>3. ~\A j \in 1..Len(s) : s[j] \in wide
    BY <2>1, <2>2 DEF Begins
  <2>4. PICK a, b \in 1..Len(s) : Trims(s, wide, a, b)
    BY <2>3, TrimIs
  <2>5. t = SubSeq(s, a, b)
    BY <1>1, <2>4, TrimIs
  <2>6. Len(s) \in Nat /\ a \in 1..Len(s) /\ b \in a..Len(s) /\ a <= i /\ i <= b
    BY <2>1, <2>2, <2>4, TextLength DEF Trims, Begins
  <2>7. Len(t) = b - a + 1 /\ \A j \in 1..(b - a + 1) : t[j] = s[a + j - 1]
    <3>1. a \in 1..(Len(s) + 1) /\ b \in (a - 1)..Len(s)
      BY <2>6
    <3> QED BY <2>5, <3>1, TextSub
  <2>8. i - a + 1 \in 1..Len(t) /\ t[i - a + 1] = f
    <3>1. i - a + 1 \in 1..(b - a + 1) /\ a + (i - a + 1) - 1 = i
      BY <2>1, <2>6
    <3> QED BY <2>1, <2>7, <3>1 DEF Begins
  <2>9. i - a + 1 = 1 \/ t[(i - a + 1) - 1] = "lf"
    <3> SUFFICES ASSUME i # a PROVE t[(i - a + 1) - 1] = "lf"
      BY <2>1, <2>6
    <3>1. s[i - 1] = "lf"
      BY <2>1, <2>6 DEF Begins
    <3>2. (i - a + 1) - 1 \in 1..(b - a + 1) /\ a + ((i - a + 1) - 1) - 1 = i - 1
      BY <2>1, <2>6
    <3> QED BY <2>7, <3>1, <3>2
  <2>10. Begins(f, t, i - a + 1)
    BY <2>8, <2>9 DEF Begins
  <2> QED BY <1>2, <2>8, <2>10, FieldFound
<1>4. ParseBlock(s) # <<>> => ParseBlock(t) # <<>>
  <2> SUFFICES ASSUME ParseBlock(s) # <<>> PROVE ParseBlock(t) # <<>>
    OBVIOUS
  <2>1. PICK f \in Fields : Values(f, s) # <<>>
    BY DEF ParseBlock
  <2>2. Values(f, t) # <<>>
    BY <1>3, <2>1
  <2> QED BY <2>2 DEF ParseBlock
<1>5. /\ Len(ParseBlock(s)) \in 0..1 /\ ParseBlock(s) \in Seq(Events)
      /\ Len(ParseBlock(t)) \in 0..1 /\ ParseBlock(t) \in Seq(Events)
  BY <1>2, ParseBlockType
<1>6. Len(ParseBlock(s)) = 1 => ParseBlock(s) # <<>>
  BY <1>5
<1>7. ParseBlock(t) # <<>> => Len(ParseBlock(t)) # 0
  BY <1>5
<1> QED BY <1>2, <1>4, <1>5, <1>6, <1>7

(* A block without a token has no event.                                   *)
LEMMA EmptyBlock == TrimmedBlock(<<>>) = <<>>
<1>1. <<>> \in Text
  BY DEF Text
<1>2. Trim(<<>>, {"lf", "blank"}) = <<>>
  BY <1>1, TrimIs
<1> QED BY <1>2, ValuesEmpty DEF TrimmedBlock, ParseBlock

(* One more line end after an unfinished block ends it, or is trimmed from *)
(* it: what the block says stays the same.                                 *)
LEMMA LineEndAfterRest ==
  ASSUME NEW r \in Text, Pairless(r)
  PROVE  LET d == Drain(r \o <<"lf">>) IN d.events \o TrimmedBlock(d.rest) = TrimmedBlock(r)
<1> DEFINE L == <<"lf">>
           u == r \o L
<1>1. /\ L \in Text /\ L # <<>> /\ Len(L) = 1 /\ L[1] = "lf" /\ <<>> \in Text
      /\ "lf" \in {"lf", "blank"}
  BY DEF Text, Tokens
<1>2. /\ u \in Text /\ Len(r) \in Nat /\ Len(u) = Len(r) + 1
      /\ \A i \in 1..(Len(r) + 1) : u[i] = IF i <= Len(r) THEN r[i] ELSE "lf"
  <2>1. \A i \in 1..(Len(r) + 1) : (r \o L)[i] = IF i <= Len(r) THEN r[i] ELSE L[i - Len(r)]
    BY <1>1, TextConcat
  <2>2. Len(r) \in Nat
    BY TextLength
  <2>3. \A i \in 1..(Len(r) + 1) : ~(i <= Len(r)) => i - Len(r) = 1
    BY <2>2
  <2> QED BY <1>1, <2>1, <2>2, <2>3, TextConcat
<1>3. CASE r # <<>> /\ Last(r) = "lf"
  <2>1. Len(r) \in Nat \ {0} /\ r[Len(r)] = "lf" /\ Front(r) \in Text
    BY <1>3, FrontLast
  <2>2. FirstPair(u, Len(r))
    BY <1>2, <2>1 DEF FirstPair, PairAt, Pairless
  <2>3. BlankLine(u) = Len(r) /\ ~Pairless(u)
    BY <1>2, <2>2, BlankLineIs DEF Pairless, FirstPair
  <2>4. Block(u) = Front(r)
    <3>1. Len(r) - 1 \in 0..Len(r)
      BY <2>1
    <3>2. SubSeq(u, 1, Len(r) - 1) = SubSeq(r, 1, Len(r) - 1)
      BY <1>1, <3>1, PrefixConcat
    <3> QED BY <2>3, <3>2 DEF Block, Front
  <2>5. Beyond(u) = <<>>
    <3>1. Len(r) + 2 \in 1..(Len(u) + 1) /\ Len(u) \in ((Len(r) + 2) - 1)..Len(u)
      BY <1>2
    <3>2. Beyond(u) \in Text /\ Len(Beyond(u)) = Len(u) - (Len(r) + 2) + 1
      BY <1>2, <2>3, <3>1, TextSub DEF Beyond
    <3> QED BY <1>2, <3>2, TextLength
  <2>6. Drain(<<>>) = [events |-> <<>>, rest |-> <<>>]
    BY <1>1, DrainDef DEF Pairless
  <2>7. Drain(u) = [events |-> TrimmedBlock(Front(r)) \o <<>>, rest |-> <<>>]
    <3>1. PICK later : later = Drain(Beyond(u))
      OBVIOUS
    <3>2. later.events = <<>> /\ later.rest = <<>>
      BY <2>5, <2>6, <3>1
    <3>3. Drain(u) = [events |-> TrimmedBlock(Block(u)) \o later.events, rest |-> later.rest]
      BY <1>2, <2>3, <3>1, DrainDef
    <3> QED BY <2>4, <3>2, <3>3
  <2>8. TrimmedBlock(Front(r)) \in Seq(Events)
    BY <2>1, TrimmedBlockType
  <2>9. TrimmedBlock(Front(r)) \o <<>> = TrimmedBlock(Front(r))
    BY <2>8, ConcatEmptySeq
  <2>10. TrimmedBlock(r) = TrimmedBlock(Front(r))
    BY <1>1, <1>3, TrimFront DEF TrimmedBlock
  <2> HIDE DEF u
  <2>11. PICK d : d = Drain(u)
    OBVIOUS
  <2>12. d.events = TrimmedBlock(r) /\ TrimmedBlock(d.rest) = <<>>
    BY <2>7, <2>9, <2>10, <2>11, EmptyBlock
  <2>13. d.events \o TrimmedBlock(d.rest) = TrimmedBlock(r)
    BY <2>8, <2>10, <2>12, ConcatEmptySeq
  <2> QED BY <2>11, <2>13 DEF u
<1>4. CASE r = <<>> \/ Last(r) # "lf"
  <2>1. Pairless(u)
    <3>1. CASE r = <<>>
      BY <1>2, <3>1 DEF Pairless
    <3>2. CASE r # <<>> /\ Last(r) # "lf"
      <4>1. Len(r) \in Nat \ {0} /\ r[Len(r)] # "lf"
        BY <3>2, FrontLast
      <4> QED BY <1>2, <4>1 DEF Pairless, PairAt
    <3> QED BY <1>4, <3>1, <3>2
  <2>2. Drain(u) = [events |-> <<>>, rest |-> u]
    BY <1>2, <2>1, DrainDef
  <2>3. u # <<>> /\ Front(u) = r /\ Last(u) = "lf"
    <3>0. PICK l : l = L
      OBVIOUS
    <3>1. l \in Text /\ l # <<>> /\ Len(l) = 1 /\ l[1] = "lf"
      BY <1>1, <3>0
    <3>2. Front(l) \in Text /\ Len(Front(l)) = 0 /\ Last(l) = "lf"
      <4>1. Front(l) \in Text /\ Len(Front(l)) = Len(l) - 1 /\ Last(l) = l[Len(l)]
        BY <3>1, FrontLast
      <4> QED BY <3>1, <4>1
    <3>3. Front(l) = <<>>
      BY <3>2, TextLength
    <3>4. r \o <<>> = r
      BY <3>1, TextConcat
    <3>5. r \o l # <<>> /\ Front(r \o l) = r \o Front(l) /\ Last(r \o l) = Last(l)
      BY <3>1, ConcatEnds
    <3> QED BY <3>0, <3>2, <3>3, <3>4, <3>5
  <2> HIDE DEF u
  <2>4. TrimmedBlock(u) = TrimmedBlock(r)
    BY <1>1, <1>2, <2>3, TrimFront DEF TrimmedBlock
  <2>5. TrimmedBlock(u) \in Seq(Events)
    BY <1>2, TrimmedBlockType
  <2>6. <<>> \o TrimmedBlock(u) = TrimmedBlock(u)
    BY <2>5, ConcatEmptySeq
  <2>7. PICK d : d = Drain(u)
    OBVIOUS
  <2>8. d.events = <<>> /\ d.rest = u
    BY <2>2, <2>7
  <2>9. d.events \o TrimmedBlock(d.rest) = TrimmedBlock(r)
    BY <2>4, <2>6, <2>8
  <2> QED BY <2>7, <2>9 DEF u
<1> QED BY <1>3, <1>4

(* What of a text is normalized while a CR at its end still waits.         *)
Settled(t) == IF EndsInCr(t) THEN Front(t) ELSE t

(* A CR at the end of a text that waits for the next chunk.                *)
LEMMA CrLast ==
  ASSUME NEW t \in Text, EndsInCr(t)
  PROVE  Front(t) \in Text /\ t = Front(t) \o <<"cr">>
BY FrontLast DEF EndsInCr

(* What is settled is a text.                                              *)
LEMMA SettledText ==
  ASSUME NEW t \in Text
  PROVE  Settled(t) \in Text
BY CrLast DEF Settled

(* A CR at the end of the text is one more line end.                       *)
LEMMA WholeText ==
  ASSUME NEW t \in Text
  PROVE  LET ended == Drain(Normalized(Settled(t)))
         IN  ParseSseEvents(t) = ended.events \o TrimmedBlock(ended.rest)
<1>1. CASE ~EndsInCr(t)
  BY <1>1 DEF Settled, ParseSseEvents
<1>2. CASE EndsInCr(t)
  <2>1. PICK f, n, L : f = Front(t) /\ n = Normalized(f) /\ L = <<"lf">>
    OBVIOUS
  <2>2. f \in Text /\ n \in Text /\ L \in Text /\ t \in Text /\ t # <<>> /\ Last(t) = "cr"
    <3>1. f \in Text
      BY <1>2, <2>1, CrLast
    <3> QED BY <1>2, <2>1, <3>1, NormalizedText DEF EndsInCr, Text, Tokens
  <2>3. Normalized(t) = n \o L
    BY <2>1, <2>2, NormalizedDef DEF NormalToken
  <2>4. PICK d : d = Drain(n)
    OBVIOUS
  <2>5. d.events \in Seq(Events) /\ d.rest \in Text /\ Pairless(d.rest)
    BY <2>2, <2>4, DrainType, DrainRest
  <2>6. PICK e : e = Drain(d.rest \o L)
    OBVIOUS
  <2>7. e.events \in Seq(Events) /\ e.rest \in Text
    <3>1. d.rest \o L \in Text
      BY <2>2, <2>5, TextConcat
    <3> QED BY <2>6, <3>1, DrainType
  <2>8. e.events \o TrimmedBlock(e.rest) = TrimmedBlock(d.rest)
    BY <2>1, <2>5, <2>6, LineEndAfterRest
  <2>9. PICK w : w = Drain(n \o L)
    OBVIOUS
  <2>10. w.events = d.events \o e.events /\ w.rest = e.rest
    <3>1. w = [events |-> d.events \o e.events, rest |-> e.rest]
      BY <2>2, <2>4, <2>6, <2>9, DrainConcat
    <3> QED BY <3>1
  <2>11. ParseSseEvents(t) = w.events \o TrimmedBlock(w.rest)
    BY <2>3, <2>9 DEF ParseSseEvents
  <2>12. (d.events \o e.events) \o TrimmedBlock(e.rest) = d.events \o TrimmedBlock(d.rest)
    <3>1. PICK a, b, c : a = d.events /\ b = e.events /\ c = TrimmedBlock(e.rest)
      OBVIOUS
    <3>2. a \in Seq(Events) /\ b \in Seq(Events) /\ c \in Seq(Events)
      BY <2>5, <2>7, <3>1, TrimmedBlockType
    <3>3. (a \o b) \o c = a \o (b \o c)
      BY <3>2, EventsAssociative
    <3> QED BY <2>8, <3>1, <3>3
  <2>13. d = Drain(Normalized(Settled(t)))
    BY <1>2, <2>1, <2>4 DEF Settled
  <2> QED BY <2>10, <2>11, <2>12, <2>13
<1> QED BY <1>1, <1>2

(* What a chunk adds to the normalized text before it.                     *)
Carried(t, c) == IF EndsInCr(t) THEN <<"cr">> \o c ELSE c
Piece(t, c)   == IF EndsInCr(c) THEN Front(Carried(t, c)) ELSE Carried(t, c)

(* A chunk adds its piece to the settled text, and no CRLF is cut between  *)
(* them.                                                                   *)
LEMMA ChunkSettles ==
  ASSUME NEW t \in Text, NEW c \in Text, c # <<>>
  PROVE  /\ t \o c \in Text /\ EndsInCr(t \o c) = EndsInCr(c)
         /\ Piece(t, c) \in Text
         /\ Normalized(Settled(t \o c)) = Normalized(Settled(t)) \o Normalized(Piece(t, c))
<1>1. PICK k, s, cr : k = Carried(t, c) /\ s = Settled(t) /\ cr = <<"cr">>
  OBVIOUS
<1>2. cr \in Text /\ s \in Text
  BY <1>1, SettledText DEF Text, Tokens
<1>3. t \o c \in Text /\ t \o c # <<>> /\ Last(t \o c) = Last(c) /\ Front(t \o c) = t \o Front(c)
  BY ConcatEnds
<1>4. k \in Text /\ k # <<>> /\ t \o c = s \o k /\ (EndsInCr(t) => Head(k) = "cr")
  <2>1. CASE EndsInCr(t)
    <3>1. k = cr \o c /\ s = Front(t) /\ t = s \o cr
      BY <1>1, <2>1, CrLast DEF Carried, Settled
    <3>2. k \in Text /\ k # <<>>
      BY <1>2, <3>1, ConcatEnds
    <3>3. t \o c = s \o k
      <4>1. (s \o cr) \o c = s \o (cr \o c)
        BY <1>2, TextAssociative
      <4> QED BY <3>1, <4>1
    <3>4. Head(k) = "cr"
      <4>1. Len(cr) = 1 /\ cr[1] = "cr" /\ Len(c) \in Nat
        BY <1>1, TextLength
      <4>2. 1 \in 1..(Len(cr) + Len(c)) /\ 1 <= Len(cr)
        BY <4>1
      <4>3. k[1] = "cr"
        BY <1>2, <3>1, <4>1, <4>2, TextConcat
      <4> QED BY <3>2, <4>3, FrontLast
    <3> QED BY <3>2, <3>3, <3>4
  <2>2. CASE ~EndsInCr(t)
    BY <1>1, <2>2 DEF Carried, Settled, EndsInCr, Text
  <2> QED BY <2>1, <2>2
<1>5. Front(t \o c) = s \o Front(k) /\ Front(k) \in Text /\ (Front(k) # <<>> => Head(Front(k)) = Head(k))
  <2>1. Front(s \o k) = s \o Front(k)
    BY <1>2, <1>4, ConcatEnds
  <2>2. /\ Len(k) \in Nat \ {0} /\ Front(k) \in Text /\ Len(Front(k)) = Len(k) - 1
        /\ \A i \in 1..(Len(k) - 1) : Front(k)[i] = k[i]
        /\ Head(k) = k[1]
    BY <1>4, FrontLast
  <2>3. Front(k) # <<>> => Head(Front(k)) = Head(k)
    <3> SUFFICES ASSUME Front(k) # <<>> PROVE Head(Front(k)) = Head(k)
      OBVIOUS
    <3>1. Len(Front(k)) \in Nat \ {0} /\ Head(Front(k)) = Front(k)[1]
      BY <2>2, FrontLast
    <3> QED BY <2>2, <3>1
  <2> QED BY <1>4, <2>1, <2>2, <2>3
<1>6. EndsInCr(t \o c) = EndsInCr(c)
  BY <1>3 DEF EndsInCr
<1>7. PICK p : p = Piece(t, c)
  OBVIOUS
<1>8. p \in Text /\ Settled(t \o c) = s \o p
  BY <1>1, <1>4, <1>5, <1>6, <1>7 DEF Settled, Piece
<1>9. Apart(s, p)
  <2>1. CASE EndsInCr(t)
    BY <1>1, <1>4, <1>5, <1>7, <2>1 DEF Apart, Piece
  <2>2. CASE ~EndsInCr(t)
    BY <1>1, <2>2 DEF Apart, Settled
  <2> QED BY <2>1, <2>2
<1>10. Normalized(s \o p) = Normalized(s) \o Normalized(p)
  BY <1>2, <1>8, <1>9, NormalizedConcat
<1> QED BY <1>1, <1>3, <1>6, <1>7, <1>8, <1>10

(* The chunks of the model are texts.                                      *)
LEMMA ChunkText ==
  ASSUME NEW n \in Nat, NEW chunk \in [1..n -> Tokens]
  PROVE  chunk \in Text /\ Len(chunk) = n
BY SeqDef DEF Text

(* What push_normalized appends is the piece of the normalized text.       *)
LEMMA NormalizedChunkIs ==
  ASSUME NEW chunk \in Text, pendingCr \in BOOLEAN
  PROVE  /\ NormalizedChunk(chunk) \in Plain
         /\ \A t : pendingCr = EndsInCr(t) => NormalizedChunk(chunk) = Normalized(Piece(t, chunk))
<1> DEFINE carried == IF pendingCr THEN <<"cr">> \o chunk ELSE chunk
           piece == IF EndsInCr(chunk) THEN Front(carried) ELSE carried
<1>1. carried \in Text /\ (chunk # <<>> => carried # <<>>)
  <2>1. <<"cr">> \in Text
    BY DEF Text, Tokens
  <2>2. <<"cr">> \o chunk \in Text /\ (chunk # <<>> => <<"cr">> \o chunk # <<>>)
    BY <2>1, TextConcat, ConcatEnds
  <2> QED BY <2>2
<1>2. NormalizedChunk(chunk) = Normalized(piece)
  BY DEF NormalizedChunk
<1>3. \A t : pendingCr = EndsInCr(t) => piece = Piece(t, chunk)
  BY DEF Piece, Carried
<1> HIDE DEF carried
<1>4. piece \in Text
  BY <1>1, FrontLast DEF EndsInCr
<1> HIDE DEF piece
<1> QED BY <1>2, <1>3, <1>4, NormalizedDef

(* push: the events of the blocks that are complete now; what is left has  *)
(* no CR and no complete block.                                            *)
LEMMA PushType ==
  ASSUME NEW chunk \in Text, buffer \in Plain, pendingCr \in BOOLEAN
  PROVE  /\ Push(chunk).events \in Seq(Events)
         /\ Push(chunk).rest \in Plain /\ BlankLine(Push(chunk).rest) = 0
<1>1. PICK b : b = buffer \o NormalizedChunk(chunk)
  OBVIOUS
<1>2. b \in Plain
  BY <1>1, NormalizedChunkIs, ConcatProperties DEF Plain
<1>3. Push(chunk) = Drain(b) /\ b \in Text
  BY <1>1, <1>2, PlainIsText DEF Push
<1>4. Pairless(Drain(b).rest) /\ Drain(b).rest \in Plain /\ Drain(b).rest \in Text
  BY <1>2, <1>3, DrainRest, DrainType
<1> QED BY <1>3, <1>4, DrainType, BlankLineIs

-----------------------------------------------------------------------------
(* Type correctness.                                                       *)

(* The line end finish may add changes nothing in the block.               *)
LEMMA FinishIs ==
  ASSUME buffer \in Text
  PROVE  Finish = ParseBlock(buffer)
<1>1. CASE pendingCr
  <2>1. ParseBlock(buffer \o <<"lf">>) = ParseBlock(buffer)
    BY ValuesTrailingLf, SameValues
  <2> QED BY <1>1, <2>1 DEF Finish
<1>2. CASE ~pendingCr
  <2>1. buffer \o <<>> = buffer
    BY TextConcat
  <2> QED BY <1>2, <2>1 DEF Finish
<1> QED BY <1>1, <1>2

(* finish gives at most one event.                                         *)
LEMMA FinishType ==
  ASSUME buffer \in Text
  PROVE  Finish \in Seq(Events) /\ Len(Finish) \in 0..1
BY FinishIs, ParseBlockType

(* Every step keeps the types.                                             *)
LEMMA TypeNext ==
  ASSUME TypeOK, [Next]_vars
  PROVE  TypeOK'
<1> USE DEF TypeOK
<1>1. CASE TakeEvent
  BY <1>1, HeadTailProperties, AppendProperties DEF TakeEvent, decoder
<1>2. CASE PushChunk
  <2>1. PICK n \in MinChunk..(MaxText - Len(text)) : \E chunk \in [1..n -> Tokens] :
          /\ text' = text \o chunk
          /\ buffer' = Push(chunk).rest /\ pending' = Push(chunk).events
          /\ pendingCr' = EndsInCr(chunk)
    BY <1>2 DEF PushChunk
  <2>2. PICK chunk \in [1..n -> Tokens] :
          /\ text' = text \o chunk
          /\ buffer' = Push(chunk).rest /\ pending' = Push(chunk).events
          /\ pendingCr' = EndsInCr(chunk)
    BY <2>1
  <2>3. n \in Nat /\ text \in Text /\ Len(text) \in Nat
    BY BoundsAssumption, TextLength DEF Text
  <2>4. chunk \in Text /\ Len(chunk) = n
    BY <2>3, ChunkText
  <2>5. text' \in Seq(Tokens) /\ Len(text') <= MaxText
    <3>1. text' \in Text /\ Len(text') = Len(text) + n
      BY <2>2, <2>3, <2>4, TextConcat
    <3> QED BY <2>3, <3>1, BoundsAssumption DEF Text
  <2>6. buffer' \in Plain /\ BlankLine(buffer') = 0 /\ pending' \in Seq(Events)
    BY <2>2, <2>4, PushType DEF Plain
  <2>7. pendingCr' \in BOOLEAN
    BY <2>2 DEF EndsInCr
  <2>8. UNCHANGED <<delivered, finished, failed, closed>>
    BY <1>2 DEF PushChunk
  <2> QED BY <2>5, <2>6, <2>7, <2>8 DEF Plain
<1>3. CASE RejectChunk
  BY <1>3 DEF RejectChunk, decoder
<1>4. CASE BodyFails
  BY <1>4 DEF BodyFails, decoder
<1>5. CASE BodyEnds
  <2>1. buffer \in Text
    BY PlainIsText DEF Plain
  <2>2. <<>> \in Text /\ Pairless(<<>>)
    BY DEF Text, Pairless
  <2>3. BlankLine(<<>>) = 0
    BY <2>2, BlankLineIs
  <2>4. pending' \in Seq(Events)
    BY <1>5, <2>1, FinishType DEF BodyEnds
  <2>5. buffer' \in Seq(Tokens \ {"cr"}) /\ BlankLine(buffer') = 0 /\ pendingCr' = FALSE
    BY <1>5, <2>3 DEF BodyEnds
  <2>6. text' = text /\ delivered' = delivered /\ finished' = TRUE /\ failed' = failed /\ closed' = closed
    BY <1>5 DEF BodyEnds
  <2> QED BY <2>4, <2>5, <2>6
<1>6. CASE StaysEnded \/ UNCHANGED vars
  BY <1>6 DEF StaysEnded, vars, decoder
<1> QED BY <1>1, <1>2, <1>3, <1>4, <1>5, <1>6 DEF Next

(* For every bound, the variables have their types, and between two chunks *)
(* the decoder's buffer holds no CR and no block that could be given out.  *)
THEOREM TypeCorrect == Spec => []TypeOK
<1>1. Init => TypeOK
  <2>1. <<>> \in Text /\ Pairless(<<>>)
    BY DEF Text, Pairless
  <2>2. BlankLine(<<>>) = 0
    BY <2>1, BlankLineIs
  <2>3. /\ <<>> \in Seq(Tokens) /\ <<>> \in Seq(Tokens \ {"cr"}) /\ <<>> \in Seq(Events)
        /\ Len(<<>>) <= MaxText
    BY BoundsAssumption
  <2> QED BY <2>2, <2>3 DEF Init, TypeOK
<1> QED BY <1>1, TypeNext, PTL DEF Spec

-----------------------------------------------------------------------------
(* The stream and the whole text.                                          *)

Ended == Drain(Normalized(Settled(text)))

(* While nothing has failed, what was given out and what waits in the      *)
(* buffer is what one Drain of the normalized text gives, but for a CR at  *)
(* its end; at the end of the body the rest is one block more.             *)
StreamIsText ==
  ~failed =>
    IF finished THEN Emitted = Ended.events \o ParseBlock(Ended.rest)
    ELSE pendingCr = EndsInCr(text) /\ Emitted = Ended.events /\ buffer = Ended.rest

StreamInv == TypeOK /\ StreamIsText

(* The reference drained from the text so far.                             *)
LEMMA EndedType ==
  ASSUME TypeOK
  PROVE  /\ Ended.events \in Seq(Events) /\ Ended.rest \in Text
         /\ Normalized(Settled(text)) \in Text
<1>1. text \in Text
  BY DEF TypeOK, Text
<1>2. Normalized(Settled(text)) \in Text
  BY <1>1, SettledText, NormalizedText
<1> QED BY <1>2, DrainType DEF Ended

(* Handing out an event moves it from the waiting to the delivered ones.   *)
LEMMA TakeKeeps ==
  ASSUME TypeOK, TakeEvent
  PROVE  Emitted' = Emitted
<1>1. /\ pending \in Seq(Events) /\ delivered \in Seq(Events) /\ pending # <<>>
      /\ delivered' = Append(delivered, Head(pending)) /\ pending' = Tail(pending)
  BY DEF TypeOK, TakeEvent
<1>2. PICK first, later : first = <<Head(pending)>> /\ later = Tail(pending)
  OBVIOUS
<1>3. Head(pending) \in Events /\ later \in Seq(Events)
  BY <1>1, <1>2, HeadTailProperties
<1>4. first \in Seq(Events) /\ delivered' = delivered \o first
  BY <1>1, <1>2, <1>3, AppendIsConcat
<1>5. first \o later = pending
  <2>1. Len(first) = 1 /\ first[1] = Head(pending) /\ Head(pending) = pending[1] /\ Len(pending) \in Nat \ {0}
    BY <1>1, <1>2
  <2>2. Len(later) = Len(pending) - 1 /\ \A i \in 1..Len(later) : later[i] = pending[i + 1]
    BY <1>1, <1>2, HeadTailProperties
  <2>3. /\ first \o later \in Seq(Events) /\ Len(first \o later) = 1 + Len(later)
        /\ \A i \in 1..(1 + Len(later)) : (first \o later)[i] = IF i <= 1 THEN first[i] ELSE later[i - 1]
    <3>1. \A x, y \in Seq(Events) :
            /\ x \o y \in Seq(Events) /\ Len(x \o y) = Len(x) + Len(y)
            /\ \A i \in 1..(Len(x) + Len(y)) : (x \o y)[i] = IF i <= Len(x) THEN x[i] ELSE y[i - Len(x)]
      BY ConcatProperties
    <3>2. /\ first \o later \in Seq(Events) /\ Len(first \o later) = Len(first) + Len(later)
          /\ \A i \in 1..(Len(first) + Len(later)) :
               (first \o later)[i] = IF i <= Len(first) THEN first[i] ELSE later[i - Len(first)]
      BY <1>3, <1>4, <3>1
    <3> HIDE <3>1
    <3> QED BY <2>1, <3>2
  <2>4. \A i \in 1..Len(pending) : (first \o later)[i] = pending[i]
    BY <2>1, <2>2, <2>3
  <2>5. Len(first \o later) = Len(pending)
    BY <2>1, <2>2, <2>3
  <2> QED BY <1>1, <2>3, <2>4, <2>5, SeqEqual
<1>6. (delivered \o first) \o later = delivered \o (first \o later)
  BY <1>1, <1>3, <1>4, EventsAssociative
<1> QED BY <1>1, <1>2, <1>4, <1>5, <1>6 DEF Emitted

(* A chunk adds the events it adds to the whole text.                      *)
LEMMA PushKeeps ==
  ASSUME TypeOK, MinChunk = 1, NEW chunk \in Text, chunk # <<>>,
         pendingCr = EndsInCr(text), delivered \o pending = Ended.events, pending = <<>>,
         buffer = Ended.rest
  PROVE  LET after == Drain(Normalized(Settled(text \o chunk)))
         IN  delivered \o Push(chunk).events = after.events /\ Push(chunk).rest = after.rest
<1>1. PICK n, p, d : n = Normalized(Settled(text)) /\ p = NormalizedChunk(chunk) /\ d = Drain(n)
  OBVIOUS
<1>2. text \in Text /\ n \in Text /\ d.events \in Seq(Events) /\ d.rest \in Text /\ delivered \in Seq(Events)
  BY <1>1, EndedType DEF Ended, TypeOK, Text
<1>3. p \in Text
  BY <1>1, NormalizedChunkIs, PlainIsText DEF TypeOK
<1>4. Normalized(Settled(text \o chunk)) = n \o p
  <2>1. p = Normalized(Piece(text, chunk))
    BY <1>1, NormalizedChunkIs DEF TypeOK
  <2>2. Normalized(Settled(text \o chunk)) = Normalized(Settled(text)) \o Normalized(Piece(text, chunk))
    BY <1>2, ChunkSettles
  <2> QED BY <1>1, <2>1, <2>2
<1>5. PICK e : e = Drain(d.rest \o p)
  OBVIOUS
<1>6. Push(chunk) = e
  BY <1>1, <1>5 DEF Push, Ended
<1>7. delivered = d.events
  <2>1. delivered \o <<>> = delivered
    BY <1>2, ConcatEmptySeq
  <2> QED BY <1>1, <2>1 DEF Ended
<1>8. Drain(n \o p) = [events |-> d.events \o e.events, rest |-> e.rest]
  BY <1>1, <1>2, <1>3, <1>5, DrainConcat
<1>9. PICK a : a = Drain(n \o p)
  OBVIOUS
<1>10. a.events = d.events \o e.events /\ a.rest = e.rest
  <2>1. a = [events |-> d.events \o e.events, rest |-> e.rest]
    BY <1>8, <1>9
  <2> QED BY <2>1
<1> QED BY <1>4, <1>6, <1>7, <1>9, <1>10

(* Every step keeps the stream equal to its text.                          *)
LEMMA StreamNext ==
  ASSUME MinChunk = 1, TypeOK, StreamIsText, [Next]_vars
  PROVE  StreamIsText'
<1>1. CASE TakeEvent
  <2>1. text' = text /\ buffer' = buffer /\ pendingCr' = pendingCr /\ finished' = finished /\ failed' = failed
    BY <1>1 DEF TakeEvent, decoder
  <2>2. Ended' = Ended
    BY <2>1 DEF Ended
  <2>3. Emitted' = Emitted
    BY <1>1, TakeKeeps
  <2> QED BY <2>1, <2>2, <2>3 DEF StreamIsText
<1>2. CASE PushChunk
  <2> SUFFICES ASSUME ~failed' PROVE StreamIsText'
    BY DEF StreamIsText
  <2>1. ~failed /\ ~finished /\ pending = <<>>
        /\ delivered' = delivered /\ finished' = finished
    BY <1>2 DEF PushChunk, Polls
  <2>2. PICK n \in MinChunk..(MaxText - Len(text)) : \E chunk \in [1..n -> Tokens] :
          /\ text' = text \o chunk
          /\ buffer' = Push(chunk).rest /\ pending' = Push(chunk).events
          /\ pendingCr' = EndsInCr(chunk)
    BY <1>2 DEF PushChunk
  <2>3. PICK chunk \in [1..n -> Tokens] :
          /\ text' = text \o chunk
          /\ buffer' = Push(chunk).rest /\ pending' = Push(chunk).events
          /\ pendingCr' = EndsInCr(chunk)
    BY <2>2
  <2>4. chunk \in Text /\ chunk # <<>> /\ text \in Text
    <3>1. n \in Nat /\ n # 0 /\ text \in Text
      BY BoundsAssumption, TextLength DEF TypeOK, Text
    <3>2. chunk \in Text /\ Len(chunk) = n
      BY <3>1, ChunkText
    <3> QED BY <3>1, <3>2, TextLength
  <2>5. pendingCr = EndsInCr(text) /\ delivered \o pending = Ended.events /\ buffer = Ended.rest
    BY <2>1 DEF StreamIsText, Emitted
  <2>6. PICK after : after = Drain(Normalized(Settled(text \o chunk)))
    OBVIOUS
  <2>7. delivered \o Push(chunk).events = after.events /\ Push(chunk).rest = after.rest
    BY <2>1, <2>4, <2>5, <2>6, PushKeeps
  <2>8. Ended' = after
    BY <2>3, <2>6 DEF Ended
  <2>9. Emitted' = after.events /\ buffer' = after.rest
    BY <2>1, <2>3, <2>7 DEF Emitted
  <2>10. pendingCr' = EndsInCr(text')
    BY <2>3, <2>4, ChunkSettles
  <2> QED BY <2>1, <2>8, <2>9, <2>10 DEF StreamIsText
<1>3. CASE RejectChunk
  BY <1>3 DEF RejectChunk, StreamIsText
<1>4. CASE BodyFails
  BY <1>4 DEF BodyFails, StreamIsText
<1>5. CASE BodyEnds
  <2> SUFFICES ASSUME ~failed' PROVE StreamIsText'
    BY DEF StreamIsText
  <2>1. /\ ~failed /\ ~finished /\ pending = <<>> /\ delivered' = delivered /\ finished' = TRUE
        /\ text' = text /\ pending' = ParseBlock(buffer)
    <3>1. buffer \in Text
      BY PlainIsText DEF TypeOK, Plain
    <3> QED BY <1>5, <3>1, FinishIs DEF BodyEnds, Polls
  <2>2. delivered \o <<>> = Ended.events /\ buffer = Ended.rest
    BY <2>1 DEF StreamIsText, Emitted
  <2>3. delivered = Ended.events
    BY <2>2, ConcatEmptySeq DEF TypeOK
  <2>4. PICK e : e = Ended
    OBVIOUS
  <2>5. Ended' = e
    BY <2>1, <2>4 DEF Ended
  <2>6. Emitted' = e.events \o ParseBlock(e.rest)
    BY <2>1, <2>2, <2>3, <2>4 DEF Emitted
  <2> QED BY <2>1, <2>5, <2>6 DEF StreamIsText
<1>6. CASE StaysEnded \/ UNCHANGED vars
  <2>1. UNCHANGED vars
    BY <1>6 DEF StaysEnded
  <2> QED BY <2>1 DEF vars, decoder, StreamIsText, Emitted, Ended
<1> QED BY <1>1, <1>2, <1>3, <1>4, <1>5, <1>6 DEF Next

(* The invariant, for bodies without empty chunks.                         *)
LEMMA StreamCorrect == ASSUME MinChunk = 1 PROVE Spec => []StreamInv
<1>1. Init => StreamIsText
  <2> SUFFICES ASSUME Init PROVE StreamIsText
    OBVIOUS
  <2>1. <<>> \in Text /\ text = <<>> /\ buffer = <<>> /\ ~pendingCr /\ pending = <<>> /\ delivered = <<>> /\ ~finished
    BY DEF Init, Text
  <2>2. ~EndsInCr(text) /\ Settled(text) = <<>>
    BY <2>1 DEF EndsInCr, Settled
  <2>3. Normalized(Settled(text)) = <<>>
    BY <2>1, <2>2, NormalizedDef
  <2>4. Pairless(<<>>)
    BY DEF Pairless
  <2>5. PICK e : e = Ended
    OBVIOUS
  <2>6. e = [events |-> <<>>, rest |-> <<>>]
    BY <2>1, <2>3, <2>4, <2>5, DrainDef DEF Ended
  <2>7. e.events = <<>> /\ e.rest = <<>>
    BY <2>6
  <2>8. Emitted = <<>>
    BY <2>1, ConcatEmptySeq DEF Emitted
  <2>9. pendingCr = EndsInCr(text)
    BY <2>2 DEF Init, EndsInCr
  <2> QED BY <2>1, <2>5, <2>7, <2>8, <2>9 DEF StreamIsText
<1>2. TypeOK /\ StreamIsText /\ [Next]_vars => StreamIsText'
  BY StreamNext
<1> QED BY <1>1, <1>2, TypeCorrect, PTL DEF Spec, StreamInv

(* How the events given out relate to those of the whole text.             *)
LEMMA WholeOfStream ==
  ASSUME TypeOK
  PROVE  /\ ParseSseEvents(text) = Ended.events \o TrimmedBlock(Ended.rest)
         /\ Ended.events \in Seq(Events) /\ Ended.rest \in Text
         /\ TrimmedBlock(Ended.rest) \in Seq(Events) /\ Len(TrimmedBlock(Ended.rest)) \in 0..1
<1>1. text \in Text
  BY DEF TypeOK, Text
<1>2. Ended.events \in Seq(Events) /\ Ended.rest \in Text
  BY EndedType
<1> QED BY <1>1, <1>2, WholeText, TrimmedBlockType DEF Ended

(* Events and the ones that follow them.                                   *)
LEMMA PrefixOfConcat ==
  ASSUME NEW a \in Seq(Events), NEW b \in Seq(Events)
  PROVE  IsPrefix(a, a \o b) /\ Len(a \o b) = Len(a) + Len(b) /\ Len(a) \in Nat /\ Len(b) \in Nat
<1>1. /\ Len(a) \in Nat /\ Len(b) \in Nat /\ Len(a \o b) = Len(a) + Len(b) /\ a \o b \in Seq(Events)
      /\ \A i \in 1..Len(a) : (a \o b)[i] = a[i]
  BY ConcatProperties
<1>2. SubSeq(a, 1, Len(a)) = a
  BY SubSeqFull
<1>3. SubSeq(a \o b, 1, Len(a)) = a
  <2>1. PICK c : c = a \o b
    OBVIOUS
  <2>2. c \in Seq(Events) /\ Len(a) <= Len(c) /\ \A i \in 1..Len(a) : c[i] = a[i]
    BY <1>1, <2>1
  <2>3. /\ SubSeq(c, 1, Len(a)) \in Seq(Events) /\ Len(SubSeq(c, 1, Len(a))) = Len(a)
        /\ \A i \in 1..Len(a) : SubSeq(c, 1, Len(a))[i] = c[i]
    BY <1>1, <2>2
  <2> QED BY <2>1, <2>2, <2>3, SeqEqual
<1> QED BY <1>1, <1>2, <1>3 DEF IsPrefix

(* However the body is cut into chunks that are not empty, the events      *)
(* given out are the first of the whole text's.                            *)
THEOREM EventsAreInOrder == ASSUME MinChunk = 1 PROVE Spec => []EventsInOrder
<1>1. StreamInv => EventsInOrder
  <2> SUFFICES ASSUME TypeOK, StreamIsText, ~failed, ~finished PROVE IsPrefix(Emitted, ParseSseEvents(text))
    BY DEF StreamInv, EventsInOrder
  <2>1. PICK e : e = Ended
    OBVIOUS
  <2>2. Emitted = e.events
    BY <2>1 DEF StreamIsText
  <2>3. ParseSseEvents(text) = e.events \o TrimmedBlock(e.rest) /\ e.events \in Seq(Events)
        /\ TrimmedBlock(e.rest) \in Seq(Events)
    BY <2>1, WholeOfStream
  <2> QED BY <2>2, <2>3, PrefixOfConcat
<1> QED BY <1>1, StreamCorrect, PTL

(* No event but the last is ever held back.                                *)
THEOREM EventsAreOnTime == ASSUME MinChunk = 1 PROVE Spec => []EventsOnTime
<1>1. StreamInv => EventsOnTime
  <2> SUFFICES ASSUME TypeOK, StreamIsText, ~failed PROVE Len(Emitted) + 1 >= Len(ParseSseEvents(text))
    BY DEF StreamInv, EventsOnTime
  <2>1. PICK e : e = Ended
    OBVIOUS
  <2>2. ParseSseEvents(text) = e.events \o TrimmedBlock(e.rest) /\ e.events \in Seq(Events)
        /\ e.rest \in Text
        /\ TrimmedBlock(e.rest) \in Seq(Events) /\ Len(TrimmedBlock(e.rest)) \in 0..1
    BY <2>1, WholeOfStream
  <2>3. Emitted = e.events \/ Emitted = e.events \o ParseBlock(e.rest)
    BY <2>1 DEF StreamIsText
  <2>4. Len(Emitted) \in Nat /\ Len(Emitted) >= Len(e.events)
    <3>1. ParseBlock(e.rest) \in Seq(Events)
      BY <2>2, ParseBlockType
    <3>2. /\ Len(e.events \o ParseBlock(e.rest)) = Len(e.events) + Len(ParseBlock(e.rest))
          /\ Len(e.events) \in Nat /\ Len(ParseBlock(e.rest)) \in Nat
      BY <2>2, <3>1, PrefixOfConcat
    <3>3. Len(Emitted) = Len(e.events) \/ Len(Emitted) = Len(e.events) + Len(ParseBlock(e.rest))
      BY <2>3, <3>2, Zenon
    <3>4. PICK m, n, k : m = Len(Emitted) /\ n = Len(e.events) /\ k = Len(ParseBlock(e.rest))
      OBVIOUS
    <3>5. (m = n \/ m = n + k) /\ n \in Nat /\ k \in Nat
      BY <3>2, <3>3, <3>4, Zenon
    <3>6. m \in Nat /\ m >= n
      BY <3>5
    <3> QED BY <3>4, <3>6, Zenon
  <2>5. Len(ParseSseEvents(text)) = Len(e.events) + Len(TrimmedBlock(e.rest)) /\ Len(e.events) \in Nat
    BY <2>2, PrefixOfConcat
  <2>6. PICK m, n, k, l : /\ m = Len(Emitted) /\ n = Len(e.events)
                         /\ k = Len(TrimmedBlock(e.rest)) /\ l = Len(ParseSseEvents(text))
    OBVIOUS
  <2>7. m \in Nat /\ m >= n /\ n \in Nat /\ k \in 0..1 /\ l = n + k
    BY <2>2, <2>4, <2>5, <2>6
  <2>8. m + 1 >= l
    BY <2>7
  <2> QED BY <2>6, <2>8
<1> QED BY <1>1, StreamCorrect, PTL

(* At its end the stream has given what read_sse_events gives, but for the *)
(* blanks around a last block without a blank line.                        *)
THEOREM StreamIsBuffer == ASSUME MinChunk = 1 PROVE Spec => []StreamEqualsBuffer
<1>1. StreamInv => StreamEqualsBuffer
  <2> SUFFICES ASSUME TypeOK, StreamIsText, ~failed, finished PROVE StreamEqualsBuffer
    BY DEF StreamInv, StreamEqualsBuffer
  <2>1. PICK e : e = Ended
    OBVIOUS
  <2>2. ParseSseEvents(text) = e.events \o TrimmedBlock(e.rest) /\ e.events \in Seq(Events)
        /\ e.rest \in Text
        /\ TrimmedBlock(e.rest) \in Seq(Events)
    BY <2>1, WholeOfStream
  <2>3. Emitted = e.events \o ParseBlock(e.rest)
    BY <2>1 DEF StreamIsText
  <2>4. ParseBlock(e.rest) \in Seq(Events) /\ Len(ParseBlock(e.rest)) <= Len(TrimmedBlock(e.rest))
    BY <2>2, ParseBlockType, LengthOfFinish
  <2>5. IsPrefix(e.events, Emitted)
    BY <2>2, <2>3, <2>4, PrefixOfConcat
  <2>6. Len(Emitted) <= Len(ParseSseEvents(text))
    <3>1. /\ Len(Emitted) = Len(e.events) + Len(ParseBlock(e.rest)) /\ Len(e.events) \in Nat
          /\ Len(ParseBlock(e.rest)) \in Nat
      BY <2>2, <2>3, <2>4, PrefixOfConcat
    <3>2. /\ Len(ParseSseEvents(text)) = Len(e.events) + Len(TrimmedBlock(e.rest))
          /\ Len(TrimmedBlock(e.rest)) \in Nat
      BY <2>2, PrefixOfConcat
    <3> QED BY <2>4, <3>1, <3>2
  <2>7. ~BlankAtAnEnd(e.rest) => Emitted = ParseSseEvents(text)
    BY <2>2, <2>3, FinishIsTrimmed
  <2>8. e = Drain(Normalized(IF EndsInCr(text) THEN Front(text) ELSE text))
    BY <2>1 DEF Ended, Settled
  <2> QED BY <2>5, <2>6, <2>7, <2>8 DEF StreamEqualsBuffer
<1> QED BY <1>1, StreamCorrect, PTL

=============================================================================
