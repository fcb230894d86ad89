----------------------------- MODULE Induction -----------------------------
(***************************************************************************)
(* Induction and recursion for the modules of proofs.  What the induction  *)
(* theorems of the library take as an operator is a set or a function      *)
(* here: a statement is proved for the members of a set, and a recursion   *)
(* is given by its domain, its measure and its step.                       *)
(***************************************************************************)
EXTENDS Integers, Sequences, FiniteSetsExt, WellFoundedInduction, TLAPS

(* The order of the natural numbers as a relation, for the theorems on     *)
(* well-founded ones.                                                      *)
LEMMA SmallerIsWellFounded ==
  \E R : IsWellFoundedOn(R, Nat) /\ \A m, n \in Nat : m < n => <<m, n>> \in R
<1>1. IsWellFoundedOn(OpToRel(<, Nat), Nat)
  BY NatLessThanWellFounded
<1>2. \A m, n \in Nat : m < n => <<m, n>> \in OpToRel(<, Nat)
  BY DEF OpToRel
<1> QED BY <1>1, <1>2, Zenon

(* Every set of natural numbers with an element has a smallest one.        *)
LEMMA SmallestElement ==
  ASSUME NEW T, T \subseteq Nat, T # {}
  PROVE  \E n \in T : \A m \in T : n <= m
<1>1. PICK R : IsWellFoundedOn(R, Nat) /\ \A m, n \in Nat : m < n => <<m, n>> \in R
  BY SmallerIsWellFounded
<1>2. \E n \in T : \A m \in T : ~(<<m, n>> \in R)
  BY <1>1, WFMin
<1>3. PICK n \in T : \A m \in T : ~(<<m, n>> \in R)
  BY <1>2
<1>4. ASSUME NEW m \in T PROVE n <= m
  <2>1. m \in Nat /\ n \in Nat
    BY <1>3
  <2>2. ~(m < n)
    BY <1>1, <1>3, <2>1, Zenon
  <2> QED BY <2>1, <2>2
<1> QED BY <1>4

(* Induction, with a set in place of the predicate.                        *)
LEMMA NatSetInduction ==
  ASSUME NEW S, 0 \in S, \A n \in Nat : n \in S => n + 1 \in S
  PROVE  Nat \subseteq S
<1> SUFFICES ASSUME Nat \ S # {} PROVE FALSE
  OBVIOUS
<1>1. PICK n \in Nat \ S : \A m \in Nat \ S : n <= m
  BY SmallestElement
<1>2. n # 0 /\ n - 1 \in Nat
  OBVIOUS
<1>3. n - 1 \in S
  BY <1>1, <1>2
<1> QED
  BY <1>2, <1>3

(* Induction from all smaller numbers.                                     *)
LEMMA StrongInduction ==
  ASSUME NEW S, \A n \in Nat : (\A m \in Nat : m < n => m \in S) => n \in S
  PROVE  Nat \subseteq S
<1> SUFFICES ASSUME Nat \ S # {} PROVE FALSE
  OBVIOUS
<1>1. PICK n \in Nat \ S : \A m \in Nat \ S : n <= m
  BY SmallestElement
<1>2. \A m \in Nat : m < n => m \in S
  BY <1>1
<1> QED BY <1>2

(* Every bounded set with an element has a largest one.                    *)
LEMMA LargestElement ==
  ASSUME NEW T, T # {}, NEW b \in Nat, T \subseteq 0..b
  PROVE  \E n \in T : \A m \in T : m <= n
<1> DEFINE Up == {b - n : n \in T}
<1>1. Up \subseteq Nat
  OBVIOUS
<1>0. Up # {}
  <2>1. PICK n \in T : TRUE
    OBVIOUS
  <2>2. b - n \in Up
    OBVIOUS
  <2> QED BY <2>2
<1>2. PICK u \in Up : \A v \in Up : u <= v
  BY <1>0, <1>1, SmallestElement
<1>3. PICK n \in T : u = b - n
  BY <1>2
<1>4. \A m \in T : b - m \in Up
  OBVIOUS
<1>5. \A m \in T : m <= n
  BY <1>2, <1>3, <1>4
<1> QED BY <1>5

(* Min and Max are what a proof has found to be the smallest and the       *)
(* largest element.                                                        *)
LEMMA MinIs ==
  ASSUME NEW T, NEW n \in T, T \subseteq Nat, \A m \in T : n <= m
  PROVE  Min(T) = n
<1>1. PICK m \in T : m = Min(T) /\ \A y \in T : m <= y
  BY Zenon DEF Min
<1>2. m \in Nat /\ n \in Nat
  OBVIOUS
<1>3. m <= n /\ n <= m
  BY <1>1
<1> QED BY <1>1, <1>2, <1>3

LEMMA MaxIs ==
  ASSUME NEW T, NEW n \in T, T \subseteq Nat, \A m \in T : m <= n
  PROVE  Max(T) = n
<1>0. \A m \in T : n >= m
  OBVIOUS
<1>1. PICK m \in T : m = Max(T) /\ \A y \in T : m >= y
  BY <1>0, Zenon DEF Max
<1>2. m \in Nat /\ n \in Nat
  OBVIOUS
<1>3. m <= n /\ n <= m
  BY <1>1
<1> QED BY <1>1, <1>2, <1>3

(* Induction on the length of a sequence.                                  *)
LEMMA LengthInduction ==
  ASSUME NEW T, NEW P,
         \A s \in Seq(T) : (\A t \in Seq(T) : Len(t) < Len(s) => t \in P) => s \in P
  PROVE  Seq(T) \subseteq P
<1> DEFINE S == {n \in Nat : \A s \in Seq(T) : Len(s) = n => s \in P}
<1>1. ASSUME NEW n \in Nat, \A m \in Nat : m < n => m \in S PROVE n \in S
  <2> SUFFICES ASSUME NEW s \in Seq(T), Len(s) = n PROVE s \in P
    OBVIOUS
  <2>1. \A t \in Seq(T) : Len(t) < Len(s) => t \in P
    BY <1>1
  <2> QED BY <2>1
<1> HIDE DEF S
<1>2. Nat \subseteq S
  BY <1>1, StrongInduction
<1>3. \A s \in Seq(T) : Len(s) \in S
  BY <1>2
<1> QED BY <1>3 DEF S

(* A function on D defined from its value at one argument of smaller size, *)
(* rest[d], or, outside of `more`, without recursion.                      *)
Recursion(D, V, size, more, rest, base, step) ==
  /\ size \in [D -> Nat] /\ more \in SUBSET D /\ rest \in [more -> D]
  /\ base \in [D -> V] /\ step \in [D \X V -> V]
  /\ \A d \in more : size[rest[d]] < size[d]

(* g solves the equations of that recursion.                               *)
Solution(D, V, more, rest, base, step, g) ==
  /\ g \in [D -> V]
  /\ \A d \in D : d \in more => g[d] = step[<<d, g[rest[d]]>>]
  /\ \A d \in D : d \notin more => g[d] = base[d]

(* Such equations have a solution. A recursive function of a module is     *)
(* CHOSEN as one, and so satisfies its own equation.                       *)
LEMMA MeasuredRecursion ==
  ASSUME NEW D, NEW V, NEW size, NEW more, NEW rest, NEW base, NEW step,
         Recursion(D, V, size, more, rest, base, step)
  PROVE  \E g : Solution(D, V, more, rest, base, step, g)
<1> USE DEF Recursion
<1> DEFINE Value(h, d) == IF d \in more THEN step[<<d, h[rest[d]]>>] ELSE base[d]
           Below(n)    == {d \in D : size[d] < n}
           Sol(n)      == {h \in [Below(n) -> V] : \A d \in Below(n) : h[d] = Value(h, d)}
<1>1. \A n \in Nat : Sol(n) # {}
  <2> DEFINE S == {n \in Nat : Sol(n) # {}}
  <2>1. 0 \in S
    <3>1. Below(0) = {}
      OBVIOUS
    <3>2. [d \in Below(0) |-> base[d]] \in Sol(0)
      BY <3>1
    <3> QED BY <3>2
  <2>2. ASSUME NEW n \in Nat, n \in S PROVE n + 1 \in S
    <3>1. PICK h \in Sol(n) : TRUE
      BY <2>2
    <3> DEFINE k == [d \in Below(n + 1) |-> Value(h, d)]
    <3>2. \A d \in Below(n + 1) : d \in more => rest[d] \in Below(n)
      OBVIOUS
    <3>3. \A d \in Below(n) : d \in Below(n + 1) /\ k[d] = h[d]
      BY <3>1
    <3>4. \A d \in Below(n + 1) : Value(k, d) = Value(h, d)
      BY <3>2, <3>3
    <3>5. \A d \in Below(n + 1) : Value(h, d) \in V
      BY <3>1, <3>2
    <3>6. k \in [Below(n + 1) -> V]
      BY <3>5
    <3>7. \A d \in Below(n + 1) : k[d] = Value(k, d)
      BY <3>4
    <3>8. k \in Sol(n + 1)
      <4> HIDE DEF k
      <4> QED BY <3>6, <3>7
    <3>9. Sol(n + 1) # {}
      <4> HIDE DEF k, Sol
      <4> QED BY <3>8
    <3> HIDE DEF k, Sol
    <3> QED BY <3>9
  <2> HIDE DEF S
  <2>3. Nat \subseteq S
    BY <2>1, <2>2, NatSetInduction
  <2> QED BY <2>3 DEF S
<1>2. ASSUME NEW n \in Nat, NEW m \in Nat, NEW h \in Sol(n), NEW k \in Sol(m)
      PROVE  \A d \in Below(n) \cap Below(m) : h[d] = k[d]
  <2> DEFINE S == {j \in Nat : \A d \in Below(n) \cap Below(m) : size[d] = j => h[d] = k[d]}
  <2>1. ASSUME NEW j \in Nat, \A i \in Nat : i < j => i \in S PROVE j \in S
    <3> SUFFICES ASSUME NEW d \in Below(n) \cap Below(m), size[d] = j PROVE h[d] = k[d]
      OBVIOUS
    <3>1. CASE d \in more
      <4>1. rest[d] \in Below(n) \cap Below(m) /\ size[rest[d]] \in Nat /\ size[rest[d]] < j
        BY <3>1
      <4>2. h[rest[d]] = k[rest[d]]
        BY <4>1, <2>1
      <4> QED BY <4>2
    <3>2. CASE d \notin more
      BY <3>2
    <3> QED BY <3>1, <3>2
  <2> HIDE DEF S
  <2>2. Nat \subseteq S
    BY <2>1, StrongInduction
  <2> QED BY <2>2 DEF S
<1> DEFINE sol(n) == CHOOSE h : h \in Sol(n)
           g == [d \in D |-> sol(size[d] + 1)[d]]
<1>3. \A n \in Nat : sol(n) \in Sol(n)
  BY <1>1
<1> HIDE DEF sol
<1>4. \A d \in D : size[d] + 1 \in Nat /\ d \in Below(size[d] + 1)
  OBVIOUS
<1>5. g \in [D -> V]
  BY <1>3, <1>4
<1>6. ASSUME NEW d \in D PROVE g[d] = Value(g, d)
  <2>1. g[d] = Value(sol(size[d] + 1), d)
    BY <1>3, <1>4
  <2>2. CASE d \in more
    <3>1. rest[d] \in D /\ rest[d] \in Below(size[d] + 1)
      BY <2>2
    <3>2. g[rest[d]] = sol(size[rest[d]] + 1)[rest[d]]
      BY <3>1
    <3>3. g[rest[d]] = sol(size[d] + 1)[rest[d]]
      <4> DEFINE m == size[d] + 1
                 n == size[rest[d]] + 1
      <4>1. m \in Nat /\ n \in Nat /\ sol(m) \in Sol(m) /\ sol(n) \in Sol(n)
        BY <1>3, <1>4, <3>1
      <4>2. rest[d] \in Below(n) \cap Below(m)
        BY <1>4, <3>1
      <4> HIDE DEF m, n, Below, Sol
      <4>3. sol(n)[rest[d]] = sol(m)[rest[d]]
        BY <1>2, <4>1, <4>2
      <4> QED BY <3>2, <4>3 DEF m, n
    <3> QED BY <2>1, <2>2, <3>3
  <2>3. CASE d \notin more
    BY <2>1, <2>3
  <2> QED BY <2>2, <2>3
<1> HIDE DEF g
<1>7. Solution(D, V, more, rest, base, step, g)
  BY <1>5, <1>6 DEF Solution
<1> QED BY <1>7

(* Induction up to a number.                                               *)
LEMMA IndexInduction ==
  ASSUME NEW n \in Nat, NEW S, 0 \in S, \A i \in 0..(n - 1) : i \in S => i + 1 \in S
  PROVE  0..n \subseteq S
<1> DEFINE T == {i \in Nat : i <= n => i \in S}
<1>1. 0 \in T
  OBVIOUS
<1>2. \A i \in Nat : i \in T => i + 1 \in T
  OBVIOUS
<1> HIDE DEF T
<1>3. Nat \subseteq T
  BY <1>1, <1>2, NatSetInduction
<1> QED BY <1>3 DEF T

(* g is a function on the numbers up to n: its first value is `start`,     *)
(* every other comes by `next` from the one before it.                     *)
Iterates(n, V, start, next, g) ==
  /\ g \in [0..n -> V]
  /\ g[0] = start
  /\ \A i \in 1..n : g[i] = next[<<i, g[i - 1]>>]

LEMMA IndexRecursion ==
  ASSUME NEW n \in Nat, NEW V, NEW start \in V, NEW next,
         \A i \in 1..n, v \in V : next[<<i, v>>] \in V
  PROVE  \E g : Iterates(n, V, start, next, g)
<1> DEFINE D == 0..n
           size == [d \in D |-> d]
           more == 1..n
           rest == [d \in more |-> d - 1]
           base == [d \in D |-> start]
           step == [p \in D \X V |-> IF p[1] \in 1..n THEN next[<<p[1], p[2]>>] ELSE start]
<1>1. PICK g : Solution(D, V, more, rest, base, step, g)
  <2>1. size \in [D -> Nat] /\ more \in SUBSET D /\ rest \in [more -> D]
    OBVIOUS
  <2>2. base \in [D -> V]
    OBVIOUS
  <2>3. step \in [D \X V -> V]
    <3>1. \A p \in D \X V : step[p] \in V
      OBVIOUS
    <3> QED BY <3>1
  <2>4. \A d \in more : size[rest[d]] < size[d]
    OBVIOUS
  <2>5. Recursion(D, V, size, more, rest, base, step)
    BY <2>1, <2>2, <2>3, <2>4 DEF Recursion
  <2> HIDE DEF D, size, more, rest, base, step
  <2> QED BY <2>5, MeasuredRecursion
<1>2. g \in [D -> V]
  BY <1>1 DEF Solution
<1>3. g[0] = start
  BY <1>1 DEF Solution
<1>4. ASSUME NEW i \in 1..n
      PROVE  g[i] = next[<<i, g[i - 1]>>]
  <2>1. i \in more /\ i \in D /\ rest[i] = i - 1 /\ g[i - 1] \in V
    BY <1>2
  <2>2. g[i] = step[<<i, g[i - 1]>>]
    BY <1>1, <2>1 DEF Solution
  <2>3. \A v \in V : step[<<i, v>>] = next[<<i, v>>]
    OBVIOUS
  <2> QED BY <2>1, <2>2, <2>3
<1> QED BY <1>2, <1>3, <1>4 DEF Iterates

(* The folds of the community modules recur on sets of positions, from the *)
(* largest position down.                                                  *)
FoldsFrom(n, V, start, next, g) ==
  /\ g \in [SUBSET (1..n) -> V]
  /\ g[{}] = start
  /\ \A s \in SUBSET (1..n) : s # {} => g[s] = next[<<Max(s), g[s \ {Max(s)}]>>]

LEMMA MaxOfPositions ==
  ASSUME NEW n \in Nat, NEW s \in SUBSET (1..n), s # {}
  PROVE  Max(s) \in s /\ Max(s) \in 1..n /\ \A i \in s : i <= Max(s)
<1>0. s \subseteq 0..n /\ s \subseteq Nat
  OBVIOUS
<1>1. PICK m \in s : \A i \in s : i <= m
  BY <1>0, LargestElement
<1>2. Max(s) = m
  BY <1>0, <1>1, MaxIs
<1> QED BY <1>1, <1>2

LEMMA FirstPositions ==
  ASSUME NEW n \in Nat, NEW i \in 1..n
  PROVE  /\ 1..i \in SUBSET (1..n) /\ 1..i # {}
         /\ Max(1..i) = i /\ (1..i) \ {i} = 1..(i - 1)
<1>1. i \in 1..i /\ 1..i \subseteq Nat /\ \A m \in 1..i : m <= i
  OBVIOUS
<1>2. Max(1..i) = i
  BY <1>1, MaxIs
<1> QED BY <1>1, <1>2

LEMMA FoldRecursion ==
  ASSUME NEW n \in Nat, NEW V, NEW start \in V, NEW next,
         \A i \in 1..n, v \in V : next[<<i, v>>] \in V
  PROVE  \E g : FoldsFrom(n, V, start, next, g)
<1> DEFINE D == SUBSET (1..n)
           more == {s \in D : s # {}}
           size == [s \in D |-> IF s = {} THEN 0 ELSE Max(s)]
           rest == [s \in more |-> s \ {Max(s)}]
           base == [s \in D |-> start]
           step == [p \in D \X V |-> IF p[1] \in more THEN next[<<Max(p[1]), p[2]>>] ELSE start]
<1>1. \A s \in more : Max(s) \in s /\ Max(s) \in 1..n /\ \A i \in s : i <= Max(s)
  BY MaxOfPositions
<1>2. PICK g : Solution(D, V, more, rest, base, step, g)
  <2>1. size \in [D -> Nat]
    <3>1. \A s \in D : size[s] \in Nat
      BY <1>1
    <3> QED BY <3>1
  <2>2. more \in SUBSET D /\ rest \in [more -> D] /\ base \in [D -> V]
    BY <1>1
  <2>3. step \in [D \X V -> V]
    <3>1. \A p \in D \X V : step[p] \in V
      BY <1>1
    <3> QED BY <3>1
  <2>4. ASSUME NEW s \in more PROVE size[rest[s]] < size[s]
    <3>1. rest[s] = s \ {Max(s)} /\ rest[s] \in D /\ size[s] = Max(s) /\ size[s] \in 1..n
      BY <1>1
    <3>2. CASE rest[s] = {}
      <4>1. {} \in D /\ size[{}] = 0
        OBVIOUS
      <4>2. size[rest[s]] = 0
        BY <3>2, <4>1, Zenon
      <4>3. size[s] \in 1..n
        BY <3>1
      <4> HIDE DEF size, rest
      <4> QED BY <4>2, <4>3
    <3>3. CASE rest[s] # {}
      <4>1. size[rest[s]] = Max(rest[s]) /\ Max(rest[s]) \in rest[s] /\ Max(rest[s]) \in 1..n
        BY <1>1, <3>1, <3>3
      <4>2. Max(rest[s]) <= Max(s) /\ Max(rest[s]) # Max(s)
        BY <1>1, <3>1, <4>1
      <4> QED BY <3>1, <4>1, <4>2
    <3> QED BY <3>2, <3>3
  <2>5. Recursion(D, V, size, more, rest, base, step)
    BY <2>1, <2>2, <2>3, <2>4 DEF Recursion
  <2> HIDE DEF D, size, more, rest, base, step
  <2> QED BY <2>5, MeasuredRecursion
<1>3. g \in [D -> V]
  BY <1>2 DEF Solution
<1>4. g[{}] = start
  <2>1. {} \in D /\ {} \notin more /\ base[{}] = start
    OBVIOUS
  <2> HIDE DEF D, more, base
  <2> QED BY <1>2, <2>1 DEF Solution
<1>5. ASSUME NEW s \in D, s # {}
      PROVE  g[s] = next[<<Max(s), g[s \ {Max(s)}]>>]
  <2>1. s \in more /\ rest[s] = s \ {Max(s)} /\ rest[s] \in D
    BY <1>5
  <2>2. g[rest[s]] \in V
    BY <1>3, <2>1
  <2>3. \A v \in V : step[<<s, v>>] = next[<<Max(s), v>>]
    BY <1>5
  <2>4. g[s] = step[<<s, g[rest[s]]>>]
    <3> HIDE DEF D, size, more, rest, base, step
    <3> QED BY <1>2, <1>5, <2>1 DEF Solution
  <2> HIDE DEF D, size, more, rest, base, step
  <2> QED BY <2>1, <2>2, <2>3, <2>4
<1> QED BY <1>3, <1>4, <1>5 DEF FoldsFrom

=============================================================================
