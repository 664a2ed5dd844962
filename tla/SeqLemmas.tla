------------------------------ MODULE SeqLemmas ------------------------------
(***************************************************************************)
(* Facts about the operators of SequencesExt the models are built from,    *)
(* cited by the proofs of the components.                                  *)
(***************************************************************************)
EXTENDS Integers, Sequences, SequencesExt, SequenceTheorems,
        WellFoundedInduction, TLAPS

\* InsertAt, the shifting append of Mux.Add: the result holds e at i and the
\* elements of s, in their order, around it.
LEMMA InsertAtProperties ==
  ASSUME NEW S, NEW s \in Seq(S), NEW i \in 1..Len(s) + 1, NEW e \in S
  PROVE  /\ InsertAt(s, i, e) \in Seq(S)
         /\ Len(InsertAt(s, i, e)) = Len(s) + 1
         /\ InsertAt(s, i, e)[i] = e
         /\ \A j \in 1..i - 1 : InsertAt(s, i, e)[j] = s[j]
         /\ \A j \in i + 1..Len(s) + 1 : InsertAt(s, i, e)[j] = s[j - 1]
<1> DEFINE a == SubSeq(s, 1, i - 1)
           b == SubSeq(s, i, Len(s))
           ae == a \o <<e>>
<1>1. Len(s) \in Nat /\ i \in Int /\ (\A j \in 1..Len(s) : s[j] \in S)
  BY ElementOfSeq, LenProperties
<1>2. /\ a \in Seq(S) /\ Len(a) = i - 1
      /\ \A j \in 1..i - 1 : a[j] = s[j]
  BY <1>1, SubSeqProperties, SMT
<1>3. /\ b \in Seq(S) /\ Len(b) = Len(s) - i + 1
      /\ \A j \in 1..Len(s) - i + 1 : b[j] = s[i + j - 1]
  BY <1>1, SubSeqProperties, SMT
<1>4. <<e>> \in Seq(S) /\ Len(<<e>>) = 1 /\ <<e>>[1] = e
  OBVIOUS
<1> HIDE DEF a, b
<1>5. /\ ae \in Seq(S) /\ Len(ae) = i
      /\ \A j \in 1..i : ae[j] = IF j <= i - 1 THEN a[j] ELSE <<e>>[j - (i - 1)]
  BY <1>1, <1>2, <1>4, ConcatProperties, SMT
<1>6. ae[i] = e /\ (\A j \in 1..i - 1 : ae[j] = s[j])
  BY <1>1, <1>2, <1>4, <1>5
<1> HIDE DEF ae
<1>7. /\ ae \o b \in Seq(S) /\ Len(ae \o b) = Len(s) + 1
      /\ \A j \in 1..Len(s) + 1 :
           (ae \o b)[j] = IF j <= i THEN ae[j] ELSE b[j - i]
  <2>1. /\ ae \o b \in Seq(S) /\ Len(ae \o b) = Len(ae) + Len(b)
        /\ \A j \in 1..Len(ae) + Len(b) :
             (ae \o b)[j] = IF j <= Len(ae) THEN ae[j] ELSE b[j - Len(ae)]
    BY <1>3, <1>5, ConcatProperties, Zenon
  <2>2. Len(ae) = i /\ Len(ae) + Len(b) = Len(s) + 1
    BY <1>1, <1>3, <1>5
  <2> QED
    BY <2>1, <2>2, Zenon
<1>8. \A j \in i + 1..Len(s) + 1 : (ae \o b)[j] = s[j - 1]
  BY <1>1, <1>3, <1>7, SMT
<1>9. InsertAt(s, i, e) = ae \o b
  BY DEF InsertAt, ae, a, b
<1> QED
  BY <1>1, <1>6, <1>7, <1>8, <1>9, SMT

\* A non-empty set of positive numbers has the minimum Min takes.
LEMMA MinProperties ==
  ASSUME NEW I \in SUBSET (Nat \ {0}), I # {}
  PROVE  Min(I) \in I /\ (\A j \in I : Min(I) <= j)
<1>1. PICK x \in I : \A y \in I : ~(<<y, x>> \in OpToRel(<, Nat))
  <2>1. I \subseteq Nat
    OBVIOUS
  <2> QED
    BY <2>1, NatLessThanWellFounded, WFMin, Zenon
<1>2. \A y \in I : x <= y
  <2> SUFFICES ASSUME NEW y \in I, y < x
               PROVE  FALSE
    OBVIOUS
  <2>1. <<y, x>> \in OpToRel(<, Nat)
    BY DEF OpToRel
  <2> QED
    BY <1>1, <2>1, Zenon
<1>3. \E m \in I : \A y \in I : m =< y
  BY <1>2
<1> QED
  BY <1>3 DEF Min

\* RemoveFirst, muxEntry.remove: a sequence over the same elements, at most
\* one shorter, and s itself when e does not occur.
LEMMA RemoveFirstProperties ==
  ASSUME NEW S, NEW s \in Seq(S), NEW e
  PROVE  /\ RemoveFirst(s, e) \in Seq(S)
         /\ Len(RemoveFirst(s, e)) \in {Len(s), Len(s) - 1}
<1> DEFINE I == {i \in 1..Len(s) : s[i] = e}
<1>1. Len(s) \in Nat /\ (\A j \in 1..Len(s) : s[j] \in S)
  BY ElementOfSeq, LenProperties
<1>2. CASE ~ \E i \in 1..Len(s) : s[i] = e
  BY <1>1, <1>2 DEF RemoveFirst
<1>3. CASE \E i \in 1..Len(s) : s[i] = e
  <2>1. I # {} /\ I \in SUBSET (Nat \ {0})
    BY <1>1, <1>3
  <2>2. PICK k \in 1..Len(s) : k = Min(I)
    BY <2>1, MinProperties
  <2>3. RemoveFirst(s, e) = RemoveAt(s, k)
    BY <1>3, <2>1, <2>2 DEF RemoveFirst, SelectInSeq
  <2> DEFINE a == SubSeq(s, 1, k - 1)
             b == SubSeq(s, k + 1, Len(s))
  <2>4. a \in Seq(S) /\ Len(a) = k - 1
    BY <1>1, SubSeqProperties, SMT
  <2>5. b \in Seq(S) /\ Len(b) = Len(s) - k
    BY <1>1, SubSeqProperties, SMT
  <2> HIDE DEF a, b
  <2>6. a \o b \in Seq(S) /\ Len(a \o b) = Len(s) - 1
    <3>1. a \o b \in Seq(S) /\ Len(a \o b) = Len(a) + Len(b)
      BY <2>4, <2>5, ConcatProperties, Zenon
    <3> QED
      BY <1>1, <2>4, <2>5, <3>1
  <2>7. RemoveAt(s, k) = a \o b
    BY DEF RemoveAt, a, b
  <2> QED
    BY <2>3, <2>6, <2>7
<1> QED
  BY <1>2, <1>3

\* Copying the first n elements of b to the end of a loses and adds nothing.
LEMMA CopyProperties ==
  ASSUME NEW S, NEW a \in Seq(S), NEW b \in Seq(S), NEW n \in 1..Len(b)
  PROVE  /\ a \o SubSeq(b, 1, n) \in Seq(S)
         /\ SubSeq(b, n + 1, Len(b)) \in Seq(S)
         /\ (a \o SubSeq(b, 1, n)) \o SubSeq(b, n + 1, Len(b)) = a \o b
<1> DEFINE head == SubSeq(b, 1, n)
           rest == SubSeq(b, n + 1, Len(b))
<1>1. Len(b) \in Nat /\ n \in Nat /\ 1 <= n /\ n <= Len(b)
  BY LenProperties
<1>2. head \in Seq(S)
  BY <1>1, SubSeqProperties, SMT
<1>3. rest \in Seq(S)
  BY <1>1, SubSeqProperties, SMT
<1>4. head \o rest = b
  <2>1. head \o rest = SubSeq(b, 1, Len(b))
    BY <1>1, ConcatAdjacentSubSeq, SMT
  <2> QED
    BY <2>1, SubSeqFull
<1> HIDE DEF head, rest
<1>5. a \o head \in Seq(S)
  BY <1>2, ConcatProperties
<1>6. (a \o head) \o rest = a \o (head \o rest)
  BY <1>2, <1>3, ConcatAssociative
<1>7. (a \o head) \o rest = a \o b
  BY <1>4, <1>6
<1> QED
  BY <1>3, <1>5, <1>7 DEF head, rest

-----------------------------------------------------------------------------
\* Induction on a range of numbers, with a set in place of a predicate.
LEMMA Ascend ==
  ASSUME NEW N \in Nat, NEW A,
         \A n \in 1..N : (n = 1 \/ n - 1 \in A) => n \in A
  PROVE  1..N \subseteq A
<1> DEFINE Bad == {n \in 1..N : n \notin A}
<1> SUFFICES ASSUME Bad # {}
             PROVE  FALSE
  OBVIOUS
<1>1. Bad \in SUBSET (Nat \ {0})
  OBVIOUS
<1>2. PICK m \in Bad : \A j \in Bad : m <= j
  BY <1>1, MinProperties
<1>3. m \in 1..N /\ m \notin A
  OBVIOUS
<1>4. m # 1 /\ m - 1 \notin A
  BY <1>3
<1>5. m - 1 \in Bad
  BY <1>3, <1>4
<1> QED
  BY <1>2, <1>3, <1>5

(***************************************************************************)
(* FlattenSeq, the appending of whole sequences.                           *)
(***************************************************************************)

\* f[i] is the concatenation of the first i sequences of ss.
Flattens(f, ss) ==
  f = [i \in 1..Len(ss) |-> IF i = 1 THEN ss[i] ELSE f[i - 1] \o ss[i]]

\* The recursion in FlattenSeq has a solution.
LEMMA FlattensExists ==
  ASSUME NEW S, NEW ss \in Seq(Seq(S))
  PROVE  \E f \in [1..Len(ss) -> Seq(S)] : Flattens(f, ss)
<1> DEFINE N == Len(ss)
           Sol(n) == {f \in [1..n -> Seq(S)] :
                        \A i \in 1..n :
                          f[i] = IF i = 1 THEN ss[i] ELSE f[i - 1] \o ss[i]}
           A == {n \in 1..N : Sol(n) # {}}
<1>1. N \in Nat /\ (\A i \in 1..N : ss[i] \in Seq(S))
  BY ElementOfSeq, LenProperties
<1> HIDE DEF N
<1>2. ASSUME NEW n \in 1..N, n = 1 \/ n - 1 \in A
      PROVE  n \in A
  <2>1. CASE n = 1
    <3> DEFINE f == [i \in 1..n |-> ss[1]]
    <3>1. f \in Sol(n)
      BY <1>1, <2>1
    <3> QED
      BY <3>1
  <2>2. CASE n # 1
    <3>1. PICK g : g \in Sol(n - 1)
      BY <1>2, <2>2
    <3> DEFINE f == [i \in 1..n |-> IF i = n THEN g[n - 1] \o ss[n] ELSE g[i]]
    <3>2. g \in [1..n - 1 -> Seq(S)] /\ n - 1 \in 1..n - 1
      BY <1>1, <2>2, <3>1
    <3>3. g[n - 1] \o ss[n] \in Seq(S)
      BY <1>1, <3>2, ConcatProperties
    <3>4. f \in [1..n -> Seq(S)]
      BY <1>1, <3>2, <3>3
    <3>5. ASSUME NEW i \in 1..n
          PROVE  f[i] = IF i = 1 THEN ss[i] ELSE f[i - 1] \o ss[i]
      <4>1. CASE i = n
        <5>1. n - 1 \in 1..n /\ n - 1 # n /\ n \in 1..n
          BY <1>1, <2>2
        <5>2. f[n] = g[n - 1] \o ss[n] /\ f[n - 1] = g[n - 1]
          BY <5>1
        <5> QED
          BY <2>2, <4>1, <5>2
      <4>2. CASE i # n
        <5>1. i \in 1..n - 1 /\ f[i] = g[i]
          BY <1>1, <4>2
        <5>2. g[i] = IF i = 1 THEN ss[i] ELSE g[i - 1] \o ss[i]
          BY <3>1, <5>1
        <5>3. i # 1 => f[i - 1] = g[i - 1]
          BY <1>1, <4>2
        <5> QED
          BY <5>1, <5>2, <5>3
      <4> QED
        BY <4>1, <4>2
    <3>6. f \in Sol(n)
      BY <3>4, <3>5
    <3> QED
      BY <3>6
  <2> QED
    BY <2>1, <2>2
<1>3. 1..N \subseteq A
  BY <1>1, <1>2, Ascend
<1>4. CASE N = 0
  <2> DEFINE f == [i \in 1..0 |-> <<>>]
  <2>1. f \in [1..N -> Seq(S)]
    BY <1>4
  <2>2. Flattens(f, ss)
    BY <1>4 DEF Flattens, N
  <2> QED
    BY <2>1, <2>2 DEF N
<1>5. CASE N # 0
  <2>1. N \in A
    <3> HIDE DEF A
    <3>1. N \in 1..N
      BY <1>1, <1>5
    <3> QED
      BY <1>3, <3>1
  <2>2. PICK f : f \in Sol(N)
    BY <2>1
  <2>3. f \in [1..N -> Seq(S)]
        /\ f = [i \in 1..N |-> IF i = 1 THEN ss[i] ELSE f[i - 1] \o ss[i]]
    BY <2>2
  <2> QED
    BY <2>3 DEF Flattens, N
<1> QED
  BY <1>4, <1>5

\* What FlattenSeq takes from it.
LEMMA FlattenSeqDef ==
  ASSUME NEW S, NEW ss \in Seq(Seq(S)), ss # <<>>
  PROVE  \E f : Flattens(f, ss) /\ FlattenSeq(ss) = f[Len(ss)]
<1>1. \E f : f = [i \in 1..Len(ss) |->
                    IF i = 1 THEN ss[i] ELSE f[i - 1] \o ss[i]]
  <2>1. PICK f : Flattens(f, ss)
    BY FlattensExists, Zenon
  <2> QED
    BY <2>1, Zenon DEF Flattens
<1> DEFINE g == CHOOSE f : f = [i \in 1..Len(ss) |->
                    IF i = 1 THEN ss[i] ELSE f[i - 1] \o ss[i]]
<1>2. Flattens(g, ss)
  BY <1>1 DEF Flattens
<1>3. Len(ss) # 0
  BY EmptySeq
<1>4. FlattenSeq(ss) = g[Len(ss)]
  BY <1>3 DEF FlattenSeq
<1> QED
  BY <1>2, <1>4

\* Concatenation as a name, kept folded where only its laws matter.
Cat(s, t) == s \o t

\* The laws of concatenation.
LEMMA CatLaws ==
  ASSUME NEW S
  PROVE  /\ \A s, t \in Seq(S) : Cat(s, t) \in Seq(S)
         /\ \A s, t, u \in Seq(S) : Cat(Cat(s, t), u) = Cat(s, Cat(t, u))
         /\ \A s \in Seq(S) : Cat(s, <<>>) = s /\ Cat(<<>>, s) = s
<1>1. \A s, t \in Seq(S) : s \o t \in Seq(S)
  BY ConcatProperties
<1>2. \A s, t, u \in Seq(S) : (s \o t) \o u = s \o (t \o u)
  BY ConcatAssociative
<1>3. \A s \in Seq(S) : s \o <<>> = s /\ <<>> \o s = s
  BY ConcatEmptySeq
<1> QED
  BY <1>1, <1>2, <1>3, Zenon DEF Cat

\* The same step by step, with types.
FlattenSteps(f, ss, S) ==
  /\ Len(ss) \in Nat
  /\ \A i \in 1..Len(ss) : f[i] \in Seq(S) /\ ss[i] \in Seq(S)
  /\ \A i \in 1..Len(ss) : i = 1 => f[i] = ss[i]
  /\ \A i \in 1..Len(ss) : i # 1 => f[i] = Cat(f[i - 1], ss[i])

\* A solution of the recursion is one step by step.
LEMMA FlattensStep ==
  ASSUME NEW S, NEW ss \in Seq(Seq(S)), NEW f, Flattens(f, ss)
  PROVE  FlattenSteps(f, ss, S)
<1> DEFINE N == Len(ss)
           A == {i \in 1..N : f[i] \in Seq(S)}
<1>1. N \in Nat /\ (\A i \in 1..N : ss[i] \in Seq(S))
  BY ElementOfSeq, LenProperties
<1>2. \A i \in 1..N : f[i] = IF i = 1 THEN ss[i] ELSE f[i - 1] \o ss[i]
  BY Zenon DEF Flattens
<1> HIDE DEF N
<1>3. ASSUME NEW n \in 1..N, n = 1 \/ n - 1 \in A
      PROVE  n \in A
  <2>1. CASE n = 1
    BY <1>1, <1>2, <2>1
  <2>2. CASE n # 1
    <3>1. f[n - 1] \in Seq(S) /\ f[n] = f[n - 1] \o ss[n]
      BY <1>2, <1>3, <2>2
    <3>2. f[n - 1] \o ss[n] \in Seq(S)
      BY <1>1, <3>1, ConcatProperties
    <3> QED
      BY <3>1, <3>2
  <2> QED
    BY <2>1, <2>2
<1>4. 1..N \subseteq A
  BY <1>1, <1>3, Ascend
<1>5. \A i \in 1..N : f[i] \in Seq(S)
  BY <1>4
<1>6. \A i \in 1..N : i = 1 => f[i] = ss[i]
  BY <1>2, Zenon
<1>7. \A i \in 1..N : i # 1 => f[i] = Cat(f[i - 1], ss[i])
  BY <1>2, Zenon DEF Cat
<1> QED
  BY <1>1, <1>5, <1>6, <1>7, Zenon DEF N, FlattenSteps

\* FlattenSeq yields a sequence of the elements.
LEMMA FlattenSeqType ==
  ASSUME NEW S, NEW ss \in Seq(Seq(S))
  PROVE  FlattenSeq(ss) \in Seq(S)
<1>1. CASE ss = <<>>
  <2>1. FlattenSeq(ss) = <<>>
    BY <1>1, EmptySeq DEF FlattenSeq
  <2> QED
    BY <2>1, EmptySeq
<1>2. CASE ss # <<>>
  <2>1. PICK f : Flattens(f, ss) /\ FlattenSeq(ss) = f[Len(ss)]
    BY <1>2, FlattenSeqDef
  <2>2. Len(ss) \in 1..Len(ss)
    BY <1>2, EmptySeq, LenProperties
  <2>3. FlattenSteps(f, ss, S)
    BY <2>1, FlattensStep
  <2> QED
    BY <2>1, <2>2, <2>3 DEF FlattenSteps
<1> QED
  BY <1>1, <1>2

\* One more sequence at the end.
LEMMA FlattenSeqAppend ==
  ASSUME NEW S, NEW ss \in Seq(Seq(S)), NEW s \in Seq(S)
  PROVE  FlattenSeq(Append(ss, s)) = Cat(FlattenSeq(ss), s)
<1> DEFINE tt == Append(ss, s)
           N == Len(ss)
<1>1. /\ tt \in Seq(Seq(S)) /\ Len(tt) = N + 1 /\ tt[N + 1] = s
      /\ \A i \in 1..N : tt[i] = ss[i]
      /\ tt # <<>> /\ N \in Nat
  BY AppendProperties, LenProperties
<1> HIDE DEF tt
<1>2. PICK g : Flattens(g, tt) /\ FlattenSeq(tt) = g[Len(tt)]
  BY <1>1, FlattenSeqDef
<1>a. FlattenSteps(g, tt, S)
  BY <1>1, <1>2, FlattensStep
<1>3. /\ g[1] = tt[1]
      /\ \A i \in 1..N + 1 : i # 1 => g[i] = Cat(g[i - 1], tt[i])
  BY <1>1, <1>a DEF FlattenSteps
<1>4. CASE ss = <<>>
  <2>1. N = 0 /\ FlattenSeq(ss) = <<>>
    BY <1>4, EmptySeq DEF FlattenSeq
  <2>2. Cat(<<>>, s) = s
    BY CatLaws
  <2>3. FlattenSeq(tt) = s
    BY <1>1, <1>2, <1>3, <2>1
  <2> QED
    BY <2>1, <2>2, <2>3 DEF tt
<1>5. CASE ss # <<>>
  <2>1. PICK f : Flattens(f, ss) /\ FlattenSeq(ss) = f[N]
    BY <1>5, FlattenSeqDef
  <2>2. N # 0
    BY <1>5, EmptySeq
  <2>a. FlattenSteps(f, ss, S)
    BY <2>1, FlattensStep
  <2>3. f[1] = ss[1] /\ (\A i \in 1..N : i # 1 => f[i] = Cat(f[i - 1], ss[i]))
    BY <1>1, <2>2, <2>a DEF FlattenSteps
  <2> HIDE DEF N
  <2> DEFINE A == {i \in 1..N : g[i] = f[i]}
  <2>4. ASSUME NEW n \in 1..N, n = 1 \/ n - 1 \in A
        PROVE  n \in A
    <3>1. CASE n = 1
      BY <1>1, <1>3, <2>3, <3>1
    <3>2. CASE n # 1
      <4>1. n \in 1..N + 1 /\ g[n - 1] = f[n - 1]
        BY <1>1, <2>4, <3>2
      <4>2. g[n] = Cat(f[n - 1], ss[n])
        BY <1>1, <1>3, <3>2, <4>1
      <4> QED
        BY <2>3, <3>2, <4>2
    <3> QED
      BY <3>1, <3>2
  <2>5. 1..N \subseteq A
    BY <1>1, <2>4, Ascend
  <2>6. g[N] = f[N]
    BY <1>1, <2>2, <2>5
  <2>7. g[N + 1] = Cat(g[N], s)
    <3>1. N + 1 \in 1..N + 1 /\ N + 1 # 1 /\ N + 1 - 1 = N
      BY <1>1, <2>2
    <3>2. g[N + 1] = Cat(g[N + 1 - 1], tt[N + 1])
      BY <1>1, <1>3, <3>1
    <3> QED
      BY <1>1, <3>1, <3>2, Zenon
  <2> QED
    BY <1>1, <1>2, <2>1, <2>6, <2>7 DEF tt
<1> QED
  BY <1>4, <1>5

\* One sequence fewer at the front.
LEMMA FlattenSeqTail ==
  ASSUME NEW S, NEW ss \in Seq(Seq(S)), ss # <<>>
  PROVE  FlattenSeq(ss) = Cat(Head(ss), FlattenSeq(Tail(ss)))
<1> DEFINE tt == Tail(ss)
           N == Len(ss)
<1>1. /\ Head(ss) = ss[1] /\ tt \in Seq(Seq(S)) /\ Len(tt) = N - 1
      /\ \A i \in 1..N - 1 : tt[i] = ss[i + 1]
      /\ N \in Nat /\ N # 0
  BY HeadTailProperties, LenProperties, EmptySeq
<1> HIDE DEF tt
<1>2. PICK f : Flattens(f, ss) /\ FlattenSeq(ss) = f[N]
  BY FlattenSeqDef
<1>a. FlattenSteps(f, ss, S)
  BY <1>2, FlattensStep
<1>3. /\ f[1] = ss[1]
      /\ \A i \in 1..N : i # 1 => f[i] = Cat(f[i - 1], ss[i])
      /\ \A i \in 1..N : ss[i] \in Seq(S)
  BY <1>1, <1>a DEF FlattenSteps
<1>4. CASE tt = <<>>
  <2>1. Len(tt) = 0 /\ FlattenSeq(tt) = <<>>
    BY <1>4, EmptySeq DEF FlattenSeq
  <2>2. N = 1
    BY <1>1, <2>1
  <2>3. Cat(ss[1], <<>>) = ss[1]
    BY <1>3, <2>2, CatLaws
  <2> QED
    BY <1>1, <1>2, <1>3, <2>1, <2>2, <2>3 DEF tt
<1>5. CASE tt # <<>>
  <2>1. PICK g : Flattens(g, tt) /\ FlattenSeq(tt) = g[Len(tt)]
    BY <1>1, <1>5, FlattenSeqDef
  <2>2. N - 1 \in Nat /\ N - 1 # 0
    BY <1>1, <1>5, EmptySeq
  <2>a. FlattenSteps(g, tt, S)
    BY <1>1, <2>1, FlattensStep
  <2>3. /\ g[1] = tt[1]
        /\ \A i \in 1..N - 1 : i # 1 => g[i] = Cat(g[i - 1], tt[i])
        /\ \A i \in 1..N - 1 : g[i] \in Seq(S) /\ tt[i] \in Seq(S)
    BY <1>1, <2>2, <2>a DEF FlattenSteps
  <2> HIDE DEF N
  <2> DEFINE A == {i \in 1..N - 1 : f[i + 1] = Cat(ss[1], g[i])}
  <2>4. ASSUME NEW n \in 1..N - 1, n = 1 \/ n - 1 \in A
        PROVE  n \in A
    <3>1. n + 1 \in 1..N /\ n + 1 # 1 /\ n + 1 - 1 = n
      BY <1>1
    <3>2. f[n + 1] = Cat(f[n], ss[n + 1])
      <4>1. f[n + 1] = Cat(f[n + 1 - 1], ss[n + 1])
        BY <1>3, <3>1
      <4> QED
        BY <3>1, <4>1, Zenon
    <3>3. ss[n + 1] = tt[n]
      BY <1>1
    <3>4. CASE n = 1
      <4>1. f[n + 1] = Cat(ss[1], g[n])
        BY <1>3, <2>3, <3>2, <3>3, <3>4
      <4> QED
        BY <4>1
    <3>5. CASE n # 1
      <4>1. n - 1 \in 1..N - 1 /\ n - 1 + 1 = n
        BY <1>1, <3>5
      <4>2. f[n] = Cat(ss[1], g[n - 1])
        BY <2>4, <3>5, <4>1
      <4>3. g[n] = Cat(g[n - 1], tt[n])
        BY <2>3, <3>5, Zenon
      <4>4. g[n - 1] \in Seq(S) /\ tt[n] \in Seq(S) /\ ss[1] \in Seq(S)
        BY <1>1, <1>3, <2>3, <4>1
      <4>5. Cat(Cat(ss[1], g[n - 1]), tt[n]) = Cat(ss[1], Cat(g[n - 1], tt[n]))
        <5>1. \A s, t, u \in Seq(S) : Cat(Cat(s, t), u) = Cat(s, Cat(t, u))
          BY CatLaws
        <5> QED
          BY <4>4, <5>1
      <4>6. f[n + 1] = Cat(ss[1], g[n])
        BY <3>2, <3>3, <4>2, <4>3, <4>5
      <4> QED
        BY <4>6
    <3> QED
      BY <3>4, <3>5
  <2>5. 1..N - 1 \subseteq A
    <3> HIDE DEF A
    <3> QED
      BY <2>2, <2>4, Ascend
  <2>6. N - 1 \in 1..N - 1 /\ N - 1 + 1 = N
    BY <1>1, <2>2
  <2>7. f[N] = Cat(ss[1], g[N - 1])
    BY <2>5, <2>6
  <2> QED
    BY <1>1, <1>2, <2>1, <2>7 DEF tt
<1> QED
  BY <1>4, <1>5

-----------------------------------------------------------------------------
\* The elements of a concatenation, and where they are.
LEMMA CatElements ==
  ASSUME NEW S, NEW s \in Seq(S), NEW t \in Seq(S)
  PROVE  /\ Len(Cat(s, t)) = Len(s) + Len(t)
         /\ \A i \in 1..Len(s) : Cat(s, t)[i] = s[i]
         /\ \A i \in 1..Len(t) : Cat(s, t)[Len(s) + i] = t[i]
         /\ \A i \in 1..Len(s) + Len(t) :
              i <= Len(s) \/ (i - Len(s) \in 1..Len(t) /\ Cat(s, t)[i] = t[i - Len(s)])
<1>1. Len(s) \in Nat /\ Len(t) \in Nat
  BY LenProperties
<1>2. /\ Len(s \o t) = Len(s) + Len(t)
      /\ \A i \in 1..Len(s) + Len(t) :
           (s \o t)[i] = IF i <= Len(s) THEN s[i] ELSE t[i - Len(s)]
  BY ConcatProperties, Zenon
<1> DEFINE c == s \o t
<1> HIDE DEF c
<1>3. /\ Len(c) = Len(s) + Len(t)
      /\ \A i \in 1..Len(s) + Len(t) :
           c[i] = IF i <= Len(s) THEN s[i] ELSE t[i - Len(s)]
  BY <1>2 DEF c
<1>4. \A i \in 1..Len(s) : c[i] = s[i]
  BY <1>1, <1>3
<1>5. \A i \in 1..Len(t) : c[Len(s) + i] = t[i]
  BY <1>1, <1>3
<1>6. \A i \in 1..Len(s) + Len(t) :
        i <= Len(s) \/ (i - Len(s) \in 1..Len(t) /\ c[i] = t[i - Len(s)])
  BY <1>1, <1>3
<1> QED
  BY <1>3, <1>4, <1>5, <1>6, Zenon DEF c, Cat

\* ToSet by positions.
LEMMA ToSetIndex ==
  ASSUME NEW S, NEW s \in Seq(S)
  PROVE  /\ ToSet(s) = {s[i] : i \in 1..Len(s)}
         /\ ToSet(s) \subseteq S
         /\ DOMAIN s = 1..Len(s)
BY LenProperties, ElementOfSeq DEF ToSet

\* The elements of a concatenation are those of its parts.
LEMMA CatToSet ==
  ASSUME NEW S, NEW s \in Seq(S), NEW t \in Seq(S)
  PROVE  ToSet(Cat(s, t)) = ToSet(s) \cup ToSet(t)
<1> DEFINE c == Cat(s, t)
<1>1. Len(s) \in Nat /\ Len(t) \in Nat
  BY LenProperties
<1>2. c \in Seq(S)
  BY CatLaws
<1>3. /\ Len(c) = Len(s) + Len(t)
      /\ \A i \in 1..Len(s) : c[i] = s[i]
      /\ \A i \in 1..Len(t) : c[Len(s) + i] = t[i]
      /\ \A i \in 1..Len(s) + Len(t) :
           i <= Len(s) \/ (i - Len(s) \in 1..Len(t) /\ c[i] = t[i - Len(s)])
  BY CatElements
<1> HIDE DEF c
<1>4. /\ ToSet(c) = {c[i] : i \in 1..Len(c)}
      /\ ToSet(s) = {s[i] : i \in 1..Len(s)}
      /\ ToSet(t) = {t[i] : i \in 1..Len(t)}
  BY <1>2, ToSetIndex
<1>5. ASSUME NEW e \in ToSet(c)
      PROVE  e \in ToSet(s) \cup ToSet(t)
  <2>1. PICK i \in 1..Len(s) + Len(t) : e = c[i]
    BY <1>3, <1>4, <1>5
  <2>2. CASE i <= Len(s)
    <3>1. i \in 1..Len(s)
      BY <1>1, <2>2
    <3> QED
      BY <1>3, <1>4, <2>1, <3>1
  <2>3. CASE ~(i <= Len(s))
    BY <1>3, <1>4, <2>1, <2>3
  <2> QED
    BY <2>2, <2>3
<1>6. ASSUME NEW i \in 1..Len(s)
      PROVE  s[i] \in ToSet(c)
  <2>1. i \in 1..Len(c)
    BY <1>1, <1>3
  <2> QED
    BY <1>3, <1>4, <2>1
<1>7. ASSUME NEW i \in 1..Len(t)
      PROVE  t[i] \in ToSet(c)
  <2>1. Len(s) + i \in 1..Len(c)
    BY <1>1, <1>3
  <2> QED
    BY <1>3, <1>4, <2>1
<1> QED
  BY <1>4, <1>5, <1>6, <1>7 DEF c

-----------------------------------------------------------------------------
\* Appending an element that does not occur.
LEMMA AppendNew ==
  ASSUME NEW S, NEW s \in Seq(S), NEW t \in S, IsInjective(s), t \notin ToSet(s)
  PROVE  /\ IsInjective(Append(s, t))
         /\ ToSet(Append(s, t)) = ToSet(s) \cup {t}
<1> DEFINE a == Append(s, t)
<1>1. /\ Len(s) \in Nat /\ a \in Seq(S) /\ Len(a) = Len(s) + 1
      /\ \A i \in 1..Len(s) : a[i] = s[i]
      /\ a[Len(s) + 1] = t
  BY AppendProperties, LenProperties
<1> HIDE DEF a
<1>2. /\ DOMAIN a = 1..Len(a) /\ DOMAIN s = 1..Len(s)
      /\ ToSet(a) = {a[i] : i \in 1..Len(a)}
      /\ ToSet(s) = {s[i] : i \in 1..Len(s)}
  BY <1>1, ToSetIndex
<1>3. /\ \A i \in 1..Len(a) : i \in 1..Len(s) \/ i = Len(s) + 1
      /\ \A i \in 1..Len(s) : i \in 1..Len(a)
      /\ Len(s) + 1 \in 1..Len(a)
  BY <1>1
<1>4. ToSet(a) = ToSet(s) \cup {t}
  BY <1>1, <1>2, <1>3
<1>5. ASSUME NEW i \in 1..Len(a), NEW j \in 1..Len(a), a[i] = a[j]
      PROVE  i = j
  <2>1. \A k \in 1..Len(s) : a[k] = s[k] /\ s[k] # t
    BY <1>1, <1>2
  <2>2. \A k, l \in 1..Len(s) : s[k] = s[l] => k = l
    BY <1>2 DEF IsInjective
  <2> QED
    BY <1>1, <1>3, <1>5, <2>1, <2>2
<1>6. IsInjective(a)
  BY <1>2, <1>5 DEF IsInjective
<1> QED
  BY <1>4, <1>6 DEF a

\* Append adds one element.
LEMMA AppendToSet ==
  ASSUME NEW S
  PROVE  \A s \in Seq(S) : \A x \in S : ToSet(Append(s, x)) = ToSet(s) \cup {x}
<1> SUFFICES ASSUME NEW s \in Seq(S), NEW x \in S
             PROVE  ToSet(Append(s, x)) = ToSet(s) \cup {x}
  OBVIOUS
<1> DEFINE one == <<x>>
<1>1. one \in Seq(S) /\ Len(one) = 1 /\ one[1] = x /\ 1..1 = {1}
  OBVIOUS
<1>2. Append(s, x) = Cat(s, one)
  BY DEF Cat
<1> HIDE DEF one
<1>3. ToSet(one) = {x}
  BY <1>1, ToSetIndex
<1> QED
  BY <1>1, <1>2, <1>3, CatToSet

\* RemoveFirst, the removal of a handler by its id: the first element t is gone
\* and the later ones have moved up.
LEMMA RemoveFirstElements ==
  ASSUME NEW S, NEW s \in Seq(S), NEW t, t \in ToSet(s)
  PROVE  \E k \in 1..Len(s) :
           /\ s[k] = t
           /\ RemoveFirst(s, t) \in Seq(S)
           /\ Len(RemoveFirst(s, t)) = Len(s) - 1
           /\ \A i \in 1..Len(s) - 1 :
                /\ i < k => RemoveFirst(s, t)[i] = s[i]
                /\ ~(i < k) => RemoveFirst(s, t)[i] = s[i + 1]
<1> DEFINE I == {i \in 1..Len(s) : s[i] = t}
<1>a. /\ Len(s) \in Nat /\ (\A j \in 1..Len(s) : s[j] \in S)
      /\ DOMAIN s = 1..Len(s) /\ ToSet(s) = {s[i] : i \in 1..Len(s)}
  BY ElementOfSeq, LenProperties, ToSetIndex
<1>b. \E i \in 1..Len(s) : s[i] = t
  BY <1>a
<1>1. I # {} /\ I \in SUBSET (Nat \ {0})
  BY <1>a, <1>b
<1>2. PICK k \in 1..Len(s) : k = Min(I) /\ s[k] = t
  BY <1>1, MinProperties
<1>3. RemoveFirst(s, t) = RemoveAt(s, k)
  BY <1>b, <1>1, <1>2 DEF RemoveFirst, SelectInSeq
<1> DEFINE a == SubSeq(s, 1, k - 1)
           b == SubSeq(s, k + 1, Len(s))
           c == Cat(a, b)
<1>4. /\ a \in Seq(S) /\ Len(a) = k - 1
      /\ \A i \in 1..k - 1 : a[i] = s[i]
  BY <1>a, SubSeqProperties, SMT
<1>5. /\ b \in Seq(S) /\ Len(b) = Len(s) - k
      /\ \A i \in 1..Len(s) - k : b[i] = s[k + i]
  <2>1. k + 1 \in Int /\ Len(s) \in Int /\ (\A i \in k + 1..Len(s) : s[i] \in S)
    BY <1>a
  <2>2. b \in Seq(S)
    BY <2>1, SubSeqProperties
  <2>a. Len(b) = IF k + 1 <= Len(s) THEN Len(s) - (k + 1) + 1 ELSE 0
    BY <2>1, SubSeqProperties
  <2>b. \A i \in 1..Len(s) - (k + 1) + 1 : b[i] = s[(k + 1) + i - 1]
    BY <2>1, SubSeqProperties
  <2> HIDE DEF b
  <2>3. Len(b) = Len(s) - k
    <3>1. CASE k + 1 <= Len(s)
      BY <1>a, <2>a, <3>1
    <3>2. CASE ~(k + 1 <= Len(s))
      <4>1. k = Len(s)
        BY <1>a, <1>2, <3>2
      <4>2. Len(b) = 0
        BY <2>a, <3>2
      <4> QED
        BY <1>a, <4>1, <4>2
    <3> QED
      BY <3>1, <3>2
  <2>4. ASSUME NEW i \in 1..Len(s) - k
        PROVE  b[i] = s[k + i]
    <3>1. i \in 1..Len(s) - (k + 1) + 1 /\ (k + 1) + i - 1 = k + i
      BY <1>a
    <3> QED
      BY <2>b, <3>1
  <2> QED
    BY <2>2, <2>3, <2>4
<1>6. RemoveAt(s, k) = c
  BY DEF RemoveAt, Cat
<1> HIDE DEF a, b
<1>7. c \in Seq(S) /\ ToSet(c) = ToSet(a) \cup ToSet(b)
  BY <1>4, <1>5, CatLaws, CatToSet
<1>8. /\ Len(c) = Len(a) + Len(b)
      /\ \A i \in 1..Len(a) : c[i] = a[i]
      /\ \A i \in 1..Len(a) + Len(b) :
           i <= Len(a) \/ (i - Len(a) \in 1..Len(b) /\ c[i] = b[i - Len(a)])
  <2>1. a \in Seq(S) /\ b \in Seq(S)
    BY <1>4, <1>5
  <2> QED
    BY <2>1, CatElements, Zenon
<1> HIDE DEF c
<1>9. Len(c) = Len(s) - 1
  BY <1>a, <1>4, <1>5, <1>8
<1>10. ASSUME NEW i \in 1..Len(c)
       PROVE  /\ i < k => c[i] = s[i]
              /\ ~(i < k) => c[i] = s[i + 1]
  <2>1. CASE i < k
    <3>1. i \in 1..k - 1 /\ i \in 1..Len(a)
      BY <1>a, <1>4, <2>1
    <3> QED
      BY <1>4, <1>8, <2>1, <3>1
  <2>2. CASE ~(i < k)
    <3>1. /\ i - Len(a) \in 1..Len(b) /\ c[i] = b[i - Len(a)]
          /\ i - Len(a) = i - k + 1 /\ k + (i - Len(a)) = i + 1
      BY <1>a, <1>4, <1>5, <1>8, <2>2
    <3> DEFINE j == i - Len(a)
    <3>2. j \in 1..Len(s) - k /\ c[i] = b[j] /\ k + j = i + 1
      BY <1>5, <3>1
    <3> HIDE DEF j
    <3>3. b[j] = s[k + j]
      BY <1>5, <3>2
    <3> QED
      BY <2>2, <3>2, <3>3
  <2> QED
    BY <2>1, <2>2
<1> QED
  BY <1>2, <1>3, <1>6, <1>7, <1>9, <1>10

\* Removing an element from a sequence that lists nothing twice removes it.
LEMMA RemoveFirstInjective ==
  ASSUME NEW S, NEW s \in Seq(S), NEW t, IsInjective(s)
  PROVE  /\ IsInjective(RemoveFirst(s, t))
         /\ ToSet(RemoveFirst(s, t)) = ToSet(s) \ {t}
<1>1. /\ Len(s) \in Nat /\ (\A j \in 1..Len(s) : s[j] \in S)
      /\ DOMAIN s = 1..Len(s) /\ ToSet(s) = {s[i] : i \in 1..Len(s)}
  BY ElementOfSeq, LenProperties, ToSetIndex
<1>2. CASE ~ \E i \in 1..Len(s) : s[i] = t
  BY <1>1, <1>2 DEF RemoveFirst
<1>3. CASE \E i \in 1..Len(s) : s[i] = t
  <2> DEFINE c == RemoveFirst(s, t)
  <2>1. t \in ToSet(s)
    BY <1>1, <1>3
  <2>2. PICK k \in 1..Len(s) :
          /\ s[k] = t /\ c \in Seq(S) /\ Len(c) = Len(s) - 1
          /\ \A i \in 1..Len(s) - 1 :
               (i < k => c[i] = s[i]) /\ (~(i < k) => c[i] = s[i + 1])
    BY <2>1, RemoveFirstElements
  <2> HIDE DEF c
  <2>7. c \in Seq(S)
    BY <2>2
  <2>9. Len(c) = Len(s) - 1
    BY <2>2
  <2>10. \A i \in 1..Len(c) :
           (i < k => c[i] = s[i]) /\ (~(i < k) => c[i] = s[i + 1])
    BY <2>2, <2>9
  <2>11. \A i, j \in 1..Len(s) : s[i] = s[j] => i = j
    BY <1>1 DEF IsInjective
  <2>12. DOMAIN c = 1..Len(c) /\ ToSet(c) = {c[i] : i \in 1..Len(c)}
    BY <2>7, ToSetIndex
  <2>13. ASSUME NEW i \in 1..Len(c), NEW j \in 1..Len(c), c[i] = c[j]
         PROVE  i = j
    <3>1. /\ i \in 1..Len(s) /\ i + 1 \in 1..Len(s)
          /\ j \in 1..Len(s) /\ j + 1 \in 1..Len(s)
      BY <1>1, <2>9
    <3>2. CASE i < k /\ j < k
      BY <2>10, <2>11, <2>13, <3>1, <3>2
    <3>3. CASE ~(i < k) /\ ~(j < k)
      <4>1. i + 1 = j + 1
        BY <2>10, <2>11, <2>13, <3>1, <3>3
      <4> QED
        BY <3>1, <4>1
    <3>4. CASE i < k /\ ~(j < k)
      <4>1. i = j + 1
        BY <2>10, <2>11, <2>13, <3>1, <3>4
      <4> QED
        BY <3>1, <3>4, <4>1
    <3>5. CASE ~(i < k) /\ j < k
      <4>1. i + 1 = j
        BY <2>10, <2>11, <2>13, <3>1, <3>5
      <4> QED
        BY <3>1, <3>5, <4>1
    <3> QED
      BY <3>2, <3>3, <3>4, <3>5
  <2>14. IsInjective(c)
    BY <2>12, <2>13 DEF IsInjective
  <2>15. ASSUME NEW i \in 1..Len(c)
         PROVE  c[i] \in ToSet(s) \ {t}
    <3>1. i \in 1..Len(s) /\ i + 1 \in 1..Len(s)
      BY <1>1, <2>9
    <3>2. CASE i < k
      BY <1>1, <2>2, <2>10, <2>11, <3>1, <3>2
    <3>3. CASE ~(i < k)
      <4>1. i + 1 # k
        BY <3>1, <3>3
      <4>2. c[i] = s[i + 1] /\ s[i + 1] # t
        BY <2>2, <2>10, <2>11, <3>1, <3>3, <4>1
      <4> QED
        BY <1>1, <3>1, <4>2
    <3> QED
      BY <3>2, <3>3
  <2>16. ASSUME NEW i \in 1..Len(s), s[i] # t
         PROVE  s[i] \in ToSet(c)
    <3>1. CASE i < k
      <4>1. i \in 1..Len(c)
        BY <1>1, <2>9, <3>1
      <4> QED
        BY <2>10, <2>12, <3>1, <4>1
    <3>2. CASE k < i
      <4>1. i - 1 \in 1..Len(c) /\ ~(i - 1 < k) /\ i - 1 + 1 = i
        BY <1>1, <2>9, <3>2
      <4>2. c[i - 1] = s[i]
        BY <2>10, <4>1
      <4> QED
        BY <2>12, <4>1, <4>2
    <3>3. i # k
      BY <2>2, <2>16
    <3> QED
      BY <1>1, <3>1, <3>2, <3>3
  <2>17. ToSet(c) = ToSet(s) \ {t}
    BY <1>1, <2>12, <2>15, <2>16
  <2> QED
    BY <2>14, <2>17 DEF c
<1> QED
  BY <1>2, <1>3

\* RemoveFirst takes away no other element.
LEMMA RemoveFirstKeeps ==
  ASSUME NEW S, NEW s \in Seq(S), NEW t, NEW u \in ToSet(s), u # t
  PROVE  u \in ToSet(RemoveFirst(s, t))
<1>1. /\ Len(s) \in Nat /\ DOMAIN s = 1..Len(s)
      /\ ToSet(s) = {s[i] : i \in 1..Len(s)}
  BY LenProperties, ToSetIndex
<1>2. CASE t \notin ToSet(s)
  BY <1>1, <1>2 DEF RemoveFirst
<1>3. CASE t \in ToSet(s)
  <2> DEFINE c == RemoveFirst(s, t)
  <2>1. PICK k \in 1..Len(s) :
          /\ s[k] = t /\ c \in Seq(S) /\ Len(c) = Len(s) - 1
          /\ \A i \in 1..Len(s) - 1 :
               (i < k => c[i] = s[i]) /\ (~(i < k) => c[i] = s[i + 1])
    BY <1>3, RemoveFirstElements
  <2> HIDE DEF c
  <2>2. ToSet(c) = {c[i] : i \in 1..Len(c)}
    BY <2>1, ToSetIndex
  <2>3. PICK i \in 1..Len(s) : s[i] = u
    BY <1>1
  <2>4. i # k
    BY <2>1, <2>3
  <2>5. CASE i < k
    <3>1. i \in 1..Len(s) - 1 /\ i \in 1..Len(c)
      BY <1>1, <2>1, <2>5
    <3> QED
      BY <2>1, <2>2, <2>3, <2>5, <3>1 DEF c
  <2>6. CASE k < i
    <3>1. /\ i - 1 \in 1..Len(s) - 1 /\ i - 1 \in 1..Len(c)
          /\ ~(i - 1 < k) /\ i - 1 + 1 = i
      BY <1>1, <2>1, <2>6
    <3>2. c[i - 1] = s[i]
      BY <2>1, <3>1
    <3> QED
      BY <2>2, <2>3, <3>1, <3>2 DEF c
  <2> QED
    BY <1>1, <2>4, <2>5, <2>6
<1> QED
  BY <1>2, <1>3
-----------------------------------------------------------------------------
(***************************************************************************)
(* The last element of a kind.                                             *)
(***************************************************************************)
\* s has no element in B.
Free(s, B) == \A i \in 1..Len(s) : s[i] \notin B

\* s has x, and no element in B after it.
Lasts(s, x, B) ==
  \E i \in 1..Len(s) : s[i] = x /\ \A j \in 1..Len(s) : i < j => s[j] \notin B

\* Of two sequences, the second has the last word.
LEMMA CatLasts ==
  ASSUME NEW S, NEW s \in Seq(S), NEW t \in Seq(S), NEW x, NEW B
  PROVE  /\ Free(Cat(s, t), B) <=> Free(s, B) /\ Free(t, B)
         /\ Lasts(Cat(s, t), x, B)
              <=> Lasts(t, x, B) \/ (Lasts(s, x, B) /\ Free(t, B))
<1> DEFINE c == Cat(s, t)
           m == Len(s)
           n == Len(t)
<1>1. m \in Nat /\ n \in Nat
  BY LenProperties
<1>2. /\ Len(c) = m + n
      /\ \A i \in 1..m : c[i] = s[i]
      /\ \A i \in 1..n : c[m + i] = t[i]
      /\ \A i \in 1..m + n : i <= m \/ (i - m \in 1..n /\ c[i] = t[i - m])
  BY CatElements
<1>3. Free(s, B) <=> \A i \in 1..m : s[i] \notin B
  BY DEF Free
<1>4. Free(t, B) <=> \A i \in 1..n : t[i] \notin B
  BY DEF Free
<1>5. Free(c, B) <=> \A i \in 1..m + n : c[i] \notin B
  BY <1>2 DEF Free
<1>6. Lasts(s, x, B) <=>
        \E i \in 1..m : s[i] = x /\ \A j \in 1..m : i < j => s[j] \notin B
  BY DEF Lasts
<1>7. Lasts(t, x, B) <=>
        \E i \in 1..n : t[i] = x /\ \A j \in 1..n : i < j => t[j] \notin B
  BY DEF Lasts
<1>8. Lasts(c, x, B) <=>
        \E i \in 1..m + n : c[i] = x /\ \A j \in 1..m + n : i < j => c[j] \notin B
  BY <1>2 DEF Lasts
<1> HIDE DEF c, m, n
<1>9. /\ \A i \in 1..m : i \in 1..m + n
      /\ \A i \in 1..n : m + i \in 1..m + n
      /\ \A i \in 1..m + n : i \in 1..m \/ \E j \in 1..n : i = m + j
  <2>1. ASSUME NEW i \in 1..m + n, ~(i \in 1..m)
        PROVE  i - m \in 1..n /\ i = m + (i - m)
    BY <1>1, <2>1
  <2> QED
    BY <1>1, <2>1
<1>10. Free(c, B) <=> Free(s, B) /\ Free(t, B)
  BY <1>2, <1>3, <1>4, <1>5, <1>9
<1>11. Lasts(t, x, B) => Lasts(c, x, B)
  <2> SUFFICES ASSUME NEW i \in 1..n, t[i] = x,
                      \A j \in 1..n : i < j => t[j] \notin B
               PROVE  Lasts(c, x, B)
    BY <1>7
  <2>1. m + i \in 1..m + n /\ c[m + i] = x
    BY <1>2, <1>9
  <2>2. ASSUME NEW j \in 1..m + n, m + i < j
        PROVE  c[j] \notin B
    <3>1. PICK k \in 1..n : j = m + k
      <4>1. ~(j \in 1..m)
        BY <1>1, <2>2
      <4> QED
        BY <1>9, <4>1
    <3>2. i < k
      BY <1>1, <2>2, <3>1
    <3> QED
      BY <1>2, <3>1, <3>2
  <2> QED
    BY <1>8, <2>1, <2>2
<1>12. Lasts(s, x, B) /\ Free(t, B) => Lasts(c, x, B)
  <2> SUFFICES ASSUME NEW i \in 1..m, s[i] = x, Free(t, B),
                      \A j \in 1..m : i < j => s[j] \notin B
               PROVE  Lasts(c, x, B)
    BY <1>6
  <2>1. i \in 1..m + n /\ c[i] = x
    BY <1>2, <1>9
  <2>2. ASSUME NEW j \in 1..m + n, i < j
        PROVE  c[j] \notin B
    <3>1. CASE j \in 1..m
      BY <1>2, <2>2, <3>1
    <3>2. ASSUME NEW k \in 1..n, j = m + k
          PROVE  c[j] \notin B
      BY <1>2, <1>4, <3>2
    <3> QED
      BY <1>9, <3>1, <3>2
  <2> QED
    BY <1>8, <2>1, <2>2
<1>13. Lasts(c, x, B) => Lasts(t, x, B) \/ (Lasts(s, x, B) /\ Free(t, B))
  <2> SUFFICES ASSUME NEW i \in 1..m + n, c[i] = x,
                      \A j \in 1..m + n : i < j => c[j] \notin B
               PROVE  Lasts(t, x, B) \/ (Lasts(s, x, B) /\ Free(t, B))
    BY <1>8
  <2>1. CASE i \in 1..m
    <3>1. ASSUME NEW j \in 1..m, i < j
          PROVE  s[j] \notin B
      BY <1>2, <1>9, <3>1
    <3>2. ASSUME NEW j \in 1..n
          PROVE  t[j] \notin B
      <4>1. i < m + j
        BY <1>1, <2>1
      <4> QED
        BY <1>2, <1>9, <4>1
    <3>3. s[i] = x
      BY <1>2, <2>1
    <3> QED
      BY <1>4, <1>6, <2>1, <3>1, <3>2, <3>3
  <2>2. ASSUME NEW k \in 1..n, i = m + k
        PROVE  Lasts(t, x, B)
    <3>1. t[k] = x
      BY <1>2, <2>2
    <3>2. ASSUME NEW j \in 1..n, k < j
          PROVE  t[j] \notin B
      <4>1. i < m + j
        BY <1>1, <2>2, <3>2
      <4> QED
        BY <1>2, <1>9, <4>1
    <3> QED
      BY <1>7, <3>1, <3>2
  <2> QED
    BY <1>9, <2>1, <2>2
<1> QED
  BY <1>10, <1>11, <1>12, <1>13 DEF c

\* One element, and none.
LEMMA OneLasts ==
  ASSUME NEW y, NEW x, NEW B
  PROVE  /\ Free(<<y>>, B) <=> y \notin B
         /\ Lasts(<<y>>, x, B) <=> y = x
         /\ Free(<<>>, B) /\ ~Lasts(<<>>, x, B)
<1> DEFINE s == <<y>>
           e == <<>>
<1>1. Len(s) = 1 /\ s[1] = y /\ 1..1 = {1} /\ 1..Len(e) = {}
  OBVIOUS
<1> HIDE DEF s, e
<1>2. /\ Free(s, B) <=> y \notin B
      /\ Lasts(s, x, B) <=> y = x
      /\ Free(e, B) /\ ~Lasts(e, x, B)
  BY <1>1 DEF Free, Lasts
<1> QED
  BY <1>2 DEF s, e

-----------------------------------------------------------------------------
(***************************************************************************)
(* Taking sequences apart: a prefix and the rest.                          *)
(***************************************************************************)

-----------------------------------------------------------------------------
(***************************************************************************)
(* Prefixes, as the beginnings of concatenations.                          *)
(***************************************************************************)

\* Two sequences are equal when they are so position by position.
LEMMA SameSeq ==
  ASSUME NEW S, NEW s \in Seq(S), NEW t \in Seq(S), Len(s) = Len(t),
         \A i \in 1..Len(s) : s[i] = t[i]
  PROVE  s = t
BY SeqEqual

\* The rest of t after its first n elements.
LEMMA DropProperties ==
  ASSUME NEW S, NEW t \in Seq(S), NEW n \in 0..Len(t)
  PROVE  /\ SubSeq(t, n + 1, Len(t)) \in Seq(S)
         /\ Len(SubSeq(t, n + 1, Len(t))) = Len(t) - n
         /\ \A i \in 1..Len(t) - n : SubSeq(t, n + 1, Len(t))[i] = t[n + i]
<1> DEFINE b == SubSeq(t, n + 1, Len(t))
<1>1. Len(t) \in Nat /\ n \in Nat /\ n <= Len(t) /\ (\A j \in 1..Len(t) : t[j] \in S)
  BY ElementOfSeq, LenProperties
<1>2. n + 1 \in Int /\ Len(t) \in Int /\ (\A i \in n + 1..Len(t) : t[i] \in S)
  BY <1>1
<1>3. b \in Seq(S)
  BY <1>2, SubSeqProperties
<1>4. Len(b) = IF n + 1 <= Len(t) THEN Len(t) - (n + 1) + 1 ELSE 0
  BY <1>2, SubSeqProperties
<1>5. \A i \in 1..Len(t) - (n + 1) + 1 : b[i] = t[(n + 1) + i - 1]
  BY <1>2, SubSeqProperties
<1> HIDE DEF b
<1>6. Len(b) = Len(t) - n
  <2>1. CASE n + 1 <= Len(t)
    BY <1>1, <1>4, <2>1
  <2>2. CASE ~(n + 1 <= Len(t))
    <3>1. n = Len(t)
      BY <1>1, <2>2
    <3> QED
      BY <1>1, <1>4, <2>2, <3>1
  <2> QED
    BY <2>1, <2>2
<1>7. ASSUME NEW i \in 1..Len(t) - n
      PROVE  b[i] = t[n + i]
  <2>1. i \in 1..Len(t) - (n + 1) + 1 /\ (n + 1) + i - 1 = n + i
    BY <1>1
  <2> QED
    BY <1>5, <2>1
<1> QED
  BY <1>3, <1>6, <1>7 DEF b

\* The first n elements of t.
LEMMA TakeProperties ==
  ASSUME NEW S, NEW t \in Seq(S), NEW n \in 0..Len(t)
  PROVE  /\ SubSeq(t, 1, n) \in Seq(S)
         /\ Len(SubSeq(t, 1, n)) = n
         /\ \A i \in 1..n : SubSeq(t, 1, n)[i] = t[i]
<1> DEFINE b == SubSeq(t, 1, n)
<1>1. Len(t) \in Nat /\ n \in Nat /\ n <= Len(t) /\ (\A j \in 1..Len(t) : t[j] \in S)
  BY ElementOfSeq, LenProperties
<1>2. 1 \in Int /\ n \in Int /\ (\A i \in 1..n : t[i] \in S)
  BY <1>1
<1>3. b \in Seq(S)
  BY <1>2, SubSeqProperties
<1>4. Len(b) = IF 1 <= n THEN n - 1 + 1 ELSE 0
  BY <1>2, SubSeqProperties
<1>5. \A i \in 1..n - 1 + 1 : b[i] = t[1 + i - 1]
  BY <1>2, SubSeqProperties
<1> HIDE DEF b
<1>6. Len(b) = n
  BY <1>1, <1>4
<1>7. ASSUME NEW i \in 1..n
      PROVE  b[i] = t[i]
  <2>1. i \in 1..n - 1 + 1 /\ 1 + i - 1 = i
    BY <1>1
  <2> QED
    BY <1>5, <2>1
<1> QED
  BY <1>3, <1>6, <1>7 DEF b

\* A sequence is its first n elements and the rest.
LEMMA TakeDrop ==
  ASSUME NEW S, NEW t \in Seq(S), NEW n \in 0..Len(t)
  PROVE  t = Cat(SubSeq(t, 1, n), SubSeq(t, n + 1, Len(t)))
<1> DEFINE a == SubSeq(t, 1, n)
           b == SubSeq(t, n + 1, Len(t))
           c == Cat(a, b)
<1>1. a \in Seq(S) /\ Len(a) = n /\ (\A i \in 1..n : a[i] = t[i])
  BY TakeProperties
<1>2. b \in Seq(S) /\ Len(b) = Len(t) - n /\ (\A i \in 1..Len(t) - n : b[i] = t[n + i])
  BY DropProperties
<1>3. Len(t) \in Nat /\ n \in Nat /\ n <= Len(t)
  BY LenProperties
<1> HIDE DEF a, b
<1>a. c \in Seq(S)
  BY <1>1, <1>2, CatLaws
<1>b. a \in Seq(S) /\ b \in Seq(S)
  BY <1>1, <1>2
<1>4. /\ Len(c) = Len(a) + Len(b)
      /\ \A i \in 1..Len(a) : c[i] = a[i]
      /\ \A i \in 1..Len(a) + Len(b) :
           i <= Len(a) \/ (i - Len(a) \in 1..Len(b) /\ c[i] = b[i - Len(a)])
  BY <1>b, CatElements, Zenon
<1> HIDE DEF c
<1>5. Len(c) = Len(t)
  BY <1>1, <1>2, <1>3, <1>4
<1>6. ASSUME NEW i \in 1..Len(t)
      PROVE  c[i] = t[i]
  <2>1. CASE i <= n
    BY <1>1, <1>3, <1>4, <2>1
  <2>2. CASE ~(i <= n)
    <3> DEFINE j == i - n
    <3>1. j \in 1..Len(t) - n /\ n + j = i
      BY <1>3, <2>2
    <3>2. c[i] = b[j]
      BY <1>1, <1>2, <1>3, <1>4, <2>2
    <3> HIDE DEF j
    <3>3. b[j] = t[n + j]
      BY <1>2, <3>1
    <3> QED
      BY <3>1, <3>2, <3>3
  <2> QED
    BY <2>1, <2>2
<1> QED
  BY <1>a, <1>4, <1>5, <1>6, SameSeq DEF a, b, c

\* The parts of a concatenation can be cut off again.
LEMMA CatParts ==
  ASSUME NEW S, NEW s \in Seq(S), NEW t \in Seq(S)
  PROVE  /\ SubSeq(Cat(s, t), 1, Len(s)) = s
         /\ SubSeq(Cat(s, t), Len(s) + 1, Len(Cat(s, t))) = t
<1> DEFINE c == Cat(s, t)
           m == Len(s)
           a == SubSeq(c, 1, m)
           b == SubSeq(c, m + 1, Len(c))
<1>1. m \in Nat /\ Len(t) \in Nat
  BY LenProperties
<1>a. c \in Seq(S)
  BY CatLaws
<1>2. /\ Len(c) = m + Len(t)
      /\ \A i \in 1..m : c[i] = s[i]
      /\ \A i \in 1..Len(t) : c[m + i] = t[i]
  BY CatElements
<1> HIDE DEF c
<1>3. m \in 0..Len(c) /\ Len(c) - m = Len(t)
  BY <1>1, <1>2
<1>4. a \in Seq(S) /\ Len(a) = m /\ (\A i \in 1..m : a[i] = c[i])
  BY <1>a, <1>3, TakeProperties
<1>5. b \in Seq(S) /\ Len(b) = Len(t) /\ (\A i \in 1..Len(t) : b[i] = c[m + i])
  BY <1>a, <1>3, DropProperties
<1> HIDE DEF a, b
<1>6. a = s
  BY <1>2, <1>4, SameSeq
<1>7. b = t
  BY <1>2, <1>5, SameSeq
<1> QED
  BY <1>6, <1>7 DEF a, b, c

\* Concatenation can be cancelled on the left.
LEMMA CatCancel ==
  ASSUME NEW S, NEW s \in Seq(S), NEW t \in Seq(S), NEW u \in Seq(S),
         Cat(s, t) = Cat(s, u)
  PROVE  t = u
<1> DEFINE Rest(w) == SubSeq(w, Len(s) + 1, Len(w))
<1>1. Rest(Cat(s, t)) = t /\ Rest(Cat(s, u)) = u
  BY CatParts, Zenon
<1> HIDE DEF Rest
<1> QED
  BY <1>1

\* IsPrefix: t goes on where s ends.
LEMMA PrefixCat ==
  ASSUME NEW S, NEW s \in Seq(S), NEW u \in Seq(S)
  PROVE  IsPrefix(s, Cat(s, u))
<1>1. Len(s) \in Nat /\ Len(u) \in Nat /\ Len(Cat(s, u)) = Len(s) + Len(u)
  BY LenProperties, CatElements
<1>2. SubSeq(s, 1, Len(s)) = s
  BY SubSeqFull
<1>3. SubSeq(Cat(s, u), 1, Len(s)) = s
  BY CatParts
<1>4. Len(s) <= Len(Cat(s, u))
  BY <1>1
<1> QED
  BY <1>2, <1>3, <1>4 DEF IsPrefix

\* The other way round.
LEMMA PrefixRest ==
  ASSUME NEW S, NEW s \in Seq(S), NEW t \in Seq(S), IsPrefix(s, t)
  PROVE  /\ SubSeq(t, Len(s) + 1, Len(t)) \in Seq(S)
         /\ t = Cat(s, SubSeq(t, Len(s) + 1, Len(t)))
<1>1. Len(s) \in Nat /\ Len(t) \in Nat
  BY LenProperties
<1>2. Len(s) <= Len(t) /\ SubSeq(t, 1, Len(s)) = SubSeq(s, 1, Len(s))
  BY DEF IsPrefix
<1>3. SubSeq(s, 1, Len(s)) = s
  BY SubSeqFull
<1>4. Len(s) \in 0..Len(t)
  BY <1>1, <1>2
<1>5. t = Cat(SubSeq(t, 1, Len(s)), SubSeq(t, Len(s) + 1, Len(t)))
  BY <1>4, TakeDrop
<1>6. SubSeq(t, Len(s) + 1, Len(t)) \in Seq(S)
  BY <1>4, DropProperties
<1> QED
  BY <1>2, <1>3, <1>5, <1>6

\* Of two beginnings of a sequence, the shorter one begins the longer one.
LEMMA PrefixLevi ==
  ASSUME NEW S, NEW a \in Seq(S), NEW b \in Seq(S), NEW c \in Seq(S),
         NEW d \in Seq(S), Cat(a, b) = Cat(c, d), Len(a) <= Len(c)
  PROVE  \E x \in Seq(S) : c = Cat(a, x) /\ b = Cat(x, d)
<1> DEFINE w == Cat(c, d)
           x == SubSeq(c, Len(a) + 1, Len(c))
<1>1. Len(a) \in Nat /\ Len(c) \in Nat /\ Len(b) \in Nat /\ Len(d) \in Nat
  BY LenProperties
<1>2. /\ Len(w) = Len(c) + Len(d) /\ \A i \in 1..Len(c) : w[i] = c[i]
  BY CatElements
<1>3. \A i \in 1..Len(a) : w[i] = a[i]
  BY CatElements
<1> HIDE DEF w
<1>4. Len(a) \in 0..Len(c)
  BY <1>1
<1>5. SubSeq(c, 1, Len(a)) = a
  <2> DEFINE e == SubSeq(c, 1, Len(a))
  <2>1. e \in Seq(S) /\ Len(e) = Len(a) /\ (\A i \in 1..Len(a) : e[i] = c[i])
    BY <1>4, TakeProperties
  <2> HIDE DEF e
  <2>2. \A i \in 1..Len(a) : i \in 1..Len(c)
    BY <1>1
  <2>3. \A i \in 1..Len(a) : e[i] = a[i]
    BY <1>2, <1>3, <2>1, <2>2
  <2>4. e = a
    BY <2>1, <2>3, SameSeq
  <2> QED
    BY <2>4 DEF e
<1>6. x \in Seq(S)
  BY <1>4, DropProperties
<1>7. c = Cat(a, x)
  BY <1>4, <1>5, TakeDrop
<1> HIDE DEF x
<1>8. Cat(Cat(a, x), d) = Cat(a, Cat(x, d))
  BY <1>6, CatLaws
<1>9. Cat(x, d) \in Seq(S)
  BY <1>6, CatLaws
<1>10. b = Cat(x, d)
  <2>1. Cat(a, b) = Cat(a, Cat(x, d))
    BY <1>7, <1>8 DEF w
  <2> QED
    BY <1>9, <2>1, CatCancel
<1> QED
  BY <1>6, <1>7, <1>10

\* A list without its last element.
LEMMA FrontProperties ==
  ASSUME NEW S, NEW s \in Seq(S), s # <<>>
  PROVE  /\ Front(s) \in Seq(S) /\ Len(Front(s)) = Len(s) - 1
         /\ Last(s) \in S
         /\ s = Append(Front(s), Last(s))
<1>1. Len(s) \in Nat /\ Len(s) # 0 /\ (\A i \in 1..Len(s) : s[i] \in S)
  BY LenProperties, EmptySeq, ElementOfSeq
<1> DEFINE n == Len(s) - 1
           f == SubSeq(s, 1, n)
<1>2. n \in 0..Len(s) /\ n + 1 = Len(s) /\ Len(s) \in 1..Len(s)
  BY <1>1
<1>3. f \in Seq(S) /\ Len(f) = n /\ (\A i \in 1..n : f[i] = s[i])
  BY <1>2, TakeProperties
<1>4. s[Len(s)] \in S
  BY <1>1, <1>2
<1> DEFINE e == s[Len(s)]
           t == Append(f, e)
<1> HIDE DEF f, n, e
<1>5. e \in S /\ e = s[Len(s)]
  BY <1>4 DEF e
<1>6. /\ t \in Seq(S) /\ Len(t) = n + 1 /\ (\A i \in 1..n : t[i] = f[i])
      /\ t[n + 1] = e
  BY <1>3, <1>5, AppendProperties
<1> HIDE DEF t
<1>7. ASSUME NEW i \in 1..Len(s)
      PROVE  s[i] = t[i]
  <2>1. i \in 1..n \/ i = n + 1
    BY <1>1, <1>2
  <2> QED
    BY <1>2, <1>3, <1>5, <1>6, <2>1
<1>8. s = t
  BY <1>2, <1>6, <1>7, SameSeq
<1> QED
  BY <1>2, <1>3, <1>5, <1>8 DEF Front, Last, f, n, e, t

\* Append is the concatenation with one element.
LEMMA AppendCat ==
  ASSUME NEW S, NEW s \in Seq(S), NEW e \in S
  PROVE  /\ Append(s, e) \in Seq(S) /\ Append(s, e) # <<>>
         /\ Append(s, e) = Cat(s, <<e>>) /\ <<e>> \in Seq(S)
         /\ Len(<<e>>) = 1 /\ <<e>>[1] = e
         /\ Front(Append(s, e)) = s /\ Last(Append(s, e)) = e
<1> DEFINE one == <<e>>
           a == Append(s, e)
<1>1. /\ one \in Seq(S) /\ Len(one) = 1 /\ one[1] = e
      /\ a = Cat(s, one)
  BY DEF Cat
<1>2. a \in Seq(S) /\ Len(a) = Len(s) + 1 /\ Len(s) \in Nat /\ a[Len(s) + 1] = e
  BY AppendProperties, LenProperties
<1>3. a # <<>>
  BY <1>2, EmptySeq
<1> HIDE DEF one, a
<1>4. SubSeq(a, 1, Len(s)) = s
  BY <1>1, CatParts
<1>5. Len(a) - 1 = Len(s)
  BY <1>2
<1>6. Front(a) = s /\ Last(a) = e
  BY <1>2, <1>4, <1>5 DEF Front, Last
<1> QED
  BY <1>1, <1>2, <1>3, <1>6 DEF one, a

\* The end of a concatenation.
LEMMA CatEnd ==
  ASSUME NEW S, NEW s \in Seq(S), NEW t \in Seq(S), NEW e \in S
  PROVE  /\ Cat(s, Append(t, e)) = Append(Cat(s, t), e)
         /\ Front(Cat(s, Append(t, e))) = Cat(s, t)
         /\ Last(Cat(s, Append(t, e))) = e
<1>1. Append(t, e) = Cat(t, <<e>>) /\ <<e>> \in Seq(S)
  BY AppendCat
<1> DEFINE one == <<e>>
           c == Cat(s, t)
<1>2. c \in Seq(S) /\ Cat(s, Cat(t, one)) = Cat(c, one)
  BY <1>1, CatLaws
<1> HIDE DEF c
<1>3. /\ Append(c, e) = Cat(c, one) /\ Front(Append(c, e)) = c
      /\ Last(Append(c, e)) = e
  BY <1>2, AppendCat
<1> HIDE DEF one
<1> QED
  BY <1>1, <1>2, <1>3 DEF c, one

-----------------------------------------------------------------------------
(***************************************************************************)
(* Recursion and induction over numbers and sequences.  The facts are stated*)
(* with sets in place of predicates, so that they can be cited.            *)
(***************************************************************************)

\* f is the function on 0..N with first value a and steps g.
Recurs(f, N, a, g) ==
  f = [i \in 0..N |-> IF i = 0 THEN a ELSE g[i][f[i - 1]]]

\* A function on 0..N that is defined by recursion exists, and has its values
\* in X when the first one is in X and every step stays there.
LEMMA RecursionExists ==
  ASSUME NEW N \in Nat, NEW X, NEW a \in X, NEW g \in [1..N -> [X -> X]]
  PROVE  \E f \in [0..N -> X] : Recurs(f, N, a, g)
<1> DEFINE Step(f, i) == IF i = 0 THEN a ELSE g[i][f[i - 1]]
           Sol(n) == {f \in [0..n -> X] : \A i \in 0..n : f[i] = Step(f, i)}
           A == {n \in 1..N : Sol(n) # {}}
<1>0. Sol(0) # {}
  <2> DEFINE f == [i \in 0..0 |-> a]
  <2>1. f \in [0..0 -> X] /\ (\A i \in 0..0 : f[i] = Step(f, i))
    OBVIOUS
  <2>2. f \in Sol(0)
    BY <2>1
  <2> QED
    BY <2>2
<1>1. ASSUME NEW n \in 1..N, NEW h \in Sol(n - 1)
      PROVE  Sol(n) # {}
  <2> DEFINE f == [i \in 0..n |-> IF i = n THEN g[n][h[n - 1]] ELSE h[i]]
  <2>1. h \in [0..n - 1 -> X] /\ n - 1 \in 0..n - 1 /\ n \in Nat
    OBVIOUS
  <2>2. h[n - 1] \in X /\ g[n] \in [X -> X]
    BY <2>1
  <2>3. g[n][h[n - 1]] \in X
    BY <2>2
  <2>4. f \in [0..n -> X]
    BY <2>1, <2>3
  <2>5. ASSUME NEW i \in 0..n
        PROVE  f[i] = Step(f, i)
    <3>1. CASE i = n
      <4>1. n - 1 \in 0..n /\ n - 1 # n /\ n \in 0..n /\ n # 0
        BY <2>1
      <4>2. f[n] = g[n][h[n - 1]] /\ f[n - 1] = h[n - 1]
        BY <4>1
      <4> QED
        BY <3>1, <4>1, <4>2
    <3>2. CASE i # n
      <4>1. i \in 0..n - 1 /\ f[i] = h[i]
        BY <2>1, <3>2
      <4>2. h[i] = Step(h, i)
        BY <4>1
      <4>3. i # 0 => i - 1 \in 0..n /\ i - 1 # n
        BY <2>1, <3>2
      <4>4. i # 0 => f[i - 1] = h[i - 1]
        BY <4>3
      <4> QED
        BY <4>1, <4>2, <4>4
    <3> QED
      BY <3>1, <3>2
  <2>6. f \in Sol(n)
    BY <2>4, <2>5
  <2> QED
    BY <2>6
<1>2. ASSUME NEW n \in 1..N, n = 1 \/ n - 1 \in A
      PROVE  n \in A
  <2>1. Sol(n - 1) # {}
    <3>1. CASE n = 1
      <4>1. n - 1 = 0
        BY <3>1
      <4> HIDE DEF Sol
      <4> QED
        BY <1>0, <4>1
    <3>2. CASE n # 1
      BY <1>2, <3>2
    <3> QED
      BY <3>1, <3>2
  <2>2. PICK h : h \in Sol(n - 1)
    <3> HIDE DEF Sol
    <3> QED
      BY <2>1
  <2>3. Sol(n) # {}
    BY <1>1, <2>2
  <2> QED
    BY <2>3
<1>3. 1..N \subseteq A
  <2> HIDE DEF A
  <2> QED
    BY <1>2, Ascend
<1>4. Sol(N) # {}
  <2>1. CASE N = 0
    <3> HIDE DEF Sol
    <3> QED
      BY <1>0, <2>1
  <2>2. CASE N # 0
    <3>1. N \in 1..N
      BY <2>2
    <3>2. N \in A
      <4> HIDE DEF A
      <4> QED
        BY <1>3, <3>1
    <3> QED
      BY <3>2
  <2> QED
    BY <2>1, <2>2
<1>5. PICK f : f \in Sol(N)
  <2> HIDE DEF Sol
  <2> QED
    BY <1>4
<1>6. f \in [0..N -> X] /\ (\A i \in 0..N : f[i] = Step(f, i))
  BY <1>5
<1>7. f = [i \in 0..N |-> Step(f, i)]
  BY <1>6
<1> QED
  BY <1>6, <1>7 DEF Recurs

\* Induction over sequences, one element after the other.
LEMMA AppendInduction ==
  ASSUME NEW S, NEW A, <<>> \in A,
         \A s \in Seq(S) : \A e \in S : s \in A => Append(s, e) \in A
  PROVE  \A t \in Seq(S) : t \in A
<1> TAKE t \in Seq(S)
<1> DEFINE N == Len(t)
           B == {n \in 1..N : \A s \in Seq(S) : Len(s) = n => s \in A}
<1>1. N \in Nat
  BY LenProperties
<1>2. ASSUME NEW n \in 1..N, n = 1 \/ n - 1 \in B
      PROVE  n \in B
  <2> SUFFICES ASSUME NEW s \in Seq(S), Len(s) = n
               PROVE  s \in A
    OBVIOUS
  <2>1. s # <<>>
    <3>1. Len(s) # 0
      BY <1>1
    <3> QED
      BY <3>1, EmptySeq
  <2>2. /\ Front(s) \in Seq(S) /\ Len(Front(s)) = n - 1 /\ Last(s) \in S
        /\ s = Append(Front(s), Last(s))
    BY <2>1, FrontProperties
  <2>3. Front(s) \in A
    <3>1. CASE n = 1
      <4>1. Len(Front(s)) = 0
        BY <2>2, <3>1
      <4> QED
        BY <2>2, <4>1, EmptySeq
    <3>2. CASE n # 1
      BY <1>2, <2>2, <3>2
    <3> QED
      BY <3>1, <3>2
  <2> QED
    BY <2>2, <2>3
<1>3. 1..N \subseteq B
  <2> HIDE DEF B, N
  <2> QED
    BY <1>1, <1>2, Ascend
<1>4. CASE N = 0
  BY <1>4, EmptySeq
<1>5. CASE N # 0
  <2>1. N \in 1..N
    BY <1>1, <1>5
  <2>2. N \in B
    <3> HIDE DEF B, N
    <3> QED
      BY <1>3, <2>1
  <2> QED
    BY <2>2
<1> QED
  BY <1>4, <1>5

=============================================================================
