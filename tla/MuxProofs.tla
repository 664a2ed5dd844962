------------------------------ MODULE MuxProofs ------------------------------
(***************************************************************************)
(* Proofs about module Mux, for every set of paths, every matching         *)
(* relation and every bound.                                               *)
(***************************************************************************)
EXTENDS MuxBalance, SeqLemmas

\* The inductive invariant: the safety invariants of Mux together.
IInv == TypeOK /\ IndexSound /\ ListedOnce /\ Precedence

\* What TypeOK says of a single entry.
LEMMA EntryType ==
  ASSUME TypeOK, NEW r \in 1..Len(heap)
  PROVE  /\ heap[r] \in MuxEntry
         /\ heap[r].path \in Path
         /\ heap[r].handlers \in Seq(Id)
         /\ heap[r].next \in 0..CounterSize - 1
<1>1. heap[r] \in MuxEntry
  BY ElementOfSeq DEF TypeOK
<1> QED
  BY <1>1 DEF MuxEntry

\* A step that replaces the handlers or the counter of one entry keeps the
\* heap a sequence of entries of the same length and paths.
LEMMA EntryUpdate ==
  ASSUME TypeOK, NEW r \in 1..Len(heap), NEW e \in MuxEntry,
         e.path = heap[r].path
  PROVE  LET h == [heap EXCEPT ![r] = e] IN
         /\ h \in Seq(MuxEntry)
         /\ Len(h) = Len(heap)
         /\ h[r] = e
         /\ \A k \in 1..Len(heap) : k # r => h[k] = heap[k]
         /\ \A k \in 1..Len(heap) : h[k].path = heap[k].path
<1> DEFINE h == [heap EXCEPT ![r] = e]
<1>1. heap \in Seq(MuxEntry)
  BY DEF TypeOK
<1>2. h \in Seq(MuxEntry) /\ Len(h) = Len(heap)
  BY <1>1, ExceptSeq
<1>3. DOMAIN heap = 1..Len(heap)
  BY <1>1, LenProperties
<1>4. h[r] = e /\ \A k \in 1..Len(heap) : k # r => h[k] = heap[k]
  BY <1>3
<1> QED
  BY <1>2, <1>4

-----------------------------------------------------------------------------
(***************************************************************************)
(* Mux.Add, a path without an entry.                                       *)
(***************************************************************************)

\* Mux.Add's insertion keeps the invariant: the new entry is listed once, at
\* a place where it is outranked by what comes before and outranks the rest.
LEMMA AddEntryInv ==
  ASSUME IInv, NEW p \in Path, NEW id \in Id, AddEntry(p, id)
  PROVE  IInv'
<1> DEFINE n == Len(heap)
           m == Len(entries)
           new == [path |-> p, handlers |-> <<id>>, next |-> 0]
<1>1. /\ heap \in Seq(MuxEntry) /\ n \in Nat
      /\ entries \in Seq(1..n) /\ m \in Nat
      /\ entryMap \in [Path -> 0..n]
      /\ served \in Answer \cup {NoHandler}
      /\ \A j \in 1..m : entries[j] \in 1..n
  BY ElementOfSeq, LenProperties DEF IInv, TypeOK
<1>2. new \in MuxEntry /\ new.path = p /\ new.handlers # <<>>
  BY BoundAssumption DEF MuxEntry
<1> HIDE DEF new
<1>3. /\ heap' = Append(heap, new)
      /\ entryMap[p] = Nil
      /\ entryMap' = [entryMap EXCEPT ![p] = n + 1]
      /\ served' = served
  BY DEF AddEntry, new
<1>4. /\ heap' \in Seq(MuxEntry) /\ Len(heap') = n + 1
      /\ heap'[n + 1] = new
      /\ \A r \in 1..n : heap'[r] = heap[r]
  BY <1>1, <1>2, <1>3, AppendProperties
<1>5. PICK i \in 1..m + 1 :
        /\ entries' = InsertAt(entries, i, n + 1)
        /\ \A j \in 1..i - 1 : ~Precedes(p, entries[j])
        /\ i <= m => Precedes(p, entries[i])
  BY DEF AddEntry, InsertPos
<1>6. entries \in Seq(1..n + 1)
  <2>1. (1..n) \subseteq (1..n + 1)
    BY <1>1
  <2> QED
    BY <1>1, <2>1, SeqMonotonic, Zenon
<1>7. /\ entries' \in Seq(1..n + 1) /\ Len(entries') = m + 1
      /\ entries'[i] = n + 1
      /\ \A j \in 1..i - 1 : entries'[j] = entries[j]
      /\ \A j \in i + 1..m + 1 : entries'[j] = entries[j - 1]
  <2> DEFINE S == 1..n + 1
             new1 == InsertAt(entries, i, n + 1)
  <2>1. n + 1 \in S /\ entries \in Seq(S) /\ i \in 1..Len(entries) + 1
    BY <1>1, <1>5, <1>6
  <2> HIDE DEF S, n
  <2>2. /\ new1 \in Seq(S)
        /\ Len(new1) = Len(entries) + 1
        /\ new1[i] = n + 1
        /\ \A j \in 1..i - 1 : new1[j] = entries[j]
        /\ \A j \in i + 1..Len(entries) + 1 : new1[j] = entries[j - 1]
    BY <2>1, InsertAtProperties
  <2> QED
    BY <1>5, <2>2, Zenon DEF S
<1> HIDE DEF n, m
<1>8. TypeOK'
  <2>1. entryMap' \in [Path -> 0..n + 1]
    BY <1>1, <1>3
  <2> QED
    BY <1>1, <1>3, <1>4, <1>7, <2>1 DEF TypeOK
<1>9. IndexSound'
  <2>1. ASSUME NEW r \in 1..n + 1
        PROVE  (heap'[r]).handlers # <<>> <=> entryMap'[(heap'[r]).path] = r
    <3>1. CASE r = n + 1
      BY <1>1, <1>2, <1>3, <1>4, <3>1
    <3>2. CASE r \in 1..n
      <4>1. heap[r].path \in Path
        BY <3>2, EntryType DEF IInv, n
      <4>2. heap[r].handlers # <<>> <=> entryMap[heap[r].path] = r
        BY <3>2 DEF IInv, IndexSound, n
      <4> QED
        BY <1>1, <1>3, <1>4, <3>2, <4>1, <4>2 DEF Nil
    <3> QED
      BY <1>1, <3>1, <3>2
  <2>2. ASSUME NEW o \in Path, entryMap'[o] # Nil
        PROVE  (heap'[entryMap'[o]]).path = o
    <3>1. entryMap[o] # Nil => heap[entryMap[o]].path = o
      BY DEF IInv, IndexSound
    <3> QED
      BY <1>1, <1>2, <1>3, <1>4, <2>2, <3>1 DEF Nil
  <2> QED
    BY <1>4, <2>1, <2>2 DEF IndexSound
<1>10. ListedOnce'
  <2>1. ASSUME NEW r \in 1..n + 1
        PROVE  \E j \in 1..m + 1 : entries'[j] = r
    <3>1. CASE r = n + 1
      BY <1>7, <3>1
    <3>2. CASE r \in 1..n
      <4>1. PICK j \in 1..m : entries[j] = r
        BY <3>2 DEF IInv, ListedOnce, n, m
      <4>2. CASE j < i
        BY <1>1, <1>7, <4>1, <4>2
      <4>3. CASE j >= i
        <5>1. j + 1 \in i + 1..m + 1 /\ j + 1 \in 1..m + 1 /\ (j + 1) - 1 = j
          BY <1>1, <4>3
        <5> QED
          BY <1>7, <4>1, <5>1
      <4> QED
        BY <4>2, <4>3
    <3> QED
      BY <1>1, <3>1, <3>2
  <2>2. ASSUME NEW j \in 1..m + 1, NEW k \in 1..m + 1, entries'[j] = entries'[k]
        PROVE  j = k
    <3>1. \A x, y \in 1..m : entries[x] = entries[y] => x = y
      BY DEF IInv, ListedOnce, m
    \* where an old position is found in the new list
    <3> DEFINE old(x) == IF x < i THEN x ELSE x - 1
    <3>2. \A x \in 1..m + 1 : x # i => /\ old(x) \in 1..m
                                       /\ entries'[x] = entries[old(x)]
      <4> SUFFICES ASSUME NEW x \in 1..m + 1, x # i
                   PROVE  old(x) \in 1..m /\ entries'[x] = entries[old(x)]
        OBVIOUS
      <4>1. CASE x < i
        BY <1>1, <1>7, <4>1
      <4>2. CASE x > i
        <5>1. x \in i + 1..m + 1 /\ old(x) = x - 1 /\ x - 1 \in 1..m
          BY <1>1, <4>2
        <5> QED
          BY <1>7, <5>1
      <4> QED
        BY <4>1, <4>2
    <3>3. \A x \in 1..m + 1 : x # i => entries'[x] # n + 1
      <4> SUFFICES ASSUME NEW x \in 1..m + 1, x # i
                   PROVE  entries'[x] # n + 1
        OBVIOUS
      <4>1. entries'[x] \in 1..n
        BY <1>1, <3>2, Zenon
      <4> QED
        BY <1>1, <4>1
    <3>4. CASE j # i /\ k # i
      <4>1. old(j) = old(k)
        BY <2>2, <3>1, <3>2, <3>4, Zenon
      <4> QED
        BY <1>1, <3>4, <4>1
    <3>5. CASE j = i \/ k = i
      BY <1>7, <2>2, <3>3, <3>5
    <3> QED
      BY <3>4, <3>5
  <2> QED
    BY <1>4, <1>7, <2>1, <2>2 DEF ListedOnce
<1>11. Precedence'
  <2> DEFINE P(j) == heap[entries[j]].path
             Q(j) == (heap'[entries'[j]]).path
  <2>1. /\ Q(i) = p
        /\ \A j \in 1..i - 1 : Q(j) = P(j)
        /\ \A j \in i + 1..m + 1 : Q(j) = P(j - 1)
    <3>1. Q(i) = p
      BY <1>2, <1>4, <1>7
    <3>2. \A j \in 1..i - 1 : Q(j) = P(j)
      <4> TAKE j \in 1..i - 1
      <4>1. j \in 1..m
        BY <1>1
      <4>2. entries'[j] = entries[j] /\ entries[j] \in 1..n
        BY <1>1, <1>7, <4>1
      <4> QED
        BY <1>4, <4>2, Zenon
    <3>3. \A j \in i + 1..m + 1 : Q(j) = P(j - 1)
      <4> TAKE j \in i + 1..m + 1
      <4>1. j - 1 \in 1..m
        BY <1>1
      <4>2. entries'[j] = entries[j - 1] /\ entries[j - 1] \in 1..n
        BY <1>1, <1>7, <4>1, Zenon
      <4> QED
        BY <1>4, <4>2, Zenon
    <3> QED
      BY <3>1, <3>2, <3>3, Zenon
  <2>2. /\ p \in Path /\ PathLen[p] \in Nat
        /\ \A j \in 1..m : P(j) \in Path /\ PathLen[P(j)] \in Nat
    BY <1>1, EntryType, PathAssumption DEF IInv, n
  <2>3. \A j, k \in 1..m : j < k => Routes!Outranks(P(j), P(k))
    BY DEF IInv, Precedence, m
  <2>4. \A j \in 1..i - 1 : Routes!Outranks(P(j), p)
    <3> TAKE j \in 1..i - 1
    <3>1. j \in 1..m
      BY <1>1
    <3>2. ~Precedes(p, entries[j])
      BY <1>5
    <3>3. PathLen[p] \in Nat /\ PathLen[P(j)] \in Nat
      BY <2>2, <3>1
    <3>4. (p \in WildcardPaths /\ P(j) \notin WildcardPaths)
            \/ ~(PathLen[p] > PathLen[P(j)])
      BY <3>2 DEF Precedes
    <3> HIDE DEF P
    <3> QED
      BY <3>3, <3>4 DEF Routes!Outranks
  <2>5. i <= m => /\ ~(p \in WildcardPaths /\ P(i) \notin WildcardPaths)
                  /\ PathLen[p] > PathLen[P(i)]
    BY <1>5 DEF Precedes
  <2> HIDE DEF P, Q
  <2>6. \A j \in i..m : Routes!Outranks(p, P(j))
    <3> TAKE j \in i..m
    <3>1. i \in 1..m /\ j \in 1..m /\ (j = i \/ i < j)
      BY <1>1
    <3>2. j = i \/ Routes!Outranks(P(i), P(j))
      BY <2>3, <3>1
    <3> QED
      BY <2>2, <2>5, <3>1, <3>2 DEF Routes!Outranks
  <2>7. ASSUME NEW j \in 1..m + 1, NEW k \in 1..m + 1, j < k
        PROVE  Routes!Outranks(Q(j), Q(k))
    <3>1. CASE k < i
      BY <1>1, <2>1, <2>3, <2>7, <3>1
    <3>2. CASE k = i
      BY <1>1, <2>1, <2>4, <2>7, <3>2
    <3>3. CASE j = i
      BY <1>1, <2>1, <2>6, <2>7, <3>3
    <3>4. CASE j < i /\ k > i
      <4>1. j \in 1..m /\ k - 1 \in 1..m /\ j < k - 1
        BY <1>1, <2>7, <3>4
      <4> QED
        BY <1>1, <2>1, <2>3, <3>4, <4>1
    <3>5. CASE j > i
      <4>1. j - 1 \in 1..m /\ k - 1 \in 1..m /\ j - 1 < k - 1
        BY <1>1, <2>7, <3>5
      <4> QED
        BY <1>1, <2>1, <2>3, <2>7, <3>5, <4>1
    <3> QED
      BY <1>1, <3>1, <3>2, <3>3, <3>4, <3>5
  <2> QED
    BY <1>7, <2>7 DEF Precedence, Q, Routes!Outranks
<1> QED
  BY <1>8, <1>9, <1>10, <1>11 DEF IInv

-----------------------------------------------------------------------------
(***************************************************************************)
(* The operations that change one entry in place.                          *)
(***************************************************************************)

\* ListedOnce and Precedence only look at Mux.entries and at the paths: a
\* step that changes neither keeps them.
LEMMA OrderKept ==
  ASSUME IInv, entries' = entries, Len(heap') = Len(heap),
         \A k \in 1..Len(heap) : (heap'[k]).path = heap[k].path
  PROVE  ListedOnce' /\ Precedence'
<1>1. ListedOnce'
  BY DEF IInv, ListedOnce
<1>2. \A j \in 1..Len(entries) : entries[j] \in 1..Len(heap)
  BY ElementOfSeq DEF IInv, TypeOK
<1>3. ASSUME NEW i \in 1..Len(entries), NEW j \in 1..Len(entries), i < j
      PROVE  Routes!Outranks((heap'[entries[i]]).path, (heap'[entries[j]]).path)
  <2>1. Routes!Outranks(heap[entries[i]].path, heap[entries[j]].path)
    BY <1>3 DEF IInv, Precedence
  <2>2. /\ (heap'[entries[i]]).path = heap[entries[i]].path
        /\ (heap'[entries[j]]).path = heap[entries[j]].path
    BY <1>2, <1>3
  <2> QED
    BY <2>1, <2>2, Zenon
<1> QED
  BY <1>1, <1>3 DEF Precedence, Routes!Outranks

\* The entry of an indexed path.
LEMMA Indexed ==
  ASSUME IInv, NEW p \in Path, entryMap[p] # Nil
  PROVE  /\ entryMap[p] \in 1..Len(heap)
         /\ heap[entryMap[p]].path = p
         /\ heap[entryMap[p]].handlers \in Seq(Id)
         /\ heap[entryMap[p]].handlers # <<>>
<1>1. entryMap[p] \in 1..Len(heap)
  BY LenProperties DEF IInv, TypeOK, Nil
<1>2. heap[entryMap[p]].path = p
  BY DEF IInv, IndexSound
<1> QED
  BY <1>1, <1>2, EntryType DEF IInv, IndexSound

\* Replacing the handlers of the entry of p by hs, and dropping the index of
\* p exactly when hs is empty, keeps the invariant.
LEMMA HandlersInv ==
  ASSUME IInv, NEW p \in Path, entryMap[p] # Nil, NEW hs \in Seq(Id),
         heap' = [heap EXCEPT ![entryMap[p]].handlers = hs],
         entryMap' = IF hs = <<>> THEN [entryMap EXCEPT ![p] = Nil] ELSE entryMap,
         UNCHANGED <<entries, served>>
  PROVE  IInv'
<1> DEFINE r == entryMap[p]
           e == [heap[r] EXCEPT !.handlers = hs]
           n == Len(heap)
<1>1. /\ r \in 1..n /\ heap[r].path = p /\ heap[r].handlers # <<>>
      /\ heap[r] \in MuxEntry
  BY Indexed, EntryType DEF IInv
<1>2. e \in MuxEntry /\ e.path = p /\ e.handlers = hs
  BY <1>1 DEF MuxEntry
<1>3. heap' = [heap EXCEPT ![r] = e]
  OBVIOUS
<1> HIDE DEF e
<1>4. /\ heap' \in Seq(MuxEntry) /\ Len(heap') = n /\ heap'[r] = e
      /\ \A k \in 1..n : k # r => heap'[k] = heap[k]
      /\ \A k \in 1..n : (heap'[k]).path = heap[k].path
  BY <1>1, <1>2, <1>3, EntryUpdate DEF IInv
<1>5. entryMap \in [Path -> 0..n] /\ n \in Nat
  BY LenProperties DEF IInv, TypeOK
<1>6. TypeOK'
  <2>1. entryMap' \in [Path -> 0..n]
    BY <1>5 DEF Nil
  <2> QED
    BY <1>4, <2>1 DEF IInv, TypeOK
<1>7. IndexSound'
  <2>1. ASSUME NEW k \in 1..n
        PROVE  (heap'[k]).handlers # <<>> <=> entryMap'[(heap'[k]).path] = k
    <3>1. CASE k = r
      <4>1. heap'[k] = e /\ k # Nil
        BY <1>1, <1>4, <3>1 DEF Nil
      <4> QED
        BY <1>2, <1>5, <3>1, <4>1
    <3>2. CASE k # r
      <4>1. heap'[k] = heap[k] /\ heap[k].path \in Path
        BY <1>4, <3>2, EntryType DEF IInv
      <4>2. heap[k].handlers # <<>> <=> entryMap[heap[k].path] = k
        BY DEF IInv, IndexSound
      <4>3. k # Nil
        BY DEF Nil
      <4> QED
        BY <1>5, <3>2, <4>1, <4>2, <4>3
    <3> QED
      BY <3>1, <3>2
  <2>2. ASSUME NEW o \in Path, entryMap'[o] # Nil
        PROVE  (heap'[entryMap'[o]]).path = o
    <3>1. entryMap'[o] = entryMap[o] /\ entryMap[o] # Nil
      BY <1>5, <2>2
    <3>2. entryMap[o] \in 1..n /\ heap[entryMap[o]].path = o
      BY <3>1, Indexed
    <3> QED
      BY <1>4, <3>1, <3>2, Zenon
  <2> QED
    BY <1>4, <2>1, <2>2 DEF IndexSound
<1>8. ListedOnce' /\ Precedence'
  BY <1>4, OrderKept
<1> QED
  BY <1>6, <1>7, <1>8 DEF IInv

LEMMA AddHandlerInv ==
  ASSUME IInv, NEW p \in Path, NEW id \in Id, AddHandler(p, id)
  PROVE  IInv'
<1> DEFINE old == heap[entryMap[p]].handlers
           hs == Append(old, id)
<1>1. entryMap[p] # Nil
  BY DEF AddHandler, EntryAdd
<1>2. old \in Seq(Id)
  BY <1>1, Indexed
<1>3. hs \in Seq(Id) /\ hs # <<>>
  BY <1>2
<1>4. heap' = [heap EXCEPT ![entryMap[p]].handlers = hs]
  BY DEF AddHandler, EntryAdd
<1>5. entryMap' = entryMap /\ UNCHANGED <<entries, served>>
  BY DEF AddHandler, EntryAdd
<1> HIDE DEF hs
<1> QED
  BY <1>1, <1>3, <1>4, <1>5, HandlersInv

LEMMA RemoveHandlerInv ==
  ASSUME IInv, NEW p \in Path, NEW id \in Id, RemoveHandler(p, id)
  PROVE  IInv'
<1> DEFINE hs == RemoveFirst(heap[entryMap[p]].handlers, id)
<1>1. entryMap[p] # Nil
  BY DEF RemoveHandler, EntryRemove
<1>2. hs \in Seq(Id)
  BY <1>1, Indexed, RemoveFirstProperties
<1>3. /\ heap' = [heap EXCEPT ![entryMap[p]].handlers = hs]
      /\ entryMap' = IF hs = <<>> THEN [entryMap EXCEPT ![p] = Nil] ELSE entryMap
      /\ UNCHANGED <<entries, served>>
  BY DEF RemoveHandler, EntryRemove
<1> HIDE DEF hs
<1> QED
  BY <1>1, <1>2, <1>3, HandlersInv

\* The index muxEntry.handler computes is in range.
LEMMA TurnInRange ==
  ASSUME TypeOK, NEW r \in 1..Len(heap), heap[r].handlers # <<>>
  PROVE  /\ NextTurn(r) \in 0..CounterSize - 1
         /\ Turn(r) \in 1..Len(heap[r].handlers)
<1>1. heap[r].handlers \in Seq(Id) /\ heap[r].next \in 0..CounterSize - 1
  BY EntryType
<1>2. Len(heap[r].handlers) \in Nat \ {0}
  BY <1>1, EmptySeq, LenProperties
<1>3. NextTurn(r) \in 0..CounterSize - 1
  BY <1>1, BoundAssumption DEF NextTurn
<1> QED
  BY <1>2, <1>3, BoundAssumption DEF Turn

LEMMA HandlerFoundInv ==
  ASSUME IInv, NEW q \in Request, HandlerFound(q)
  PROVE  IInv'
<1>1. PICK i \in 1..Len(entries) :
        /\ Answers(entries[i], q)
        /\ heap' = [heap EXCEPT ![entries[i]].next = NextTurn(entries[i])]
        /\ served' = [request |-> q,
                      handler |-> heap[entries[i]].handlers[Turn(entries[i])]]
        /\ UNCHANGED <<entries, entryMap>>
  BY DEF HandlerFound
<1> DEFINE r == entries[i]
           e == [heap[r] EXCEPT !.next = NextTurn(r)]
           n == Len(heap)
<1>2. r \in 1..n
  BY ElementOfSeq DEF IInv, TypeOK
<1>3. heap[r] \in MuxEntry /\ heap[r].handlers # <<>>
  BY <1>1, <1>2, EntryType DEF IInv, Answers
<1>4. /\ NextTurn(r) \in 0..CounterSize - 1
      /\ Turn(r) \in 1..Len(heap[r].handlers)
  BY <1>2, <1>3, TurnInRange DEF IInv
<1>5. /\ e \in MuxEntry /\ e.path = heap[r].path
      /\ e.handlers = heap[r].handlers
  BY <1>3, <1>4 DEF MuxEntry
<1>6. heap' = [heap EXCEPT ![r] = e]
  BY <1>1
<1> HIDE DEF e
<1>7. /\ heap' \in Seq(MuxEntry) /\ Len(heap') = n
      /\ \A k \in 1..n : (heap'[k]).path = heap[k].path
      /\ \A k \in 1..n : (heap'[k]).handlers = heap[k].handlers
  BY <1>2, <1>5, <1>6, EntryUpdate DEF IInv
<1>8. served' \in Answer
  <2>1. heap[r].handlers \in Seq(Id)
    BY <1>3 DEF MuxEntry
  <2>2. heap[r].handlers[Turn(r)] \in Id
    BY <1>4, <2>1, ElementOfSeq
  <2> QED
    BY <1>1, <2>2 DEF Answer
<1>9. TypeOK'
  BY <1>1, <1>7, <1>8 DEF IInv, TypeOK
<1>10. IndexSound'
  <2>1. \A k \in 1..n :
          (heap'[k]).handlers # <<>> <=> entryMap[(heap'[k]).path] = k
    BY <1>7 DEF IInv, IndexSound
  <2>2. ASSUME NEW o \in Path, entryMap[o] # Nil
        PROVE  (heap'[entryMap[o]]).path = o
    BY <1>7, <2>2, Indexed
  <2> QED
    BY <1>1, <1>7, <2>1, <2>2 DEF IndexSound
<1>11. ListedOnce' /\ Precedence'
  BY <1>1, <1>7, OrderKept
<1> QED
  BY <1>9, <1>10, <1>11 DEF IInv

LEMMA HandlerNilInv ==
  ASSUME IInv, NEW q \in Request, HandlerNil(q)
  PROVE  IInv'
<1>1. TypeOK' /\ IndexSound'
  BY DEF HandlerNil, IInv, TypeOK, IndexSound, Answer
<1>2. ListedOnce' /\ Precedence'
  BY OrderKept DEF HandlerNil
<1> QED
  BY <1>1, <1>2 DEF IInv

LEMMA StutterInv ==
  ASSUME IInv, UNCHANGED vars
  PROVE  IInv'
<1>1. TypeOK' /\ IndexSound'
  BY DEF vars, IInv, TypeOK, IndexSound
<1>2. ListedOnce' /\ Precedence'
  BY OrderKept DEF vars
<1> QED
  BY <1>1, <1>2 DEF IInv

-----------------------------------------------------------------------------
LEMMA InitInv ==
  ASSUME Init
  PROVE  IInv
<1>1. TypeOK
  BY HandlerAssumption, EmptySeq DEF Init, TypeOK, Nil
<1>2. Len(heap) = 0 /\ Len(entries) = 0
  BY EmptySeq DEF Init
<1>3. IndexSound
  BY <1>2 DEF Init, IndexSound, Nil
<1>4. ListedOnce /\ Precedence
  BY <1>2 DEF ListedOnce, Precedence
<1> QED
  BY <1>1, <1>3, <1>4 DEF IInv

LEMMA NextInv ==
  ASSUME IInv, [Next]_vars
  PROVE  IInv'
<1>1. ASSUME NEW p \in Path, NEW id \in Id, MuxAdd(p, id)
      PROVE  IInv'
  BY <1>1, AddEntryInv, AddHandlerInv DEF MuxAdd
<1>2. ASSUME NEW p \in Path, NEW id \in Id, MuxRemove(p, id)
      PROVE  IInv'
  BY <1>2, RemoveHandlerInv, StutterInv DEF MuxRemove, RemoveUnknown
<1>3. ASSUME NEW q \in Request, MuxHandler(q)
      PROVE  IInv'
  BY <1>3, HandlerFoundInv, HandlerNilInv DEF MuxHandler
<1>4. CASE UNCHANGED vars
  BY <1>4, StutterInv
<1> QED
  BY <1>1, <1>2, <1>3, <1>4 DEF Next

\* IInv holds in every reachable state of the router.
THEOREM Invariance == Spec => []IInv
<1>1. Init => IInv
  BY InitInv
<1>2. IInv /\ [Next]_vars => IInv'
  BY NextInv
<1> QED
  BY <1>1, <1>2, PTL DEF Spec

\* The fields of Mux and muxEntry keep their types; in particular no call of
\* muxEntry.handler indexes its handlers out of range.
THEOREM TypeCorrect == Spec => []TypeOK
<1>1. IInv => TypeOK
  BY DEF IInv
<1> QED
  BY <1>1, Invariance, PTL

\* Mux.entryMap and Mux.entries never disagree about which routes are live.
THEOREM IndexIsSound == Spec => []IndexSound
<1>1. IInv => IndexSound
  BY DEF IInv
<1> QED
  BY <1>1, Invariance, PTL

\* Mux.Add's shifting append neither loses nor repeats an entry.
THEOREM EntriesListedOnce == Spec => []ListedOnce
<1>1. IInv => ListedOnce
  BY DEF IInv
<1> QED
  BY <1>1, Invariance, PTL

\* Mux.entries keeps the precedence order, for every order of Adds and
\* Removes.
THEOREM PrecedenceKept == Spec => []Precedence
<1>1. IInv => Precedence
  BY DEF IInv
<1> QED
  BY <1>1, Invariance, PTL

-----------------------------------------------------------------------------
(***************************************************************************)
(* Mux implements RouteTable.                                              *)
(***************************************************************************)

\* The routes of the refinement mapping.
Pools ==
  [p \in Path |-> IF entryMap[p] = Nil THEN <<>> ELSE heap[entryMap[p]].handlers]

\* Replacing the handlers of the entry of p replaces the pool of p, and no
\* other: no two paths are indexed to the same entry.
LEMMA HandlersRefine ==
  ASSUME IInv, NEW p \in Path, entryMap[p] # Nil, NEW hs,
         heap' = [heap EXCEPT ![entryMap[p]].handlers = hs],
         entryMap' = IF hs = <<>> THEN [entryMap EXCEPT ![p] = Nil] ELSE entryMap
  PROVE  Pools' = [Pools EXCEPT ![p] = hs]
<1>1. entryMap \in [Path -> 0..Len(heap)] /\ heap \in Seq(MuxEntry)
  BY DEF IInv, TypeOK
<1>2. entryMap[p] \in DOMAIN heap /\ heap[entryMap[p]] \in MuxEntry
  BY <1>1, Indexed, EntryType, LenProperties DEF IInv
<1>3. ASSUME NEW o \in Path
      PROVE  Pools'[o] = IF o = p THEN hs ELSE Pools[o]
  <2>1. CASE o = p
    <3>1. (heap'[entryMap[p]]).handlers = hs
      BY <1>2 DEF MuxEntry
    <3>2. CASE hs = <<>>
      <4>1. entryMap'[o] = Nil
        BY <1>1, <2>1, <3>2
      <4> QED
        BY <2>1, <3>2, <4>1 DEF Pools
    <3>3. CASE hs # <<>>
      <4>1. entryMap'[o] = entryMap[p]
        BY <2>1, <3>3
      <4> QED
        BY <2>1, <3>1, <4>1 DEF Pools
    <3> QED
      BY <3>2, <3>3
  <2>2. CASE o # p
    <3>1. entryMap'[o] = entryMap[o]
      BY <1>1, <2>2
    <3>2. entryMap[o] # Nil => entryMap[o] # entryMap[p]
      BY <2>2, Indexed
    <3>3. entryMap[o] # Nil => heap'[entryMap[o]] = heap[entryMap[o]]
      BY <1>1, <3>2, Indexed, LenProperties
    <3>4. Pools'[o] = IF entryMap'[o] = Nil
                       THEN <<>> ELSE (heap'[entryMap'[o]]).handlers
      BY DEF Pools
    <3>5. Pools[o] = IF entryMap[o] = Nil
                      THEN <<>> ELSE heap[entryMap[o]].handlers
      BY DEF Pools
    <3> QED
      BY <2>2, <3>1, <3>3, <3>4, <3>5, Zenon
  <2> QED
    BY <2>1, <2>2
<1> QED
  BY <1>3 DEF Pools

LEMMA AddEntryRefines ==
  ASSUME IInv, NEW p \in Path, NEW id \in Id, AddEntry(p, id)
  PROVE  Pools' = [Pools EXCEPT ![p] = Append(@, id)]
<1> DEFINE new == [path |-> p, handlers |-> <<id>>, next |-> 0]
           n == Len(heap)
<1>1. /\ entryMap \in [Path -> 0..n] /\ heap \in Seq(MuxEntry) /\ n \in Nat
      /\ entryMap[p] = Nil /\ new \in MuxEntry
      /\ heap' = Append(heap, new)
      /\ entryMap' = [entryMap EXCEPT ![p] = n + 1]
  BY LenProperties, BoundAssumption DEF IInv, TypeOK, AddEntry, MuxEntry
<1>2. new.handlers = <<id>> /\ Append(<<>>, id) = <<id>>
  OBVIOUS
<1> HIDE DEF new
<1>3. heap'[n + 1] = new /\ \A k \in 1..n : heap'[k] = heap[k]
  BY <1>1, AppendProperties
<1>4. ASSUME NEW o \in Path
      PROVE  Pools'[o] = IF o = p THEN Append(Pools[o], id) ELSE Pools[o]
  <2>1. CASE o = p
    BY <1>1, <1>2, <1>3, <2>1 DEF Pools, Nil
  <2>2. CASE o # p
    <3>1. entryMap'[o] = entryMap[o]
      BY <1>1, <2>2
    <3>2. entryMap[o] # Nil => heap'[entryMap[o]] = heap[entryMap[o]]
      BY <1>3, Indexed
    <3> QED
      BY <2>2, <3>1, <3>2 DEF Pools
  <2> QED
    BY <2>1, <2>2
<1> QED
  BY <1>4 DEF Pools

\* The first entry that answers belongs to a path no candidate outranks.
LEMMA FirstAnswerIsBest ==
  ASSUME IInv, NEW q \in Request, NEW i \in 1..Len(entries),
         Answers(entries[i], q),
         \A j \in 1..i - 1 : ~Answers(entries[j], q)
  PROVE  LET p == heap[entries[i]].path IN
         /\ p \in Routes!Candidates(q)
         /\ Pools[p] = heap[entries[i]].handlers
         /\ \A o \in Routes!Candidates(q) : Routes!Outranks(p, o)
<1> DEFINE p == heap[entries[i]].path
<1>1. entries[i] \in 1..Len(heap)
  BY ElementOfSeq DEF IInv, TypeOK
<1>2. p \in Path /\ heap[entries[i]].handlers # <<>> /\ q \in MatchSet[p]
  BY <1>1, EntryType DEF IInv, Answers
<1>3. entryMap[p] = entries[i] /\ entryMap[p] # Nil
  BY <1>1, <1>2 DEF IInv, IndexSound, Nil
<1>4. Pools[p] = heap[entries[i]].handlers
  BY <1>2, <1>3 DEF Pools
<1>5. p \in Routes!Candidates(q)
  BY <1>2, <1>4 DEF Routes!Candidates, Pools
<1>6. ASSUME NEW o \in Routes!Candidates(q)
      PROVE  Routes!Outranks(p, o)
  <2>1. o \in Path /\ Pools[o] # <<>> /\ q \in MatchSet[o]
    BY DEF Routes!Candidates, Pools
  <2>2. entryMap[o] # Nil
    BY <2>1 DEF Pools
  <2>3. /\ entryMap[o] \in 1..Len(heap) /\ heap[entryMap[o]].path = o
        /\ Answers(entryMap[o], q)
    BY <2>1, <2>2, Indexed DEF Answers
  <2>4. PICK j \in 1..Len(entries) : entries[j] = entryMap[o]
    BY <2>3 DEF IInv, ListedOnce
  <2>5. ~(j \in 1..i - 1)
    BY <2>3, <2>4
  <2>6. i = j \/ i < j
    BY <2>5
  <2>7. CASE i < j
    <3>1. Routes!Outranks(p, heap[entries[j]].path)
      BY <2>7 DEF IInv, Precedence
    <3> QED
      BY <2>3, <2>4, <3>1
  <2>8. CASE i = j
    <3>1. p = o /\ PathLen[p] \in Nat
      BY <1>2, <2>3, <2>4, <2>8, PathAssumption
    <3> QED
      BY <3>1 DEF Routes!Outranks
  <2> QED
    BY <2>6, <2>7, <2>8
<1> QED
  BY <1>4, <1>5, <1>6

LEMMA HandlerRefines ==
  ASSUME IInv, NEW q \in Request, MuxHandler(q)
  PROVE  Routes!Lookup(q)
<1>1. CASE HandlerFound(q)
  <2>1. PICK i \in 1..Len(entries) :
          /\ Answers(entries[i], q)
          /\ \A j \in 1..i - 1 : ~Answers(entries[j], q)
          /\ heap' = [heap EXCEPT ![entries[i]].next = NextTurn(entries[i])]
          /\ served' = [request |-> q,
                        handler |-> heap[entries[i]].handlers[Turn(entries[i])]]
          /\ UNCHANGED <<entries, entryMap>>
    BY <1>1 DEF HandlerFound
  <2> DEFINE r == entries[i]
             p == heap[r].path
  <2>2. /\ p \in Routes!Candidates(q)
        /\ Pools[p] = heap[r].handlers
        /\ \A o \in Routes!Candidates(q) : Routes!Outranks(p, o)
    BY <2>1, FirstAnswerIsBest
  <2>3. r \in 1..Len(heap)
    BY ElementOfSeq DEF IInv, TypeOK
  <2>4. heap[r].handlers # <<>> /\ p \in Path
    BY <2>1, <2>3, EntryType DEF IInv, Answers
  <2>5. Turn(r) \in 1..Len(heap[r].handlers)
    BY <2>3, <2>4, TurnInRange DEF IInv
  <2>6. \E k \in 1..Len(Pools[p]) :
          served' = [request |-> q, handler |-> Pools[p][k]]
    BY <2>1, <2>2, <2>5
  <2>7. Pools' = Pools
    <3>1. heap \in Seq(MuxEntry) /\ \A k \in 1..Len(heap) : heap[k] \in MuxEntry
      BY EntryType DEF IInv, TypeOK
    <3>2. \A k \in 1..Len(heap) : (heap'[k]).handlers = heap[k].handlers
      BY <2>1, <2>3, <3>1 DEF MuxEntry
    <3> QED
      BY <2>1, <3>2, Indexed DEF Pools
  <2> QED
    BY <2>2, <2>6, <2>7 DEF Routes!Lookup, Pools
<1>2. CASE HandlerNil(q)
  <2>1. /\ \A i \in 1..Len(entries) : ~Answers(entries[i], q)
        /\ served' = [request |-> q, handler |-> NoHandler] /\ Pools' = Pools
    BY <1>2 DEF HandlerNil, Pools
  <2>2. ASSUME NEW o \in Routes!Candidates(q)
        PROVE  FALSE
    <3>1. o \in Path /\ Pools[o] # <<>> /\ q \in MatchSet[o]
      BY DEF Routes!Candidates, Pools
    <3>2. entryMap[o] # Nil
      BY <3>1 DEF Pools
    <3>3. entryMap[o] \in 1..Len(heap) /\ Answers(entryMap[o], q)
      BY <3>1, <3>2, Indexed DEF Answers
    <3> QED
      BY <2>1, <3>3 DEF IInv, ListedOnce
  <2> QED
    BY <2>1, <2>2 DEF Routes!Lookup, Pools
<1> QED
  BY <1>1, <1>2 DEF MuxHandler

\* Every call of Add, Remove or Handler is the corresponding step of
\* RouteTable, or changes nothing it can see.
LEMMA NextRefines ==
  ASSUME IInv, [Next]_vars
  PROVE  [Routes!Next]_(Routes!vars)
<1>1. ASSUME NEW p \in Path, NEW id \in Id, MuxAdd(p, id)
      PROVE  Routes!Register(p, id)
  <2>1. Pools' = [Pools EXCEPT ![p] = Append(@, id)]
    <3>1. CASE AddEntry(p, id)
      BY <3>1, AddEntryRefines
    <3>2. CASE AddHandler(p, id)
      <4> DEFINE hs == Append(heap[entryMap[p]].handlers, id)
      <4>1. /\ entryMap[p] # Nil
            /\ heap' = [heap EXCEPT ![entryMap[p]].handlers = hs]
            /\ entryMap' = entryMap
        BY <3>2 DEF AddHandler, EntryAdd
      <4>2. hs # <<>>
        BY <4>1, Indexed
      <4>3. hs = Append(Pools[p], id)
        BY <4>1 DEF Pools
      <4> HIDE DEF hs
      <4>4. Pools' = [Pools EXCEPT ![p] = hs]
        BY <4>1, <4>2, HandlersRefine
      <4> QED
        BY <4>3, <4>4
    <3> QED
      BY <1>1, <3>1, <3>2 DEF MuxAdd
  <2>2. served' = served
    BY <1>1 DEF MuxAdd, AddEntry, AddHandler, EntryAdd
  <2> QED
    BY <2>1, <2>2 DEF Routes!Register, Pools
<1>2. ASSUME NEW p \in Path, NEW id \in Id, RemoveHandler(p, id)
      PROVE  Routes!Unregister(p, id)
  <2> DEFINE hs == RemoveFirst(heap[entryMap[p]].handlers, id)
  <2>1. /\ entryMap[p] # Nil
        /\ heap' = [heap EXCEPT ![entryMap[p]].handlers = hs]
        /\ entryMap' = IF hs = <<>> THEN [entryMap EXCEPT ![p] = Nil] ELSE entryMap
        /\ served' = served
    BY <1>2 DEF RemoveHandler, EntryRemove
  <2>2. hs = RemoveFirst(Pools[p], id)
    BY <2>1 DEF Pools
  <2> HIDE DEF hs
  <2>3. Pools' = [Pools EXCEPT ![p] = hs]
    BY <2>1, HandlersRefine
  \* the operator of SequencesExt, seen through the instance
  <2>4. Routes!RemoveFirst(Pools[p], id) = RemoveFirst(Pools[p], id)
    BY DEF Routes!RemoveFirst, Routes!SelectInSeq, Routes!RemoveAt, Routes!Min,
           RemoveFirst, SelectInSeq, RemoveAt, Min
  <2> QED
    BY <2>1, <2>2, <2>3, <2>4 DEF Routes!Unregister, Pools
<1>3. ASSUME NEW p \in Path, NEW id \in Id, MuxRemove(p, id)
      PROVE  [Routes!Next]_(Routes!vars)
  <2>1. CASE RemoveHandler(p, id)
    BY <1>2, <2>1 DEF Routes!Next
  <2>2. CASE RemoveUnknown(p, id)
    BY <2>2 DEF RemoveUnknown, vars, Routes!vars
  <2> QED
    BY <1>3, <2>1, <2>2 DEF MuxRemove
<1>4. ASSUME NEW q \in Request, MuxHandler(q)
      PROVE  [Routes!Next]_(Routes!vars)
  BY <1>4, HandlerRefines DEF Routes!Next
<1>5. CASE UNCHANGED vars
  BY <1>5 DEF vars, Routes!vars
<1> QED
  BY <1>1, <1>3, <1>4, <1>5 DEF Next, Routes!Next

LEMMA InitRefines ==
  ASSUME Init
  PROVE  Routes!Init
<1>1. \A p \in Path : entryMap[p] = Nil
  BY DEF Init
<1> QED
  BY <1>1 DEF Init, Routes!Init

\* Mux keeps the promise of RouteTable: whatever the sequence of Adds and
\* Removes, and however full Mux.entries is of emptied entries, Handler
\* answers from the pool of a live matching path that no other live matching
\* path outranks, and with nil only when there is none.
THEOREM Refinement == Spec => ImplementsRouteTable
<1>1. Init => Routes!Init
  BY InitRefines
<1>2. IInv /\ [Next]_vars => [Routes!Next]_(Routes!vars)
  BY NextRefines
<1> QED
  BY <1>1, <1>2, Invariance, PTL DEF Spec, ImplementsRouteTable, Routes!Spec

-----------------------------------------------------------------------------
(***************************************************************************)
(* The counter of muxEntry.handler and the picks it makes.                 *)
(***************************************************************************)

\* The value after t of a counter with c values.
After(t, c) == IF t + 1 = c THEN 0 ELSE t + 1

\* Advancing modulo c is counting up and starting over.
LEMMA ModNext ==
  ASSUME NEW c \in Nat \ {0}, NEW t \in Nat
  PROVE  /\ t % c \in 0..c - 1
         /\ (t + 1) % c = After(t % c, c)
<1>1. t % c \in 0..c - 1 /\ t = c * (t \div c) + (t % c) /\ t \div c \in Int
  OBVIOUS
<1> DEFINE q == t \div c
           r == t % c
<1>2. /\ (t + 1) % c \in 0..c - 1
      /\ t + 1 = c * ((t + 1) \div c) + ((t + 1) % c)
      /\ (t + 1) \div c \in Int
  OBVIOUS
<1>3. (t + 1) % c = After(r, c)
  <2> DEFINE q2 == (t + 1) \div c
             r2 == (t + 1) % c
  <2>1. /\ q \in Int /\ q2 \in Int /\ r \in 0..c - 1 /\ r2 \in 0..c - 1
        /\ t = c * q + r /\ t + 1 = c * q2 + r2
    BY <1>1, <1>2
  <2> HIDE DEF q, r, q2, r2
  <2>2. c * (q2 - q) = r + 1 - r2
    BY <2>1
  <2>3. q2 - q = 0 \/ q2 - q = 1 \/ q2 - q > 1 \/ q2 - q < 0
    BY <2>1
  <2>4. ~(q2 - q > 1)
    BY <2>1, <2>2
  <2>5. ~(q2 - q < 0)
    BY <2>1, <2>2
  <2>6. r2 = After(r, c)
    BY <2>1, <2>2, <2>3, <2>4, <2>5 DEF After
  <2> QED
    BY <2>6 DEF r2
<1> QED
  BY <1>1, <1>3

\* What a counter with c values that shows a shows k steps later, k <= c.
Later(a, k, c) == IF a + k < c THEN a + k ELSE a + k - c

LEMMA LaterNext ==
  ASSUME NEW c \in Nat \ {0}, NEW a \in 0..c - 1
  PROVE  /\ Later(a, 0, c) = a
         /\ \A k \in 1..c : Later(a, k, c) = After(Later(a, k - 1, c), c)
BY DEF Later, After

\* A sequence that counts with c values, from any of its elements on.
LEMMA CycleValues ==
  ASSUME NEW c \in Nat \ {0}, NEW N \in Nat, NEW u \in [1..N -> 0..c - 1],
         \A i \in 1..N - 1 : u[i + 1] = After(u[i], c)
  PROVE  \A i \in 1..N, k \in 0..c : i + k <= N => u[i + k] = Later(u[i], k, c)
<1> SUFFICES ASSUME NEW i \in 1..N
             PROVE  \A k \in 0..c : i + k <= N => u[i + k] = Later(u[i], k, c)
  OBVIOUS
<1> DEFINE A == {k \in 1..c : i + k <= N => u[i + k] = Later(u[i], k, c)}
<1>0. i \in Int /\ u[i] \in 0..c - 1
  OBVIOUS
<1>1. i + 0 = i /\ u[i + 0] = Later(u[i], 0, c)
  BY <1>0, LaterNext
<1>2. ASSUME NEW k \in 1..c, k = 1 \/ k - 1 \in A, i + k <= N
      PROVE  u[i + k] = Later(u[i], k, c)
  <2>1. i + (k - 1) \in 1..N - 1 /\ (i + (k - 1)) + 1 = i + k
    BY <1>2
  <2>2. u[i + k] = After(u[i + (k - 1)], c)
    BY <2>1
  <2>3. u[i + (k - 1)] = Later(u[i], k - 1, c)
    <3>1. CASE k = 1
      <4>1. k - 1 = 0
        BY <3>1
      <4> QED
        BY <1>1, <4>1
    <3>2. CASE k - 1 \in A
      <4>1. i + (k - 1) <= N
        BY <2>1
      <4> QED
        BY <3>2, <4>1
    <3> QED
      BY <1>2, <3>1, <3>2
  <2>4. Later(u[i], k, c) = After(Later(u[i], k - 1, c), c)
    BY <1>0, LaterNext
  <2> QED
    BY <2>2, <2>3, <2>4
<1>3. \A k \in 1..c : (k = 1 \/ k - 1 \in A) => k \in A
  BY <1>2
<1>4. 1..c \subseteq A
  <2> HIDE DEF A
  <2> QED
    BY <1>3, Ascend
<1>5. \A k \in 0..c : k = 0 \/ k \in 1..c
  OBVIOUS
<1>6. \A k \in 1..c : i + k <= N => u[i + k] = Later(u[i], k, c)
  BY <1>4
<1> QED
  BY <1>1, <1>5, <1>6

\* Any c consecutive numbers leave every remainder modulo c.
LEMMA Residues ==
  ASSUME NEW c \in Nat \ {0}, NEW t \in Nat, NEW x \in 0..c - 1
  PROVE  \E k \in 0..c - 1 : (t + k) % c = x
<1> DEFINE u == [i \in 1..c |-> (t + (i - 1)) % c]
           a == t % c
<1>1. u \in [1..c -> 0..c - 1] /\ a \in 0..c - 1
  BY ModNext
<1>2. ASSUME NEW i \in 1..c - 1
      PROVE  u[i + 1] = After(u[i], c)
  <2>1. t + (i - 1) \in Nat /\ (t + (i - 1)) + 1 = t + ((i + 1) - 1)
    OBVIOUS
  <2>2. ((t + (i - 1)) + 1) % c = After((t + (i - 1)) % c, c)
    BY <2>1, ModNext
  <2>3. i \in 1..c /\ i + 1 \in 1..c
    OBVIOUS
  <2> QED
    BY <2>1, <2>2, <2>3
<1>3. u[1] = a /\ \A k \in 0..c - 1 : u[1 + k] = (t + k) % c
  <2>1. t + (1 - 1) = t /\ 1 \in 1..c
    OBVIOUS
  <2>2. ASSUME NEW k \in 0..c - 1
        PROVE  u[1 + k] = (t + k) % c
    <3>1. 1 + k \in 1..c /\ t + ((1 + k) - 1) = t + k
      OBVIOUS
    <3> QED
      BY <3>1
  <2> QED
    BY <2>1, <2>2
<1> HIDE DEF u, a
<1>4. \A k \in 0..c - 1 : (t + k) % c = Later(a, k, c)
  <2>1. \A i \in 1..c, k \in 0..c : i + k <= c => u[i + k] = Later(u[i], k, c)
    BY <1>1, <1>2, CycleValues
  <2>2. \A k \in 0..c - 1 : k \in 0..c /\ 1 + k <= c /\ 1 \in 1..c
    OBVIOUS
  <2> QED
    BY <1>3, <2>1, <2>2
<1>5. \E k \in 0..c - 1 : Later(a, k, c) = x
  <2>1. CASE a <= x
    <3>1. x - a \in 0..c - 1 /\ Later(a, x - a, c) = x
      BY <1>1, <2>1 DEF Later
    <3> QED
      BY <3>1
  <2>2. CASE x < a
    <3>1. x - a + c \in 0..c - 1 /\ Later(a, x - a + c, c) = x
      BY <1>1, <2>2 DEF Later
    <3> QED
      BY <3>1
  <2> QED
    BY <1>1, <2>1, <2>2
<1> QED
  BY <1>4, <1>5
-----------------------------------------------------------------------------
(***************************************************************************)
(* The picks MuxBalance remembers of an entry.                             *)
(***************************************************************************)

\* One remembered pick.
Seen == [turn : 0..CounterSize - 1, at : Nat]

\* The picks s of a pool of n handlers: the counter counts, and every pick is
\* the remainder of the counter.
Counts(s, n) ==
  /\ s \in Seq(Seen)
  /\ \A i \in 1..Len(s) : s[i].at = (s[i].turn % n) + 1
  /\ \A i \in 1..Len(s) - 1 : s[i + 1].turn = After(s[i].turn, CounterSize)

\* muxEntry.handler stays in the pool.
LEMMA PickInPool ==
  ASSUME NEW n \in Nat \ {0}, NEW s, Counts(s, n), NEW i \in 1..Len(s)
  PROVE  s[i].turn \in 0..CounterSize - 1 /\ s[i].at \in 1..n
<1>1. s[i] \in Seen
  BY ElementOfSeq DEF Counts
<1>2. s[i].turn \in 0..CounterSize - 1
  BY <1>1 DEF Seen
<1>3. s[i].turn \in Nat
  BY <1>2, BoundAssumption
<1>4. s[i].turn % n \in 0..n - 1
  BY <1>3, ModNext
<1> QED
  BY <1>2, <1>4 DEF Counts

\* The picks of s from j on, m + 1 of them, choose each of n handlers.
Covers(s, j, m, n) == \A h \in 1..n : \E k \in 0..m : s[j + k].at = h

\* n picks during which the counter does not wrap choose every handler.
LEMMA RoundCovers ==
  ASSUME NEW n \in Nat \ {0}, n <= CounterSize, NEW s, Counts(s, n),
         NEW j \in 1..Len(s), j + (n - 1) <= Len(s),
         s[j].turn + (n - 1) < CounterSize
  PROVE  Covers(s, j, n - 1, n)
<1> DEFINE N == Len(s)
           C == CounterSize
           u == [i \in 1..N |-> s[i].turn]
<1>1. N \in Nat /\ C \in Nat \ {0}
  BY LenProperties, BoundAssumption DEF Counts
<1>2. u \in [1..N -> 0..C - 1]
  BY PickInPool
<1>3. \A i \in 1..N - 1 : u[i + 1] = After(u[i], C)
  BY <1>1 DEF Counts
<1>4. \A i \in 1..N : u[i] = s[i].turn
  OBVIOUS
<1>5. \A i \in 1..N : s[i].at = (u[i] % n) + 1
  BY <1>4 DEF Counts
<1> HIDE DEF N, C, u
<1>6. j \in 1..N /\ j + (n - 1) <= N /\ n <= C /\ u[j] + (n - 1) < C /\ u[j] \in 0..C - 1
  BY <1>2, <1>4 DEF N, C
<1>7. \A i \in 1..N, k \in 0..C : i + k <= N => u[i + k] = Later(u[i], k, C)
  BY <1>1, <1>2, <1>3, CycleValues
<1>8. ASSUME NEW k \in 0..n - 1
      PROVE  j + k \in 1..N /\ s[j + k].at = ((u[j] + k) % n) + 1
  <2>1. j + k \in 1..N /\ k \in 0..C /\ j + k <= N /\ u[j] + k < C
    BY <1>1, <1>6
  <2>2. u[j + k] = Later(u[j], k, C)
    BY <1>6, <1>7, <2>1
  <2>3. u[j + k] = u[j] + k
    BY <2>1, <2>2 DEF Later
  <2> QED
    BY <1>5, <2>1, <2>3
<1>9. ASSUME NEW h \in 1..n
      PROVE  \E k \in 0..n - 1 : s[j + k].at = h
  <2>1. h - 1 \in 0..n - 1 /\ u[j] \in Nat /\ (h - 1) + 1 = h
    BY <1>1, <1>6
  <2>2. PICK k \in 0..n - 1 : (u[j] + k) % n = h - 1
    BY <2>1, Residues
  <2>3. s[j + k].at = h
    BY <1>8, <2>1, <2>2
  <2> QED
    BY <2>3
<1> QED
  BY <1>9 DEF Covers

\* 2n - 1 picks choose every handler: the counter wraps at most once in the
\* first n, and from its zero on it has n picks left before it wraps again.
LEMMA PicksCover ==
  ASSUME NEW n \in Nat \ {0}, n <= CounterSize, NEW s, Counts(s, n),
         NEW j \in 1..Len(s), j + (2 * n - 2) <= Len(s)
  PROVE  Covers(s, j, 2 * n - 2, n)
<1>0. \A i \in 1..Len(s) :
        (i + (n - 1) <= Len(s) /\ s[i].turn + (n - 1) < CounterSize)
          => Covers(s, i, n - 1, n)
  BY RoundCovers
<1> DEFINE N == Len(s)
           C == CounterSize
           u == [i \in 1..N |-> s[i].turn]
<1>1. N \in Nat /\ C \in Nat \ {0}
  BY LenProperties, BoundAssumption DEF Counts
<1>2. u \in [1..N -> 0..C - 1]
  BY PickInPool
<1>3. \A i \in 1..N - 1 : u[i + 1] = After(u[i], C)
  BY <1>1 DEF Counts
<1>4. \A i \in 1..N : u[i] = s[i].turn
  OBVIOUS
<1> HIDE DEF N, C, u
<1>5. j \in 1..N /\ j + (2 * n - 2) <= N /\ n <= C /\ u[j] \in 0..C - 1
  BY <1>2 DEF N, C
<1>6. CASE u[j] + (n - 1) < C
  <2>1. j + (n - 1) <= N /\ s[j].turn + (n - 1) < C
    BY <1>1, <1>4, <1>5, <1>6
  <2>2. Covers(s, j, n - 1, n)
    <3>1. j + (n - 1) <= Len(s) /\ s[j].turn + (n - 1) < CounterSize
      BY <2>1 DEF N, C
    <3> QED
      BY <1>0, <3>1
  <2>3. \A k \in 0..n - 1 : k \in 0..2 * n - 2
    OBVIOUS
  <2> QED
    BY <2>2, <2>3 DEF Covers
<1>7. CASE ~(u[j] + (n - 1) < C)
  <2> DEFINE d == C - u[j]
  <2>1. d \in 1..n - 1 /\ d \in 0..C /\ j + d \in 1..N /\ j + d <= N
    BY <1>1, <1>5, <1>7
  <2>2. u[j + d] = Later(u[j], d, C)
    BY <1>1, <1>2, <1>3, <1>5, <2>1, CycleValues
  <2>3. u[j + d] = 0
    BY <1>1, <1>5, <2>2 DEF Later
  <2> HIDE DEF d
  <2>4. (j + d) + (n - 1) <= N /\ s[j + d].turn + (n - 1) < C
    BY <1>1, <1>4, <1>5, <2>1, <2>3
  <2>5. Covers(s, j + d, n - 1, n)
    <3>1. /\ j + d \in 1..Len(s)
          /\ (j + d) + (n - 1) <= Len(s)
          /\ s[j + d].turn + (n - 1) < CounterSize
      BY <2>1, <2>4 DEF N, C
    <3> QED
      BY <1>0, <3>1
  <2>6. \A k \in 0..n - 1 : d + k \in 0..2 * n - 2 /\ j + (d + k) = (j + d) + k
    BY <1>5, <2>1
  <2> QED
    BY <2>5, <2>6 DEF Covers
<1> QED
  BY <1>6, <1>7

-----------------------------------------------------------------------------
\* The bounds of Mux, and the picks remembered of every entry: they were made
\* from its present pool, and the last one left muxEntry.next as it is.
Picks ==
  /\ Len(heap) <= MaxEntries
  /\ \A r \in 1..Len(heap) :
       /\ Len(heap[r].handlers) <= MaxHandlers
       /\ Counts(recent[r], Len(heap[r].handlers))
       /\ recent[r] # <<>> => recent[r][Len(recent[r])].turn = heap[r].next

BalanceInv == IInv /\ Picks

\* The end of a sequence that LastOf keeps.
LEMMA LastOfProperties ==
  ASSUME NEW S, NEW s \in Seq(S), NEW n \in Nat \ {0}
  PROVE  \E d \in Nat :
           /\ LastOf(s, n) \in Seq(S)
           /\ Len(LastOf(s, n)) + d = Len(s)
           /\ \A i \in 1..Len(LastOf(s, n)) : LastOf(s, n)[i] = s[i + d]
           /\ s # <<>> => Len(LastOf(s, n)) > 0
<1>1. Len(s) \in Nat /\ (s # <<>> => Len(s) > 0)
  BY LenProperties, EmptySeq
<1>2. CASE Len(s) <= n
  <2>1. LastOf(s, n) = s
    BY <1>2 DEF LastOf
  <2>2. \A i \in 1..Len(s) : s[i] = s[i + 0]
    OBVIOUS
  <2> QED
    BY <1>1, <2>1, <2>2
<1>3. CASE ~(Len(s) <= n)
  <2> DEFINE d == Len(s) - n
  <2>1. d \in Nat /\ d + 1 \in 1..Len(s) /\ Len(s) - n + 1 = d + 1
    BY <1>1, <1>3
  <2>2. LastOf(s, n) = SubSeq(s, d + 1, Len(s))
    BY <1>3, <2>1 DEF LastOf
  <2>3. /\ SubSeq(s, d + 1, Len(s)) \in Seq(S)
        /\ Len(SubSeq(s, d + 1, Len(s))) = n
        /\ \A i \in 1..n : SubSeq(s, d + 1, Len(s))[i] = s[i + d]
    BY <1>1, <2>1, SubSeqProperties
  <2> DEFINE t == SubSeq(s, d + 1, Len(s))
  <2>4. t \in Seq(S) /\ Len(t) = n /\ \A i \in 1..n : t[i] = s[i + d]
    BY <2>3
  <2> HIDE DEF t
  <2>5. /\ t \in Seq(S)
        /\ Len(t) + d = Len(s)
        /\ \A i \in 1..Len(t) : t[i] = s[i + d]
        /\ s # <<>> => Len(t) > 0
    BY <1>1, <2>4
  <2>6. LastOf(s, n) = t
    BY <2>2 DEF t
  <2> QED
    BY <2>1, <2>5, <2>6, Zenon
<1> QED
  BY <1>2, <1>3

\* What one step of Mux does to an entry: the pool changes, or the counter of
\* a pool that is not empty advances, or nothing.
EntryStep(r) ==
  \/ (heap'[r]).handlers # heap[r].handlers
  \/ heap'[r] = heap[r]
  \/ /\ (heap'[r]).handlers = heap[r].handlers
     /\ heap[r].handlers # <<>>
     /\ (heap'[r]).next = NextTurn(r)

\* No step takes an entry away, and each stays in the bound of its pool.
Grows ==
  /\ Len(heap) <= Len(heap') /\ Len(heap') <= MaxEntries
  /\ \A r \in 1..Len(heap') : Len((heap'[r]).handlers) <= MaxHandlers
  /\ \A r \in 1..Len(heap) : EntryStep(r)

\* A change of the handlers of one entry to a pool within the bound.
LEMMA HandlersGrow ==
  ASSUME BalanceInv, NEW r \in 1..Len(heap), NEW hs \in Seq(Id),
         Len(hs) <= MaxHandlers,
         heap' = [heap EXCEPT ![r].handlers = hs]
  PROVE  Grows
<1> DEFINE e == [heap[r] EXCEPT !.handlers = hs]
<1>1. heap[r] \in MuxEntry /\ e \in MuxEntry /\ e.path = heap[r].path /\ e.handlers = hs
  BY EntryType DEF BalanceInv, IInv, MuxEntry
<1>2. heap' = [heap EXCEPT ![r] = e]
  OBVIOUS
<1>3. hs = heap[r].handlers => e = heap[r]
  BY <1>1 DEF MuxEntry
<1> HIDE DEF e
<1>4. /\ Len(heap') = Len(heap) /\ heap'[r] = e
      /\ \A k \in 1..Len(heap) : k # r => heap'[k] = heap[k]
  BY <1>1, <1>2, EntryUpdate DEF BalanceInv, IInv
<1>5. Len(heap) \in Nat /\ Len(heap) <= MaxEntries
  BY LenProperties DEF BalanceInv, IInv, TypeOK, Picks
<1>6. \A k \in 1..Len(heap) : Len(heap[k].handlers) <= MaxHandlers
  BY DEF BalanceInv, Picks
<1>7. \A k \in 1..Len(heap') : Len((heap'[k]).handlers) <= MaxHandlers
  BY <1>1, <1>4, <1>6
<1>8. \A k \in 1..Len(heap) : EntryStep(k)
  BY <1>1, <1>3, <1>4 DEF EntryStep
<1> QED
  BY <1>4, <1>5, <1>7, <1>8 DEF Grows

LEMMA AddEntryGrows ==
  ASSUME BalanceInv, 1 <= MaxHandlers, NEW p \in Path, NEW id \in Id, AddEntry(p, id)
  PROVE  Grows
<1> DEFINE n == Len(heap)
           new == [path |-> p, handlers |-> <<id>>, next |-> 0]
<1>1. heap \in Seq(MuxEntry) /\ n \in Nat /\ n < MaxEntries
  BY LenProperties DEF BalanceInv, IInv, TypeOK, AddEntry
<1>2. new \in MuxEntry /\ Len(new.handlers) = 1 /\ heap' = Append(heap, new)
  BY BoundAssumption DEF MuxEntry, AddEntry
<1> HIDE DEF new
<1>3. Len(heap') = n + 1 /\ heap'[n + 1] = new /\ \A k \in 1..n : heap'[k] = heap[k]
  BY <1>1, <1>2, AppendProperties
<1>4. \A k \in 1..n : Len(heap[k].handlers) <= MaxHandlers
  BY DEF BalanceInv, Picks
<1>5. \A k \in 1..n + 1 : k = n + 1 \/ k \in 1..n
  BY <1>1
<1>6. \A k \in 1..Len(heap') : Len((heap'[k]).handlers) <= MaxHandlers
  BY <1>2, <1>3, <1>4, <1>5
<1>7. \A k \in 1..n : EntryStep(k)
  BY <1>3 DEF EntryStep
<1>8. n <= n + 1 /\ n + 1 <= MaxEntries
  BY <1>1, BoundAssumption
<1> QED
  BY <1>3, <1>6, <1>7, <1>8 DEF Grows

LEMMA HandlerFoundGrows ==
  ASSUME BalanceInv, NEW q \in Request, HandlerFound(q)
  PROVE  Grows
<1>1. PICK i \in 1..Len(entries) :
        /\ Answers(entries[i], q)
        /\ heap' = [heap EXCEPT ![entries[i]].next = NextTurn(entries[i])]
  BY DEF HandlerFound
<1> DEFINE r == entries[i]
           e == [heap[r] EXCEPT !.next = NextTurn(r)]
<1>2. r \in 1..Len(heap)
  BY ElementOfSeq DEF BalanceInv, IInv, TypeOK
<1>3. heap[r] \in MuxEntry /\ heap[r].handlers # <<>> /\ heap[r].next \in 0..CounterSize - 1
  BY <1>1, <1>2, EntryType DEF BalanceInv, IInv, Answers
<1>4. NextTurn(r) \in 0..CounterSize - 1
  <2>1. heap[r].next \in Nat /\ heap[r].next + 1 \in Nat
    BY <1>3, BoundAssumption
  <2> QED
    BY <2>1, ModNext, BoundAssumption DEF NextTurn
<1>5. /\ e \in MuxEntry /\ e.path = heap[r].path
      /\ e.handlers = heap[r].handlers /\ e.next = NextTurn(r)
  BY <1>3, <1>4 DEF MuxEntry
<1>6. heap' = [heap EXCEPT ![r] = e]
  BY <1>1
<1> HIDE DEF e, r
<1>7. /\ Len(heap') = Len(heap) /\ heap'[r] = e
      /\ \A k \in 1..Len(heap) : k # r => heap'[k] = heap[k]
  BY <1>2, <1>5, <1>6, EntryUpdate DEF BalanceInv, IInv
<1>8. Len(heap) \in Nat /\ Len(heap) <= MaxEntries
  BY LenProperties DEF BalanceInv, IInv, TypeOK, Picks
<1>9. \A k \in 1..Len(heap) : Len(heap[k].handlers) <= MaxHandlers
  BY DEF BalanceInv, Picks
<1>10. \A k \in 1..Len(heap') : Len((heap'[k]).handlers) <= MaxHandlers
  BY <1>2, <1>5, <1>7, <1>9
<1>11. \A k \in 1..Len(heap) : EntryStep(k)
  BY <1>3, <1>5, <1>7 DEF EntryStep
<1> QED
  BY <1>7, <1>8, <1>10, <1>11 DEF Grows

LEMMA NextGrows ==
  ASSUME BalanceInv, 1 <= MaxHandlers, Next
  PROVE  Grows
<1>1. ASSUME NEW p \in Path, NEW id \in Id, AddHandler(p, id)
      PROVE  Grows
  <2> DEFINE r == entryMap[p]
             hs == Append(heap[r].handlers, id)
  <2>1. r \in 1..Len(heap) /\ heap[r].handlers \in Seq(Id)
    BY <1>1, Indexed DEF AddHandler, BalanceInv
  <2>2. Len(heap[r].handlers) < MaxHandlers /\ heap' = [heap EXCEPT ![r].handlers = hs]
    BY <1>1 DEF AddHandler, EntryAdd
  <2>3. hs \in Seq(Id) /\ Len(hs) = Len(heap[r].handlers) + 1
    BY <2>1, AppendProperties
  <2>4. Len(heap[r].handlers) \in Nat
    BY <2>1, LenProperties
  <2> HIDE DEF hs, r
  <2>5. Len(hs) <= MaxHandlers
    BY <2>2, <2>3, <2>4, BoundAssumption
  <2> QED
    BY <2>1, <2>2, <2>3, <2>5, HandlersGrow
<1>2. ASSUME NEW p \in Path, NEW id \in Id, RemoveHandler(p, id)
      PROVE  Grows
  <2> DEFINE r == entryMap[p]
             hs == RemoveFirst(heap[r].handlers, id)
  <2>1. r \in 1..Len(heap) /\ heap[r].handlers \in Seq(Id)
    BY <1>2, Indexed DEF RemoveHandler, BalanceInv
  <2>2. heap' = [heap EXCEPT ![r].handlers = hs]
    BY <1>2 DEF RemoveHandler, EntryRemove
  <2>3. hs \in Seq(Id) /\ Len(hs) <= Len(heap[r].handlers)
    BY <2>1, RemoveFirstProperties
  <2>4. Len(heap[r].handlers) \in Nat /\ Len(heap[r].handlers) <= MaxHandlers
    BY <2>1, LenProperties DEF BalanceInv, Picks
  <2>5. Len(hs) \in Nat
    BY <2>3, LenProperties
  <2> HIDE DEF hs, r
  <2>6. Len(hs) <= MaxHandlers
    BY <2>3, <2>4, <2>5, BoundAssumption
  <2> QED
    BY <2>1, <2>2, <2>3, <2>6, HandlersGrow
<1>3. ASSUME heap' = heap
      PROVE  Grows
  <2>1. Len(heap) \in Nat
    BY LenProperties DEF BalanceInv, IInv, TypeOK
  <2> QED
    BY <1>3, <2>1 DEF Grows, EntryStep, BalanceInv, Picks
<1>4. ASSUME NEW p \in Path, NEW id \in Id, MuxAdd(p, id)
      PROVE  Grows
  BY <1>1, <1>4, AddEntryGrows DEF MuxAdd
<1>5. ASSUME NEW p \in Path, NEW id \in Id, MuxRemove(p, id)
      PROVE  Grows
  BY <1>2, <1>3, <1>5 DEF MuxRemove, RemoveUnknown, vars
<1>6. ASSUME NEW q \in Request, MuxHandler(q)
      PROVE  Grows
  BY <1>3, <1>6, HandlerFoundGrows DEF MuxHandler, HandlerNil
<1> QED
  BY <1>4, <1>5, <1>6 DEF Next

\* The picks remembered of an entry after a step of Mux.
LEMMA ObserveCounts ==
  ASSUME BalanceInv, Grows, 1 <= MaxHandlers, NEW r \in 1..Len(heap),
         Len(heap) \in Nat, DOMAIN heap = 1..Len(heap), DOMAIN heap' = 1..Len(heap')
  PROVE  /\ Counts(Observe(r), Len((heap'[r]).handlers))
         /\ Observe(r) # <<>>
              => Observe(r)[Len(Observe(r))].turn = (heap'[r]).next
<1> DEFINE n == Len(heap[r].handlers)
           s == recent[r]
<1>1. /\ heap[r].handlers \in Seq(Id) /\ n \in Nat
      /\ heap[r].next \in 0..CounterSize - 1 /\ heap[r].next \in Nat
  BY EntryType, LenProperties, BoundAssumption DEF BalanceInv, IInv
<1>2. Counts(s, n) /\ (s # <<>> => s[Len(s)].turn = heap[r].next)
  BY DEF BalanceInv, Picks
<1>3. r \in DOMAIN heap /\ r \in DOMAIN heap'
  BY LenProperties DEF Grows
<1>4. CASE (heap'[r]).handlers # heap[r].handlers
  <2>1. Observe(r) = <<>>
    BY <1>3, <1>4 DEF Observe
  <2>2. Len(<<>>) = 0 /\ <<>> \in Seq(Seen)
    BY EmptySeq
  <2> QED
    BY <2>1, <2>2 DEF Counts
<1>5. CASE heap'[r] = heap[r]
  <2>1. Observe(r) = s
    BY <1>3, <1>5 DEF Observe
  <2> QED
    BY <1>2, <1>5, <2>1
<1>6. CASE (heap'[r]).handlers = heap[r].handlers /\ heap'[r] # heap[r]
  <2> DEFINE p == Pick(r)
             t == Append(s, p)
             o == LastOf(t, Span)
  <2>1. heap[r].handlers # <<>> /\ (heap'[r]).next = NextTurn(r)
    BY <1>6 DEF Grows, EntryStep
  <2>2. n \in Nat \ {0} /\ Span \in Nat \ {0}
    BY <1>1, <2>1, EmptySeq, LenProperties, BoundAssumption DEF Span
  <2>3. Observe(r) = o
    BY <1>3, <1>6 DEF Observe
  <2>4. /\ NextTurn(r) = After(heap[r].next, CounterSize)
        /\ NextTurn(r) \in 0..CounterSize - 1
    <3>1. heap[r].next % CounterSize = heap[r].next
      BY <1>1, BoundAssumption
    <3>2. (heap[r].next + 1) % CounterSize = After(heap[r].next % CounterSize, CounterSize)
      BY <1>1, ModNext, BoundAssumption
    <3>3. (heap[r].next + 1) % CounterSize \in 0..CounterSize - 1
      <4>1. heap[r].next + 1 \in Nat
        BY <1>1
      <4> QED
        BY <4>1, ModNext, BoundAssumption
    <3> QED
      BY <3>1, <3>2, <3>3 DEF NextTurn
  <2>5. p.turn = NextTurn(r) /\ p.at = (NextTurn(r) % n) + 1 /\ p \in Seen
    <3>1. NextTurn(r) % n \in 0..n - 1
      <4>1. NextTurn(r) \in Nat
        BY <2>4, BoundAssumption
      <4> QED
        BY <2>2, <4>1, ModNext
    <3> QED
      BY <2>4, <3>1, <2>2 DEF Pick, Turn, Seen
  <2> HIDE DEF p
  <2>6. Counts(t, n) /\ t # <<>> /\ Len(t) \in Nat \ {0} /\ t[Len(t)].turn = NextTurn(r)
    <3>1. s \in Seq(Seen) /\ Len(s) \in Nat
      BY <1>2, LenProperties DEF Counts
    <3>2. /\ t \in Seq(Seen) /\ Len(t) = Len(s) + 1
          /\ t[Len(s) + 1] = p /\ \A i \in 1..Len(s) : t[i] = s[i]
      BY <2>5, <3>1, AppendProperties
    <3> HIDE DEF t
    <3>3. \A i \in 1..Len(t) : t[i].at = (t[i].turn % n) + 1
      <4>1. \A i \in 1..Len(t) : i \in 1..Len(s) \/ i = Len(s) + 1
        BY <3>1, <3>2
      <4>2. \A i \in 1..Len(s) : s[i].at = (s[i].turn % n) + 1
        BY <1>2 DEF Counts
      <4> QED
        BY <2>5, <3>2, <4>1, <4>2
    <3>4. \A i \in 1..Len(t) - 1 : t[i + 1].turn = After(t[i].turn, CounterSize)
      <4> SUFFICES ASSUME NEW i \in 1..Len(t) - 1
                   PROVE  t[i + 1].turn = After(t[i].turn, CounterSize)
        OBVIOUS
      <4>1. CASE i = Len(s)
        <5>1. s # <<>> /\ i \in 1..Len(s)
          BY <3>1, <3>2, <4>1, EmptySeq
        <5>2. t[i].turn = heap[r].next
          BY <1>2, <3>2, <4>1, <5>1
        <5> QED
          BY <2>4, <2>5, <3>2, <4>1, <5>2
      <4>2. CASE i # Len(s)
        <5>1. i \in 1..Len(s) - 1 /\ i \in 1..Len(s) /\ i + 1 \in 1..Len(s)
          BY <3>1, <3>2, <4>2
        <5> QED
          BY <1>2, <3>2, <5>1 DEF Counts
      <4> QED
        BY <4>1, <4>2
    <3>5. t # <<>>
      BY <3>1, <3>2, EmptySeq
    <3> QED
      BY <2>5, <3>1, <3>2, <3>3, <3>4, <3>5 DEF Counts
  <2> HIDE DEF t
  <2>7. t \in Seq(Seen)
    BY <2>6 DEF Counts
  <2>8. PICK d \in Nat :
          /\ o \in Seq(Seen)
          /\ Len(o) + d = Len(t)
          /\ \A i \in 1..Len(o) : o[i] = t[i + d]
          /\ t # <<>> => Len(o) > 0
    BY <2>2, <2>7, LastOfProperties
  <2> HIDE DEF o
  <2>9. Len(o) \in Nat \ {0}
    BY <2>6, <2>8, LenProperties
  <2>10. o[Len(o)].turn = NextTurn(r)
    <3>1. Len(o) \in 1..Len(o)
      BY <2>9
    <3> QED
      BY <2>6, <2>8, <3>1
  <2>11. \A i \in 1..Len(o) : o[i].at = (o[i].turn % n) + 1
    <3>1. \A i \in 1..Len(o) : i + d \in 1..Len(t)
      BY <2>6, <2>8, <2>9
    <3> QED
      BY <2>6, <2>8, <3>1 DEF Counts
  <2>12. \A i \in 1..Len(o) - 1 : o[i + 1].turn = After(o[i].turn, CounterSize)
    <3> SUFFICES ASSUME NEW i \in 1..Len(o) - 1
                 PROVE  o[i + 1].turn = After(o[i].turn, CounterSize)
      OBVIOUS
    <3>1. /\ i \in 1..Len(o) /\ i + 1 \in 1..Len(o)
          /\ i + d \in 1..Len(t) - 1 /\ (i + d) + 1 = (i + 1) + d
      BY <2>6, <2>8, <2>9
    <3> QED
      BY <2>6, <2>8, <3>1 DEF Counts
  <2>13. Counts(o, n)
    BY <2>8, <2>11, <2>12 DEF Counts
  <2> QED
    BY <1>6, <2>1, <2>3, <2>10, <2>13
<1> QED
  BY <1>4, <1>5, <1>6

LEMMA BalanceStep ==
  ASSUME BalanceInv, 1 <= MaxHandlers, [BalanceNext]_bvars
  PROVE  BalanceInv'
<1>1. CASE UNCHANGED bvars
  <2>1. IInv'
    BY <1>1, StutterInv DEF BalanceInv, bvars
  <2>2. heap' = heap /\ recent' = recent
    BY <1>1 DEF bvars, vars
  <2> QED
    BY <2>1, <2>2 DEF BalanceInv, Picks
<1>2. CASE BalanceNext
  <2>1. IInv' /\ Grows
    BY <1>2, NextInv, NextGrows DEF BalanceNext, BalanceInv
  <2>2. /\ Len(heap) \in Nat /\ Len(heap') \in Nat
        /\ DOMAIN heap = 1..Len(heap) /\ DOMAIN heap' = 1..Len(heap')
    BY <2>1, LenProperties DEF BalanceInv, IInv, TypeOK
  <2>3. \A r \in 1..MaxEntries : recent'[r] = Observe(r)
    BY <1>2 DEF BalanceNext
  <2>4. ASSUME NEW r \in 1..Len(heap')
        PROVE  /\ Counts(recent'[r], Len((heap'[r]).handlers))
               /\ recent'[r] # <<>> => recent'[r][Len(recent'[r])].turn = (heap'[r]).next
    <3>1. recent'[r] = Observe(r)
      BY <2>1, <2>2, <2>3, BoundAssumption DEF Grows
    <3>2. CASE r \in 1..Len(heap)
      BY <2>1, <2>2, <3>1, <3>2, ObserveCounts
    <3>3. CASE r \notin 1..Len(heap)
      <4>1. Observe(r) = <<>>
        BY <2>2, <3>3 DEF Observe
      <4>2. Len(<<>>) = 0 /\ <<>> \in Seq(Seen)
        BY EmptySeq
      <4> QED
        BY <3>1, <4>1, <4>2 DEF Counts
    <3> QED
      BY <3>2, <3>3
  <2> QED
    BY <2>1, <2>4 DEF BalanceInv, Picks, Grows, Counts, Seen, After
<1> QED
  BY <1>1, <1>2

LEMMA BalanceInitInv ==
  ASSUME BalanceInit
  PROVE  BalanceInv
<1>1. IInv
  BY InitInv DEF BalanceInit
<1>2. Len(heap) = 0
  BY EmptySeq DEF BalanceInit, Init
<1> QED
  BY <1>1, <1>2, BoundAssumption DEF BalanceInv, Picks

\* The invariant of MuxBalance.
THEOREM BalanceInvariance ==
  ASSUME 1 <= MaxHandlers
  PROVE  BalanceSpec => []BalanceInv
<1>1. BalanceInit => BalanceInv
  BY BalanceInitInv
<1>2. BalanceInv /\ [BalanceNext]_bvars => BalanceInv'
  BY BalanceStep
<1> QED
  BY <1>1, <1>2, PTL DEF BalanceSpec

\* What the invariant says of an entry that is not empty.
LEMMA EntryPicks ==
  ASSUME BalanceInv, MaxHandlers <= CounterSize,
         NEW r \in DOMAIN heap, Len(heap[r].handlers) > 0
  PROVE  /\ Len(heap[r].handlers) \in Nat \ {0}
         /\ Len(heap[r].handlers) <= CounterSize
         /\ Counts(recent[r], Len(heap[r].handlers))
         /\ recent[r] \in Seq(Seen) /\ Len(recent[r]) \in Nat
<1>1. r \in 1..Len(heap)
  BY LenProperties DEF BalanceInv, IInv, TypeOK
<1>2. heap[r].handlers \in Seq(Id) /\ Len(heap[r].handlers) \in Nat
  BY <1>1, EntryType, LenProperties DEF BalanceInv, IInv
<1>3. Len(heap[r].handlers) <= MaxHandlers /\ Counts(recent[r], Len(heap[r].handlers))
  BY <1>1 DEF BalanceInv, Picks
<1>4. recent[r] \in Seq(Seen) /\ Len(recent[r]) \in Nat
  BY <1>3, LenProperties DEF Counts
<1> QED
  BY <1>2, <1>3, <1>4, BoundAssumption

\* The picks of a round.
LEMMA RoundElements ==
  ASSUME NEW r, NEW m \in Nat \ {0}, recent[r] \in Seq(Seen),
         NEW i \in 1..Len(recent[r]) - m + 1
  PROVE  /\ i \in 1..Len(recent[r]) /\ i + (m - 1) <= Len(recent[r])
         /\ \A k \in 1..m : /\ Round(r, i, m)[k] = recent[r][i + (k - 1)]
                            /\ i + (k - 1) \in 1..Len(recent[r])
<1>1. Len(recent[r]) \in Nat
  BY LenProperties
<1>2. i \in 1..Len(recent[r]) /\ i + (m - 1) <= Len(recent[r]) /\ i + m - 1 = i + (m - 1)
  BY <1>1
<1>3. \A k \in 1..m : i + (k - 1) \in 1..Len(recent[r]) /\ k + i - 1 = i + (k - 1) /\ i + k - 1 = i + (k - 1)
  BY <1>1, <1>2
<1>4. \A k \in 1..m : Round(r, i, m)[k] = recent[r][i + (k - 1)]
  <2>1. /\ i + (m - 1) \in 1..Len(recent[r]) /\ (i + (m - 1)) - i + 1 = m
        /\ Round(r, i, m) = SubSeq(recent[r], i, i + (m - 1))
    BY <1>1, <1>2 DEF Round
  <2>2. \A k \in 1..m : SubSeq(recent[r], i, i + (m - 1))[k] = recent[r][i + k - 1]
    BY <1>2, <2>1, SubSeqProperties
  <2> QED
    BY <1>3, <2>1, <2>2
<1> QED
  BY <1>2, <1>3, <1>4

\* The handlers a round chooses.
Chosen(r, i, m) == {Round(r, i, m)[k].at : k \in 1..m}

\* m picks that cover the pool choose the handlers 1..n and no other.
LEMMA RoundSet ==
  ASSUME NEW r, NEW n \in Nat \ {0}, NEW m \in Nat \ {0},
         Counts(recent[r], n), recent[r] \in Seq(Seen),
         NEW i \in 1..Len(recent[r]) - m + 1,
         Covers(recent[r], i, m - 1, n)
  PROVE  Chosen(r, i, m) = 1..n
<1>1. \A k \in 1..m : /\ Round(r, i, m)[k] = recent[r][i + (k - 1)]
                      /\ i + (k - 1) \in 1..Len(recent[r])
  BY RoundElements
<1>2. \A k \in 1..m : Round(r, i, m)[k].at \in 1..n
  BY <1>1, PickInPool
<1>3. ASSUME NEW h \in 1..n
      PROVE  \E k \in 1..m : Round(r, i, m)[k].at = h
  <2>1. PICK k \in 0..m - 1 : recent[r][i + k].at = h
    BY DEF Covers
  <2>2. k + 1 \in 1..m /\ (k + 1) - 1 = k
    OBVIOUS
  <2>3. Round(r, i, m)[k + 1] = recent[r][i + k]
    BY <1>1, <2>2
  <2> QED
    BY <2>1, <2>2, <2>3
<1> QED
  BY <1>2, <1>3 DEF Chosen

\* A round whose last turn is not below its first does not contain the wrap.
LEMMA NoWrap ==
  ASSUME NEW n \in Nat \ {0}, n <= CounterSize, NEW s, Counts(s, n),
         NEW j \in 1..Len(s), j + (n - 1) <= Len(s),
         s[j].turn <= s[j + (n - 1)].turn
  PROVE  s[j].turn + (n - 1) < CounterSize
<1> DEFINE N == Len(s)
           C == CounterSize
           u == [i \in 1..N |-> s[i].turn]
<1>1. N \in Nat /\ C \in Nat \ {0}
  BY LenProperties, BoundAssumption DEF Counts
<1>2. u \in [1..N -> 0..C - 1]
  BY PickInPool
<1>3. \A i \in 1..N - 1 : u[i + 1] = After(u[i], C)
  BY <1>1 DEF Counts
<1>4. \A i \in 1..N : u[i] = s[i].turn
  OBVIOUS
<1> HIDE DEF N, C, u
<1>5. /\ j \in 1..N /\ j + (n - 1) \in 1..N /\ j + (n - 1) <= N
      /\ n - 1 \in 0..C /\ u[j] \in 0..C - 1
  BY <1>1, <1>2 DEF N, C
<1>6. u[j + (n - 1)] = Later(u[j], n - 1, C)
  BY <1>1, <1>2, <1>3, <1>5, CycleValues
<1>7. u[j] <= u[j + (n - 1)]
  BY <1>4, <1>5
<1>8. n <= C
  BY DEF C
<1>9. u[j] + (n - 1) < C
  BY <1>1, <1>5, <1>6, <1>7, <1>8 DEF Later
<1> QED
  BY <1>4, <1>5, <1>9 DEF C

LEMMA BalanceRoundRobin ==
  ASSUME BalanceInv, MaxHandlers <= CounterSize
  PROVE  RoundRobin
<1> SUFFICES ASSUME NEW r \in DOMAIN heap,
                    NEW i \in 1..Len(recent[r]) - Len(heap[r].handlers) + 1,
                    Len(heap[r].handlers) > 0,
                    Round(r, i, Len(heap[r].handlers))[1].turn
                      <= Round(r, i, Len(heap[r].handlers))[Len(heap[r].handlers)].turn
             PROVE  {Round(r, i, Len(heap[r].handlers))[k].at :
                       k \in 1..Len(heap[r].handlers)} = 1..Len(heap[r].handlers)
  BY DEF RoundRobin
<1> DEFINE n == Len(heap[r].handlers)
           s == recent[r]
<1>1. /\ n \in Nat \ {0} /\ n <= CounterSize /\ Counts(s, n)
      /\ s \in Seq(Seen) /\ Len(s) \in Nat
  BY EntryPicks
<1>2. Round(r, i, n)[1].turn <= Round(r, i, n)[n].turn /\ i \in 1..Len(s) - n + 1
  OBVIOUS
<1>3. Covers(s, i, n - 1, n) => Chosen(r, i, n) = 1..n
  <2> HIDE DEF n
  <2> QED
    BY <1>1, <1>2, RoundSet
<1> HIDE DEF n
<1>4. /\ i \in 1..Len(s) /\ i + (n - 1) <= Len(s)
      /\ Round(r, i, n)[1] = s[i] /\ Round(r, i, n)[n] = s[i + (n - 1)]
  <2>1. /\ i \in 1..Len(s) /\ i + (n - 1) <= Len(s)
        /\ \A k \in 1..n : Round(r, i, n)[k] = s[i + (k - 1)]
    BY <1>1, <1>2, RoundElements
  <2>2. 1 \in 1..n /\ n \in 1..n /\ i + (1 - 1) = i
    BY <1>1
  <2> QED
    BY <2>1, <2>2
<1> HIDE DEF s
<1>5. s[i].turn <= s[i + (n - 1)].turn
  BY <1>2, <1>4
<1>6. s[i].turn + (n - 1) < CounterSize
  BY <1>1, <1>4, <1>5, NoWrap
<1>7. Covers(s, i, n - 1, n)
  BY <1>1, <1>4, <1>6, RoundCovers
<1> QED
  BY <1>3, <1>7 DEF n, Chosen

LEMMA BalanceNoStarvation ==
  ASSUME BalanceInv, MaxHandlers <= CounterSize
  PROVE  NoStarvation
<1> SUFFICES ASSUME NEW r \in DOMAIN heap,
                    NEW i \in 1..Len(recent[r]) - (2 * Len(heap[r].handlers) - 1) + 1,
                    Len(heap[r].handlers) > 0
             PROVE  {Round(r, i, 2 * Len(heap[r].handlers) - 1)[k].at :
                       k \in 1..2 * Len(heap[r].handlers) - 1} = 1..Len(heap[r].handlers)
  BY DEF NoStarvation
<1> DEFINE n == Len(heap[r].handlers)
           m == 2 * n - 1
           s == recent[r]
<1>1. /\ n \in Nat \ {0} /\ n <= CounterSize /\ Counts(s, n)
      /\ s \in Seq(Seen) /\ Len(s) \in Nat
  BY EntryPicks
<1>2. i \in 1..Len(s) - m + 1
  OBVIOUS
<1>3. m \in Nat \ {0} /\ m - 1 = 2 * n - 2
  <2> HIDE DEF n
  <2> QED
    BY <1>1
<1> HIDE DEF n, m
<1>4. Covers(s, i, m - 1, n) => Chosen(r, i, m) = 1..n
  BY <1>1, <1>2, <1>3, RoundSet
<1>5. i \in 1..Len(s) /\ i + (m - 1) <= Len(s)
  BY <1>1, <1>2, <1>3
<1> HIDE DEF s
<1>6. i + (2 * n - 2) <= Len(s)
  BY <1>3, <1>5
<1>7. Covers(s, i, 2 * n - 2, n)
  BY <1>1, <1>5, <1>6, PicksCover
<1> QED
  BY <1>3, <1>4, <1>7 DEF n, m, Chosen

\* The load balancing of muxEntry.handler, for any number of paths, handlers
\* and requests, as long as a pool is no larger than the counter (2^32):
\* between two wraps of muxEntry.next, n consecutive picks of a
\* pool of n choose every handler exactly once.
THEOREM EveryRoundIsFair ==
  ASSUME 1 <= MaxHandlers, MaxHandlers <= CounterSize
  PROVE  BalanceSpec => []RoundRobin
<1>1. BalanceInv => RoundRobin
  BY BalanceRoundRobin
<1> QED
  BY <1>1, BalanceInvariance, PTL

\* The wrap of muxEntry.next, from 2^32 - 1 to 0, starves no handler: 2n - 1
\* consecutive picks of a pool of n choose all of them, wherever they start.
THEOREM NobodyStarves ==
  ASSUME 1 <= MaxHandlers, MaxHandlers <= CounterSize
  PROVE  BalanceSpec => []NoStarvation
<1>1. BalanceInv => NoStarvation
  BY BalanceNoStarvation
<1> QED
  BY <1>1, BalanceInvariance, PTL
=============================================================================
