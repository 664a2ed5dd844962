---------------------------- MODULE ReloadProofs ----------------------------
(***************************************************************************)
(* Proofs about ConfigReload: what is read from the file, the updates of   *)
(* the watch, and the events they send to the router.                      *)
(***************************************************************************)
EXTENDS ConfigReload, SeqLemmas

-----------------------------------------------------------------------------
(***************************************************************************)
(* Only, the loops of getConfigChange and of ReadConfig.                   *)
(***************************************************************************)

\* The piece the loop appends for the element at i.
Piece(s, S) == [i \in DOMAIN s |-> IF s[i] \in S THEN <<s[i]>> ELSE <<>>]

\* The pieces are sequences of elements of s.
LEMMA PieceType ==
  ASSUME NEW T, NEW s \in Seq(T), NEW S
  PROVE  /\ Piece(s, S) \in Seq(Seq(T))
         /\ Len(Piece(s, S)) = Len(s)
         /\ \A i \in 1..Len(s) :
              Piece(s, S)[i] = IF s[i] \in S THEN <<s[i]>> ELSE <<>>
<1>1. /\ Len(s) \in Nat /\ DOMAIN s = 1..Len(s)
      /\ \A i \in 1..Len(s) : s[i] \in T
  BY ElementOfSeq, LenProperties
<1>2. \A i \in 1..Len(s) : <<s[i]>> \in Seq(T) /\ <<>> \in Seq(T)
  BY <1>1
<1>3. Piece(s, S) \in [1..Len(s) -> Seq(T)]
  BY <1>1, <1>2 DEF Piece
<1>4. Piece(s, S) \in Seq(Seq(T))
  BY <1>1, <1>3, IsASeq
<1> QED
  BY <1>1, <1>3, <1>4, LenProperties DEF Piece

\* The solution of the loop's recursion is the pieces put together.
LEMMA OnlyIsFlat ==
  ASSUME NEW T, NEW s \in Seq(T), NEW S
  PROVE  Only(s, S) = FlattenSeq(Piece(s, S))
<1> DEFINE N == Len(s)
           ss == Piece(s, S)
<1>1. N \in Nat /\ (\A i \in 1..N : s[i] \in T)
  BY ElementOfSeq, LenProperties
<1>2. /\ ss \in Seq(Seq(T)) /\ Len(ss) = N
      /\ \A i \in 1..N : ss[i] = IF s[i] \in S THEN <<s[i]>> ELSE <<>>
  BY PieceType
<1> HIDE DEF ss
<1>3. PICK f : Flattens(f, ss) /\ (N # 0 => FlattenSeq(ss) = f[N])
  <2>1. CASE ss = <<>>
    <3>1. N = 0
      BY <1>2, <2>1, EmptySeq
    <3>2. \E f : Flattens(f, ss)
      BY <1>2, FlattensExists, Zenon
    <3> QED
      BY <3>1, <3>2
  <2>2. CASE ss # <<>>
    BY <1>2, <2>2, FlattenSeqDef
  <2> QED
    BY <2>1, <2>2
<1>4. FlattenSteps(f, ss, T)
  BY <1>2, <1>3, FlattensStep
<1>5. /\ \A i \in 1..N : f[i] \in Seq(T)
      /\ \A i \in 1..N : i = 1 => f[i] = ss[i]
      /\ \A i \in 1..N : i # 1 => f[i] = Cat(f[i - 1], ss[i])
  BY <1>2, <1>4 DEF FlattenSteps
<1> DEFINE g == [i \in 0..N |-> IF i = 0 THEN <<>> ELSE f[i]]
           Step(x, i) == IF i = 0 THEN <<>>
                         ELSE IF s[i] \in S THEN Append(x[i - 1], s[i])
                         ELSE x[i - 1]
<1>6. ASSUME NEW i \in 0..N
      PROVE  g[i] = Step(g, i)
  <2> HIDE DEF N
  <2>1. CASE i = 0
    BY <2>1
  <2>2. CASE i # 0
    <3>1. i \in 1..N /\ g[i] = f[i] /\ i - 1 \in 0..N
      BY <1>1, <2>2
    <3>2. g[i - 1] \in Seq(T) /\ g[i] = Cat(g[i - 1], ss[i])
      <4>1. CASE i = 1
        <5>1. g[i - 1] = <<>> /\ <<>> \in Seq(T) /\ g[i] = ss[i]
          BY <1>1, <1>5, <3>1, <4>1
        <5>2. Cat(<<>>, f[i]) = f[i]
          BY <1>5, <3>1, CatLaws
        <5> QED
          BY <3>1, <5>1, <5>2
      <4>2. CASE i # 1
        <5>1. i - 1 # 0 /\ i - 1 \in 1..N
          BY <1>1, <2>2, <3>1, <4>2
        <5>2. g[i - 1] = f[i - 1]
          BY <3>1, <5>1
        <5> QED
          BY <1>5, <3>1, <4>2, <5>1, <5>2
      <4> QED
        BY <4>1, <4>2
    <3> DEFINE y == g[i - 1]
    <3>3. y \in Seq(T) /\ g[i] = Cat(y, ss[i]) /\ s[i] \in T
      BY <1>1, <3>1, <3>2
    <3> HIDE DEF y
    <3>4. Cat(y, <<>>) = y /\ Cat(y, <<s[i]>>) = Append(y, s[i])
      BY <3>3, CatLaws, AppendIsConcat DEF Cat
    <3>5. g[i] = IF s[i] \in S THEN Append(y, s[i]) ELSE y
      BY <1>2, <3>1, <3>3, <3>4
    <3> QED
      BY <2>2, <3>5 DEF y
  <2> QED
    BY <2>1, <2>2
<1>7. \E x : x = [i \in 0..N |-> Step(x, i)]
  <2>1. g = [i \in 0..N |-> Step(g, i)]
    BY <1>6, Zenon
  <2> QED
    BY <2>1, Zenon
<1> DEFINE h == CHOOSE x : x = [i \in 0..N |-> Step(x, i)]
<1>8. h = [i \in 0..N |-> Step(h, i)]
  BY <1>7, Zenon
<1>9. Only(s, S) = h[N]
  BY DEF Only
<1> HIDE DEF h, g, N
<1>10. \A i \in 0..N : h[i] = Step(h, i)
  BY <1>8, Zenon
<1> DEFINE A == {n \in 1..N : h[n] = g[n]}
<1>11. h[0] = <<>> /\ g[0] = <<>>
  BY <1>1, <1>10 DEF g
<1>12. ASSUME NEW n \in 1..N, n = 1 \/ n - 1 \in A
       PROVE  n \in A
  <2>1. n \in 0..N /\ n # 0 /\ h[n - 1] = g[n - 1]
    BY <1>1, <1>11, <1>12
  <2>2. h[n] = g[n]
    BY <1>6, <1>10, <2>1
  <2> QED
    BY <2>2
<1>13. 1..N \subseteq A
  <2> HIDE DEF A
  <2> QED
    BY <1>1, <1>12, Ascend
<1>14. CASE N = 0
  <2>1. ss = <<>> /\ FlattenSeq(ss) = <<>>
    BY <1>2, <1>14, EmptySeq DEF FlattenSeq
  <2> QED
    BY <1>9, <1>11, <1>14, <2>1 DEF ss
<1>15. CASE N # 0
  <2>1. N \in 1..N
    BY <1>1, <1>15
  <2>2. h[N] = g[N]
    BY <1>13, <2>1
  <2>3. g[N] = f[N]
    BY <1>1, <1>15 DEF g
  <2> QED
    BY <1>3, <1>9, <1>15, <2>2, <2>3 DEF ss
<1> QED
  BY <1>14, <1>15

\* What the loop keeps: a sequence of exactly the elements of s in S.
LEMMA OnlyProperties ==
  ASSUME NEW T, NEW s \in Seq(T), NEW S
  PROVE  /\ Only(s, S) \in Seq(T)
         /\ ToSet(Only(s, S)) = ToSet(s) \cap S
         /\ IsInjective(s) => IsInjective(Only(s, S))
<1> DEFINE N == Len(s)
           ss == Piece(s, S)
<1>1. /\ N \in Nat /\ DOMAIN s = 1..N
      /\ \A i \in 1..N : s[i] \in T
  BY ElementOfSeq, LenProperties
<1>2. /\ ss \in Seq(Seq(T)) /\ Len(ss) = N
      /\ \A i \in 1..N : ss[i] = IF s[i] \in S THEN <<s[i]>> ELSE <<>>
  BY PieceType
<1>3. Only(s, S) = FlattenSeq(ss)
  BY OnlyIsFlat
<1> HIDE DEF ss
<1>4. Only(s, S) \in Seq(T)
  BY <1>2, <1>3, FlattenSeqType
<1>5. CASE N = 0
  <2>1. ss = <<>> /\ FlattenSeq(ss) = <<>>
    BY <1>2, <1>5, EmptySeq DEF FlattenSeq
  <2>2. ToSet(s) = {} /\ ToSet(<<>>) = {} /\ IsInjective(<<>>)
    BY <1>1, <1>5 DEF ToSet, IsInjective
  <2> QED
    BY <1>3, <1>4, <2>1, <2>2
<1>6. CASE N # 0
  <2>1. ss # <<>>
    BY <1>2, <1>6, EmptySeq
  <2>2. PICK f : Flattens(f, ss) /\ FlattenSeq(ss) = f[Len(ss)]
    BY <1>2, <2>1, FlattenSeqDef
  <2>3. FlattenSteps(f, ss, T)
    BY <1>2, <2>2, FlattensStep
  <2>4. /\ \A i \in 1..N : f[i] \in Seq(T) /\ ss[i] \in Seq(T)
        /\ \A i \in 1..N : i = 1 => f[i] = ss[i]
        /\ \A i \in 1..N : i # 1 => f[i] = Cat(f[i - 1], ss[i])
    BY <1>2, <2>3 DEF FlattenSteps
  <2> DEFINE Kept(n) == {s[i] : i \in 1..n} \cap S
             A == {n \in 1..N : /\ ToSet(f[n]) = Kept(n)
                                /\ IsInjective(s) => IsInjective(f[n])}
  <2> HIDE DEF N
  <2>5. ASSUME NEW n \in 1..N
        PROVE  /\ s[n] \in S => ToSet(ss[n]) = {s[n]} /\ ss[n] = <<s[n]>>
               /\ s[n] \notin S => ToSet(ss[n]) = {} /\ ss[n] = <<>>
    <3>1. ToSet(<<s[n]>>) = {s[n]} /\ ToSet(<<>>) = {}
      BY DEF ToSet
    <3> QED
      BY <1>2, <3>1
  <2>6. ASSUME NEW n \in 1..N, n = 1 \/ n - 1 \in A
        PROVE  n \in A
    <3>1. CASE n = 1
      <4>1. f[n] = ss[n] /\ Kept(n) = {s[n]} \cap S
        BY <2>4, <3>1
      <4>2. IsInjective(<<s[n]>>) /\ IsInjective(<<>>)
        BY DEF IsInjective
      <4>3. ToSet(f[n]) = Kept(n) /\ IsInjective(f[n])
        BY <2>5, <4>1, <4>2
      <4> QED
        BY <4>3
    <3>2. CASE n # 1
      <4>1. /\ n - 1 \in 1..N
            /\ ToSet(f[n - 1]) = Kept(n - 1)
            /\ IsInjective(s) => IsInjective(f[n - 1])
        BY <2>6, <3>2
      <4>2. f[n] = Cat(f[n - 1], ss[n])
        BY <2>4, <3>2
      <4>3. f[n - 1] \in Seq(T) /\ ss[n] \in Seq(T)
        BY <2>4, <4>1
      <4>4. ToSet(f[n]) = ToSet(f[n - 1]) \cup ToSet(ss[n])
        BY <4>2, <4>3, CatToSet
      <4>5. Kept(n) = Kept(n - 1) \cup ({s[n]} \cap S)
        <5>1. 1..n = (1..n - 1) \cup {n}
          BY <1>1
        <5> QED
          BY <5>1
      <4>6. ToSet(f[n]) = Kept(n)
        BY <2>5, <4>1, <4>4, <4>5
      <4>7. ASSUME IsInjective(s)
            PROVE  IsInjective(f[n])
        <5>1. CASE s[n] \notin S
          <6>1. f[n] = f[n - 1]
            BY <2>5, <4>2, <4>3, <5>1, CatLaws
          <6> QED
            BY <4>1, <4>7, <6>1
        <5>2. CASE s[n] \in S
          <6>1. s[n] \notin ToSet(f[n - 1])
            <7>1. \A i \in 1..n - 1 : i \in 1..N /\ i # n
              BY <1>1
            <7>2. \A i \in 1..n - 1 : s[i] # s[n]
              BY <1>1, <4>7, <7>1 DEF IsInjective
            <7> QED
              BY <4>1, <7>2
          <6> DEFINE g == f[n - 1]
          <6>2. g \in Seq(T) /\ s[n] \in T /\ <<s[n]>> \in Seq(T)
            BY <1>1, <4>3
          <6>3. f[n] = Append(g, s[n])
            BY <2>5, <4>2, <5>2, <6>2, AppendIsConcat DEF Cat
          <6> HIDE DEF g
          <6>4. /\ Len(Append(g, s[n])) = Len(g) + 1 /\ Len(g) \in Nat
                /\ Append(g, s[n]) \in Seq(T)
                /\ \A i \in 1..Len(g) : Append(g, s[n])[i] = g[i]
                /\ Append(g, s[n])[Len(g) + 1] = s[n]
            BY <6>2, AppendProperties, LenProperties
          <6>5. DOMAIN g = 1..Len(g) /\ DOMAIN f[n] = 1..Len(g) + 1
            BY <6>2, <6>3, <6>4, LenProperties
          <6>6. \A i \in 1..Len(g) : g[i] # s[n]
            BY <6>1, <6>5 DEF ToSet, g
          <6>7. IsInjective(g)
            BY <4>1, <4>7 DEF g
          <6>8. /\ \A i \in 1..Len(g) : f[n][i] = g[i]
                /\ f[n][Len(g) + 1] = s[n]
            BY <6>3, <6>4
          <6>9. ASSUME NEW i \in 1..Len(g) + 1, NEW j \in 1..Len(g) + 1,
                       f[n][i] = f[n][j]
                PROVE  i = j
            <7>1. CASE i \in 1..Len(g) /\ j \in 1..Len(g)
              BY <6>5, <6>7, <6>8, <6>9, <7>1 DEF IsInjective
            <7>2. CASE i = Len(g) + 1 /\ j \in 1..Len(g)
              BY <6>6, <6>8, <6>9, <7>2
            <7>3. CASE j = Len(g) + 1 /\ i \in 1..Len(g)
              BY <6>6, <6>8, <6>9, <7>3
            <7>4. CASE j = Len(g) + 1 /\ i = Len(g) + 1
              BY <7>4
            <7> QED
              BY <6>4, <7>1, <7>2, <7>3, <7>4
          <6> QED
            BY <6>5, <6>9 DEF IsInjective
        <5> QED
          BY <5>1, <5>2
      <4> QED
        BY <4>6, <4>7
    <3> QED
      BY <3>1, <3>2
  <2>7. N \in A
    <3> HIDE DEF A
    <3>1. 1..N \subseteq A
      BY <1>1, <2>6, Ascend
    <3> QED
      BY <1>1, <1>6, <3>1
  <2>8. Kept(N) = ToSet(s) \cap S
    BY <1>1 DEF ToSet
  <2>9. Only(s, S) = f[N]
    BY <1>2, <1>3, <2>2
  <2> QED
    BY <1>4, <2>7, <2>8, <2>9
<1> QED
  BY <1>5, <1>6

-----------------------------------------------------------------------------
(***************************************************************************)
(* What ReadConfig and getConfigChange return.                             *)
(***************************************************************************)

\* A line that is accepted names host names and targets only.
LEMMA LineEntriesType ==
  ASSUME NEW line \in Line, LineAccepted(line)
  PROVE  LineEntries(line) \in Seq(ConfigEntry)
<1> DEFINE hs == line.hosts
           ts == line.targets
           ss == [h \in DOMAIN hs |->
                    [t \in DOMAIN ts |-> [host |-> hs[h], target |-> ts[t]]]]
<1>1. hs \in Seq(Hostname) /\ ts \in Seq(Target \cup {BadTarget})
  BY DEF Line
<1>2. BadTarget \notin ToSet(ts)
  BY DEF LineAccepted
<1>3. LineEntries(line) = FlattenSeq(ss)
  BY DEF LineEntries
<1> HIDE DEF hs, ts
<1>4. /\ Len(hs) \in Nat /\ DOMAIN hs = 1..Len(hs)
      /\ \A h \in 1..Len(hs) : hs[h] \in Hostname
  BY <1>1, ElementOfSeq, LenProperties
<1>5. /\ Len(ts) \in Nat /\ DOMAIN ts = 1..Len(ts)
      /\ \A t \in 1..Len(ts) : ts[t] \in Target
  <2>1. /\ Len(ts) \in Nat /\ DOMAIN ts = 1..Len(ts)
        /\ \A t \in 1..Len(ts) : ts[t] \in Target \cup {BadTarget}
    BY <1>1, ElementOfSeq, LenProperties
  <2>2. \A t \in 1..Len(ts) : ts[t] # BadTarget
    BY <1>2, <2>1 DEF ToSet
  <2> QED
    BY <2>1, <2>2
<1>6. ASSUME NEW h \in 1..Len(hs)
      PROVE  [t \in DOMAIN ts |-> [host |-> hs[h], target |-> ts[t]]]
               \in Seq(ConfigEntry)
  <2>1. [t \in DOMAIN ts |-> [host |-> hs[h], target |-> ts[t]]]
          \in [1..Len(ts) -> ConfigEntry]
    BY <1>4, <1>5 DEF ConfigEntry
  <2> QED
    BY <1>5, <2>1, IsASeq
<1>7. ss \in [1..Len(hs) -> Seq(ConfigEntry)]
  BY <1>4, <1>6
<1> HIDE DEF ss
<1>8. ss \in Seq(Seq(ConfigEntry))
  BY <1>4, <1>7, IsASeq
<1> QED
  BY <1>3, <1>8, FlattenSeqType

\* Whatever lines the file holds, its entries are well-formed.
LEMMA ReadConfigType ==
  ASSUME NEW f \in Seq(Line)
  PROVE  ReadConfig(f) \in Seq(ConfigEntry)
<1> DEFINE S == {line \in ToSet(f) : LineAccepted(line)}
           lines == Only(f, S)
           ss == [i \in DOMAIN lines |-> LineEntries(lines[i])]
<1>1. lines \in Seq(Line) /\ ToSet(lines) = ToSet(f) \cap S
  BY OnlyProperties
<1>2. ReadConfig(f) = FlattenSeq(ss)
  BY DEF ReadConfig, AllEntries
<1> HIDE DEF lines
<1>3. /\ Len(lines) \in Nat /\ DOMAIN lines = 1..Len(lines)
      /\ \A i \in 1..Len(lines) : lines[i] \in Line
  BY <1>1, ElementOfSeq, LenProperties
<1>4. \A i \in 1..Len(lines) : LineAccepted(lines[i])
  <2>1. \A i \in 1..Len(lines) : lines[i] \in ToSet(lines)
    BY <1>3 DEF ToSet
  <2> QED
    BY <1>1, <2>1
<1>5. ss \in [1..Len(lines) -> Seq(ConfigEntry)]
  BY <1>3, <1>4, LineEntriesType
<1> HIDE DEF ss
<1>6. ss \in Seq(Seq(ConfigEntry))
  BY <1>3, <1>5, IsASeq
<1> QED
  BY <1>2, <1>6, FlattenSeqType

\* The file razvhost can read.
LEMMA CanReadType ==
  ASSUME file \in Contents \cup {Missing}, CanRead(file)
  PROVE  ReadConfig(file) \in Seq(ConfigEntry)
<1>1. file \in Seq(Line)
  BY EditAssumption DEF CanRead
<1> QED
  BY <1>1, ReadConfigType

\* configEntries.toEvents keeps the order of the entries.
LEMMA ToEventsProperties ==
  ASSUME NEW entries \in Seq(ConfigEntry), NEW isUp \in BOOLEAN
  PROVE  /\ ToEvents(entries, isUp) \in Seq(ConfigEvent)
         /\ Len(ToEvents(entries, isUp)) = Len(entries)
         /\ \A i \in 1..Len(entries) :
              ToEvents(entries, isUp)[i] = [entry |-> entries[i], up |-> isUp]
<1>1. /\ Len(entries) \in Nat /\ DOMAIN entries = 1..Len(entries)
      /\ \A i \in 1..Len(entries) : entries[i] \in ConfigEntry
  BY ElementOfSeq, LenProperties
<1>2. \A i \in 1..Len(entries) :
        [entry |-> entries[i], up |-> isUp] \in ConfigEvent
  BY <1>1 DEF ConfigEvent
<1>3. ToEvents(entries, isUp) \in [1..Len(entries) -> ConfigEvent]
  BY <1>1, <1>2 DEF ToEvents
<1>4. ToEvents(entries, isUp) \in Seq(ConfigEvent)
  BY <1>1, <1>3, IsASeq
<1> QED
  BY <1>1, <1>3, <1>4, LenProperties DEF ToEvents

\* The fields of those events.
LEMMA ToEventsFields ==
  ASSUME NEW entries \in Seq(ConfigEntry)
  PROVE  \A i \in 1..Len(entries) :
           /\ ToEvents(entries, TRUE)[i].entry = entries[i]
           /\ ToEvents(entries, FALSE)[i].entry = entries[i]
           /\ ToEvents(entries, TRUE)[i].up
           /\ ~ToEvents(entries, FALSE)[i].up
<1>1. DOMAIN entries = 1..Len(entries)
  BY LenProperties
<1> TAKE i \in 1..Len(entries)
<1> DEFINE e == entries[i]
           a == ToEvents(entries, TRUE)[i]
           b == ToEvents(entries, FALSE)[i]
<1>2. a = [entry |-> e, up |-> TRUE] /\ b = [entry |-> e, up |-> FALSE]
  BY <1>1 DEF ToEvents
<1> HIDE DEF e, a, b
<1>3. a.entry = e /\ b.entry = e
  BY <1>2
<1>4. a.up /\ ~b.up
  BY <1>2
<1> QED
  BY <1>3, <1>4 DEF e, a, b

\* The two parts of a batch of changes.
LEMMA ChangeEventsParts ==
  ASSUME NEW prev \in Seq(ConfigEntry), NEW new \in Seq(ConfigEntry)
  PROVE  /\ EntriesUp(prev, new) \in Seq(ConfigEntry)
         /\ EntriesDown(prev, new) \in Seq(ConfigEntry)
         /\ ToSet(EntriesUp(prev, new)) = ToSet(new) \ ToSet(prev)
         /\ ToSet(EntriesDown(prev, new)) = ToSet(prev) \ ToSet(new)
         /\ IsInjective(new) => IsInjective(EntriesUp(prev, new))
         /\ IsInjective(prev) => IsInjective(EntriesDown(prev, new))
         /\ ToEvents(EntriesUp(prev, new), TRUE) \in Seq(ConfigEvent)
         /\ ToEvents(EntriesDown(prev, new), FALSE) \in Seq(ConfigEvent)
         /\ ChangeEvents(prev, new) = Cat(ToEvents(EntriesUp(prev, new), TRUE),
                                          ToEvents(EntriesDown(prev, new), FALSE))
         /\ ChangeEvents(prev, new) \in Seq(ConfigEvent)
<1>1. \A a, b \in Seq(ConfigEntry) :
        ToSet(a) \cap {e \in ToSet(a) : ~Has(b, e)} = ToSet(a) \ ToSet(b)
  BY DEF Has, ToSet
<1>2. /\ EntriesUp(prev, new) \in Seq(ConfigEntry)
      /\ ToSet(EntriesUp(prev, new)) = ToSet(new) \ ToSet(prev)
      /\ IsInjective(new) => IsInjective(EntriesUp(prev, new))
  BY <1>1, OnlyProperties DEF EntriesUp
<1>3. /\ EntriesDown(prev, new) \in Seq(ConfigEntry)
      /\ ToSet(EntriesDown(prev, new)) = ToSet(prev) \ ToSet(new)
      /\ IsInjective(prev) => IsInjective(EntriesDown(prev, new))
  BY <1>1, OnlyProperties DEF EntriesDown
<1>4. /\ ToEvents(EntriesUp(prev, new), TRUE) \in Seq(ConfigEvent)
      /\ ToEvents(EntriesDown(prev, new), FALSE) \in Seq(ConfigEvent)
  BY <1>2, <1>3, ToEventsProperties
<1>5. ChangeEvents(prev, new) = Cat(ToEvents(EntriesUp(prev, new), TRUE),
                                    ToEvents(EntriesDown(prev, new), FALSE))
  BY DEF ChangeEvents, Cat
<1>6. ChangeEvents(prev, new) \in Seq(ConfigEvent)
  <2>1. \A a, b \in Seq(ConfigEvent) : Cat(a, b) \in Seq(ConfigEvent)
    BY CatLaws
  <2> QED
    BY <1>4, <1>5, <2>1
<1> QED
  BY <1>2, <1>3, <1>4, <1>5, <1>6

-----------------------------------------------------------------------------
(***************************************************************************)
(* Types.  An edit causes at most two file events, a file event one        *)
(* handleUpdate, and the watch is renewed for an update that has not begun *)
(* or is the newest: the counters are bounded by the edits.                *)
(***************************************************************************)
CountInv ==
  /\ edits \in 0..MaxEdits
  /\ fileEvents \in Nat /\ spawned \in Nat /\ modCounter \in Nat
  /\ fileEvents + spawned + modCounter <= 2 * edits
  /\ readd \in Nat /\ readd <= modCounter + spawned

Update == [pc : {"none", "sleep", "read", "apply"}, entries : Seq(ConfigEntry)]

Sender == [by : 1..MaxUpdates, changes : Seq(ConfigEvent)]

WatchInv ==
  /\ file \in Contents \cup {Missing}
  /\ watched \in BOOLEAN
  /\ phase \in {"read", "watch", "running", "failed"}

DataInv ==
  /\ update \in [1..MaxUpdates -> Update]
  /\ prevEntries \in Seq(ConfigEntry)
  /\ senders \in Seq(Sender)
  /\ events \in Seq(Seq(ConfigEvent))
  /\ batch \in Seq(ConfigEvent)
  /\ routes \in [Hostname -> Seq(Target)]

\* Idle is an update that does nothing.
LEMMA IdleType == Idle \in Update
BY EmptySeq DEF Idle, Update

\* Every step keeps the counters within their bounds.
LEMMA CountStep ==
  ASSUME CountInv, [Next]_vars
  PROVE  CountInv'
<1> USE DEF CountInv
<1>a. MaxEdits \in Nat
  BY EditAssumption
<1>1. ASSUME NEW c \in Contents, Write(c)
      PROVE  CountInv'
  <2>1. /\ edits' = edits + 1 /\ edits < MaxEdits
        /\ spawned' = spawned /\ modCounter' = modCounter /\ readd' = readd
    BY <1>1 DEF Write, Edit, updateVars
  <2>2. fileEvents' = fileEvents \/ fileEvents' = fileEvents + 1
    BY <1>1 DEF Write
  <2> QED
    BY <1>a, <2>1, <2>2
<1>2. ASSUME Unlink \/ \E c \in Contents : Replace(c)
      PROVE  CountInv'
  <2>1. /\ edits' = edits + 1 /\ edits < MaxEdits
        /\ spawned' = spawned /\ modCounter' = modCounter /\ readd' = readd
    BY <1>2 DEF Replace, Unlink, Edit, updateVars
  <2>2. fileEvents' = fileEvents \/ fileEvents' = fileEvents + 2
    BY <1>2 DEF Replace, Unlink, LoseInode
  <2> QED
    BY <1>a, <2>1, <2>2
<1>3. ASSUME NEW c \in Contents, Create(c)
      PROVE  CountInv'
  BY <1>a, <1>3 DEF Create, Edit, updateVars
<1>4. CASE Start
  BY <1>a, <1>4 DEF Start, StartRead, StartWatch, StartWatchFails, envVars, watchVars,
       updateVars
<1>5. CASE ReceiveFileEvent
  BY <1>a, <1>5 DEF ReceiveFileEvent, envVars
<1>6. CASE AddWatch
  BY <1>a, <1>6 DEF AddWatch, envVars, updateVars
<1>7. CASE UpdateStart
  BY <1>a, <1>7 DEF UpdateStart, envVars, watchVars
<1>8. ASSUME NEW k \in 1..MaxUpdates, HandleUpdate(k)
      PROVE  CountInv'
  BY <1>a, <1>8 DEF HandleUpdate, UpdateWake, UpdateRead, UpdateApply, envVars,
       watchVars
<1>9. ASSUME NEW i \in DOMAIN senders, Send(i)
      PROVE  CountInv'
  BY <1>a, <1>9 DEF Send, envVars, watchVars, updateVars
<1>10. CASE Server
  BY <1>a, <1>10 DEF Server, Listen, ProcessEvent, envVars, watchVars, updateVars
<1>11. CASE UNCHANGED vars
  BY <1>a, <1>11 DEF vars, envVars, watchVars, updateVars
<1> QED
  BY <1>1, <1>2, <1>3, <1>4, <1>5, <1>6, <1>7, <1>8, <1>9, <1>10, <1>11
     DEF Next, EditStep, Internal, WatchLoop

\* RemoveAt, the sender that leaves.
LEMMA RemoveAtProperties ==
  ASSUME NEW S, NEW s \in Seq(S), NEW i \in 1..Len(s)
  PROVE  /\ RemoveAt(s, i) \in Seq(S)
         /\ Len(RemoveAt(s, i)) = Len(s) - 1
<1> DEFINE a == SubSeq(s, 1, i - 1)
           b == SubSeq(s, i + 1, Len(s))
<1>1. Len(s) \in Nat /\ (\A j \in 1..Len(s) : s[j] \in S)
  BY ElementOfSeq, LenProperties
<1>2. a \in Seq(S) /\ Len(a) = i - 1
  BY <1>1, SubSeqProperties, SMT
<1>3. b \in Seq(S) /\ Len(b) = Len(s) - i
  BY <1>1, SubSeqProperties, SMT
<1>4. RemoveAt(s, i) = a \o b
  BY DEF RemoveAt
<1> HIDE DEF a, b
<1>5. a \o b \in Seq(S) /\ Len(a \o b) = Len(a) + Len(b)
  BY <1>2, <1>3, ConcatProperties, Zenon
<1> QED
  BY <1>1, <1>2, <1>3, <1>4, <1>5

\* Every step keeps the types of the file, the watch and the startup.
LEMMA WatchStep ==
  ASSUME WatchInv, [Next]_vars
  PROVE  WatchInv'
<1> USE DEF WatchInv
<1>1. CASE EditStep
  BY <1>1 DEF EditStep, Write, Replace, Unlink, Create, LoseInode, Edit
<1>2. CASE Start
  BY <1>2 DEF Start, StartRead, StartWatch, StartWatchFails, envVars, watchVars
<1>3. CASE ReceiveFileEvent
  BY <1>3 DEF ReceiveFileEvent, envVars
<1>4. CASE AddWatch
  BY <1>4 DEF AddWatch, envVars
<1>5. CASE UpdateStart
  BY <1>5 DEF UpdateStart, envVars, watchVars
<1>6. ASSUME NEW k \in 1..MaxUpdates, HandleUpdate(k)
      PROVE  WatchInv'
  BY <1>6 DEF HandleUpdate, UpdateWake, UpdateRead, UpdateApply, envVars,
       watchVars
<1>7. ASSUME NEW i \in DOMAIN senders, Send(i)
      PROVE  WatchInv'
  BY <1>7 DEF Send, envVars, watchVars
<1>8. CASE Server
  BY <1>8 DEF Server, Listen, ProcessEvent, envVars, watchVars
<1>9. CASE UNCHANGED vars
  BY <1>9 DEF vars, envVars, watchVars
<1> QED
  BY <1>1, <1>2, <1>3, <1>4, <1>5, <1>6, <1>7, <1>8, <1>9
     DEF Next, Internal, WatchLoop

\* The routes' RemoveFirst is the one of SequencesExt.
LEMMA MuxRemoveFirst ==
  ASSUME NEW s, NEW e
  PROVE  Mux!RemoveFirst(s, e) = RemoveFirst(s, e)
BY DEF Mux!RemoveFirst, Mux!RemoveAt, Mux!SelectInSeq, Mux!Min, RemoveFirst,
       RemoveAt, SelectInSeq, Min

\* The update that begins has a place among the updates.
LEMMA UpdateStartBound ==
  ASSUME CountInv, UpdateStart
  PROVE  modCounter + 1 \in 1..MaxUpdates
<1>1. MaxEdits \in Nat
  BY EditAssumption
<1> QED
  BY <1>1 DEF CountInv, UpdateStart, MaxUpdates

\* Every step keeps the types of the updates, the channel and the routes.
LEMMA DataStep ==
  ASSUME CountInv, WatchInv, DataInv, [Next]_vars
  PROVE  DataInv'
<1>1. CASE EditStep
  BY <1>1 DEF DataInv, EditStep, Write, Replace, Unlink, Create, Edit,
       updateVars, serverVars
<1>2. CASE StartRead
  <2>1. prevEntries' \in Seq(ConfigEntry)
    BY <1>2, CanReadType DEF StartRead, WatchInv, DataInv
  <2> QED
    BY <1>2, <2>1 DEF DataInv, StartRead, updateVars, serverVars
<1>3. CASE StartWatch
  <2>1. ToEvents(prevEntries, TRUE) \in Seq(ConfigEvent)
    BY ToEventsProperties DEF DataInv
  <2>2. events' = <<ToEvents(prevEntries, TRUE)>>
    BY <1>3 DEF StartWatch
  <2>3. events' \in Seq(Seq(ConfigEvent))
    <3> DEFINE x == ToEvents(prevEntries, TRUE)
    <3>1. x \in Seq(ConfigEvent) /\ events' = <<x>>
      BY <2>1, <2>2
    <3> HIDE DEF x
    <3> QED
      BY <3>1
  <2> QED
    BY <1>3, <2>3 DEF DataInv, StartWatch, updateVars
<1>4. CASE StartWatchFails
  BY <1>4 DEF DataInv, StartWatchFails, updateVars, serverVars
<1>5. CASE WatchLoop
  BY <1>5 DEF DataInv, WatchLoop, ReceiveFileEvent, AddWatch, updateVars,
       serverVars
<1>6. CASE UpdateStart
  <2>1. modCounter + 1 \in 1..MaxUpdates
    BY <1>6, UpdateStartBound
  <2>2. update' \in [1..MaxUpdates -> Update]
    BY <1>6, <2>1 DEF DataInv, UpdateStart, Update
  <2> QED
    BY <1>6, <2>2 DEF DataInv, UpdateStart, serverVars
<1>7. ASSUME NEW k \in 1..MaxUpdates, UpdateWake(k)
      PROVE  DataInv'
  <2>1. update' \in [1..MaxUpdates -> Update]
    BY <1>7, IdleType DEF DataInv, UpdateWake, Update
  <2> QED
    BY <1>7, <2>1 DEF DataInv, UpdateWake, serverVars
<1>8. ASSUME NEW k \in 1..MaxUpdates, UpdateRead(k)
      PROVE  DataInv'
  <2>1. update' \in [1..MaxUpdates -> Update]
    BY <1>8, IdleType, CanReadType DEF WatchInv, DataInv, UpdateRead, Update
  <2> QED
    BY <1>8, <2>1 DEF DataInv, UpdateRead, serverVars
<1>9. ASSUME NEW k \in 1..MaxUpdates, UpdateApply(k)
      PROVE  DataInv'
  <2>1. update[k].entries \in Seq(ConfigEntry)
    BY DEF DataInv, Update
  <2>2. ChangeEvents(prevEntries, update[k].entries) \in Seq(ConfigEvent)
    BY <2>1, ChangeEventsParts DEF DataInv
  <2>3. senders' \in Seq(Sender)
    <3> DEFINE new == [by |-> k,
                       changes |-> ChangeEvents(prevEntries, update[k].entries)]
    <3>1. new \in Sender
      BY <2>2 DEF Sender
    <3>2. senders' = Append(senders, new)
      BY <1>9 DEF UpdateApply
    <3> HIDE DEF new
    <3> QED
      BY <3>1, <3>2, AppendProperties DEF DataInv
  <2>4. update' \in [1..MaxUpdates -> Update]
    BY <1>9, IdleType DEF DataInv, UpdateApply
  <2> QED
    BY <1>9, <2>1, <2>3, <2>4 DEF DataInv, UpdateApply, serverVars
<1>10. ASSUME NEW i \in DOMAIN senders, Send(i)
       PROVE  DataInv'
  <2>1. i \in 1..Len(senders) /\ senders[i] \in Sender
    BY LenProperties, ElementOfSeq DEF DataInv
  <2>2. senders[i].changes \in Seq(ConfigEvent)
    BY <2>1 DEF Sender
  <2>3. events' \in Seq(Seq(ConfigEvent))
    BY <1>10, <2>2, AppendProperties DEF DataInv, Send
  <2>4. senders' \in Seq(Sender)
    BY <1>10, <2>1, RemoveAtProperties DEF DataInv, Send
  <2> QED
    BY <1>10, <2>3, <2>4 DEF DataInv, Send, updateVars
<1>11. CASE Listen
  <2>1. batch' \in Seq(ConfigEvent) /\ events' \in Seq(Seq(ConfigEvent))
    BY <1>11, HeadTailProperties DEF DataInv, Listen
  <2> QED
    BY <1>11, <2>1 DEF DataInv, Listen, updateVars
<1>12. CASE ProcessEvent
  <2>1. batch' \in Seq(ConfigEvent)
    BY <1>12, HeadTailProperties DEF DataInv, ProcessEvent
  <2>2. Head(batch) \in ConfigEvent
    BY <1>12, HeadTailProperties DEF DataInv, ProcessEvent
  <2>3. /\ Head(batch).entry.host \in Hostname
        /\ Head(batch).entry.target \in Target
    BY <2>2 DEF ConfigEvent, ConfigEntry
  <2>4. routes' \in [Hostname -> Seq(Target)]
    <3> DEFINE h == Head(batch).entry.host
               t == Head(batch).entry.target
    <3>1. h \in Hostname /\ t \in Target /\ routes[h] \in Seq(Target)
      BY <2>3 DEF DataInv
    <3>2. /\ Append(routes[h], t) \in Seq(Target)
          /\ RemoveFirst(routes[h], t) \in Seq(Target)
      BY <3>1, AppendProperties, RemoveFirstProperties
    <3>3. \/ routes' = [routes EXCEPT ![h] = RemoveFirst(routes[h], t)]
          \/ routes' = [routes EXCEPT ![h] = Append(routes[h], t)]
          \/ routes' = routes
      BY <1>12, MuxRemoveFirst DEF ProcessEvent, Mux!Register, Mux!Unregister
    <3> HIDE DEF h, t
    <3> QED
      BY <3>1, <3>2, <3>3 DEF DataInv
  <2> QED
    BY <1>12, <2>1, <2>4 DEF DataInv, ProcessEvent, updateVars
<1>13. CASE UNCHANGED vars
  BY <1>13 DEF DataInv, vars, updateVars, serverVars
<1> QED
  BY <1>1, <1>2, <1>3, <1>4, <1>5, <1>6, <1>7, <1>8, <1>9, <1>10, <1>11, <1>12,
     <1>13 DEF Next, Internal, Start, HandleUpdate, Server

TypeInv == CountInv /\ WatchInv /\ DataInv

\* The types and the bounds hold at first.
LEMMA InitTypeInv == Init => TypeInv
<1> SUFFICES ASSUME Init
             PROVE  TypeInv
  OBVIOUS
<1>1. MaxEdits \in Nat /\ MaxUpdates \in Nat
  BY EditAssumption DEF MaxUpdates
<1>2. CountInv
  BY <1>1 DEF Init, CountInv
<1>3. WatchInv
  BY EditAssumption DEF Init, WatchInv
<1>4. DataInv
  BY IdleType, EmptySeq DEF Init, DataInv
<1> QED
  BY <1>2, <1>3, <1>4 DEF TypeInv

\* The types with the bounds of the counters are invariant.
LEMMA TypeInvariant == Spec => []TypeInv
<1>1. TypeInv /\ [Next]_vars => TypeInv'
  BY CountStep, WatchStep, DataStep DEF TypeInv
<1> QED
  BY <1>1, InitTypeInv, PTL DEF Spec

\* The fields of Config and the locals of its goroutines keep their types, the
\* counters their bounds, whatever lines the file holds (pkg/config/config.go).
THEOREM ReloadTypeOK == Spec => []TypeOK
<1>1. TypeInv => TypeOK
  <2> SUFFICES ASSUME TypeInv
               PROVE  TypeOK
    OBVIOUS
  <2>1. MaxEdits \in Nat
    BY EditAssumption
  <2>2. /\ edits \in 0..MaxEdits
        /\ fileEvents \in 0..MaxUpdates /\ readd \in 0..MaxUpdates
        /\ spawned \in 0..MaxUpdates /\ modCounter \in 0..MaxUpdates
    BY <2>1 DEF TypeInv, CountInv, MaxUpdates
  <2> QED
    BY <2>2 DEF TypeInv, WatchInv, DataInv, TypeOK, Update, Sender
<1> QED
  BY <1>1, TypeInvariant, PTL

-----------------------------------------------------------------------------
(***************************************************************************)
(* The watch.                                                              *)
(***************************************************************************)

\* The action of WatchSurvives.
WatchKept == ~WatchLost /\ WatchLost' => file = Missing

\* Every step keeps the watch, an event that will renew it, or its renewal.
LEMMA WatchKeptStep ==
  ASSUME TypeInv, [Next]_vars
  PROVE  WatchKept
<1> SUFFICES ASSUME ~WatchLost, WatchLost'
             PROVE  file = Missing
  BY DEF WatchKept
<1>1. /\ phase' = "running" /\ ~watched' /\ fileEvents' = 0 /\ readd' = 0
      /\ phase = "running" /\ ~watched /\ fileEvents = 0 => readd # 0
  BY DEF WatchLost
<1>2. /\ fileEvents \in Nat /\ modCounter \in Nat
  BY DEF TypeInv, CountInv
<1>3. ASSUME NEW c \in Contents, Write(c)
      PROVE  FALSE
  <2>1. phase' = phase /\ readd' = readd /\ watched' = watched
    BY <1>3 DEF Write, Edit
  <2>2. ~watched => fileEvents' = fileEvents
    BY <1>3 DEF Write
  <2> QED
    BY <1>1, <2>1, <2>2
<1>4. ASSUME LoseInode, phase' = phase, readd' = readd
      PROVE  FALSE
  <2>1. CASE watched
    <3>1. fileEvents' = fileEvents + 2
      BY <1>4, <2>1 DEF LoseInode
    <3>2. fileEvents' # 0
      BY <1>2, <3>1
    <3> QED
      BY <1>1, <3>2
  <2>2. CASE ~watched
    <3>1. fileEvents' = fileEvents
      BY <1>4, <2>2 DEF LoseInode
    <3> QED
      BY <1>1, <1>4, <2>2, <3>1
  <2> QED
    BY <2>1, <2>2
<1>5. CASE Unlink \/ \E c \in Contents : Replace(c)
  BY <1>4, <1>5 DEF Replace, Unlink, Edit
<1>6. ASSUME NEW c \in Contents, Create(c)
      PROVE  FALSE
  BY <1>1, <1>6 DEF Create, Edit
<1>7. CASE Start
  BY <1>1, <1>7 DEF Start, StartRead, StartWatch, StartWatchFails
<1>8. CASE ReceiveFileEvent
  <2>1. readd' # 0
    BY <1>2, <1>8 DEF ReceiveFileEvent
  <2> QED
    BY <1>1, <2>1
<1>9. CASE AddWatch
  BY <1>1, <1>9 DEF AddWatch
<1>10. ASSUME UNCHANGED <<watchVars, phase>>
       PROVE  FALSE
  BY <1>1, <1>10 DEF watchVars
<1>11. CASE UpdateStart
  BY <1>10, <1>11 DEF UpdateStart
<1>12. ASSUME NEW k \in 1..MaxUpdates, HandleUpdate(k)
       PROVE  FALSE
  BY <1>10, <1>12 DEF HandleUpdate, UpdateWake, UpdateRead, UpdateApply
<1>13. ASSUME NEW i \in DOMAIN senders, Send(i)
       PROVE  FALSE
  BY <1>10, <1>13 DEF Send
<1>14. CASE Server
  BY <1>10, <1>14 DEF Server, Listen, ProcessEvent
<1>15. CASE UNCHANGED vars
  BY <1>10, <1>15 DEF vars
<1> QED
  BY <1>3, <1>5, <1>6, <1>7, <1>8, <1>9, <1>11, <1>12, <1>13, <1>14, <1>15
     DEF Next, EditStep, Internal, WatchLoop

\* However edits, file events and renewals of the watch interleave, the watch
\* loop goes deaf only when it renews the watch of a file that is not there
\* (Config.watch of pkg/config/config.go).
THEOREM WatchIsKept == Spec => WatchSurvives
<1>1. TypeInv /\ [Next]_vars => [~WatchLost /\ WatchLost' => file = Missing]_vars
  BY WatchKeptStep DEF WatchKept
<1> QED
  BY <1>1, TypeInvariant, PTL DEF Spec, WatchSurvives

-----------------------------------------------------------------------------
(***************************************************************************)
(* The order within a batch.                                               *)
(***************************************************************************)

\* Batches in which no event of a new entry follows one of an old entry.
UpsFirst(b) == \A i, j \in 1..Len(b) : i < j /\ b[j].up => b[i].up

Ordered == {b \in Seq(ConfigEvent) : UpsFirst(b)}

OrderInv ==
  /\ batch \in Ordered
  /\ events \in Seq(Ordered)
  /\ senders \in Seq([by : 1..MaxUpdates, changes : Ordered])

\* The first batch is of new entries only.
LEMMA FirstBatchOrdered ==
  ASSUME NEW entries \in Seq(ConfigEntry)
  PROVE  ToEvents(entries, TRUE) \in Ordered
<1> DEFINE b == ToEvents(entries, TRUE)
<1>1. /\ b \in Seq(ConfigEvent) /\ Len(b) = Len(entries)
      /\ \A i \in 1..Len(entries) : b[i].up
  <2>1. b \in Seq(ConfigEvent) /\ Len(b) = Len(entries)
    BY ToEventsProperties
  <2>2. \A i \in 1..Len(entries) : b[i].up
    BY ToEventsFields
  <2> QED
    BY <2>1, <2>2
<1> HIDE DEF b
<1>2. b \in Ordered
  BY <1>1 DEF Ordered, UpsFirst
<1> QED
  BY <1>2 DEF b

\* handleUpdate puts the new entries before the old ones.
LEMMA ChangeEventsOrdered ==
  ASSUME NEW prev \in Seq(ConfigEntry), NEW new \in Seq(ConfigEntry)
  PROVE  ChangeEvents(prev, new) \in Ordered
<1> DEFINE u == ToEvents(EntriesUp(prev, new), TRUE)
           d == ToEvents(EntriesDown(prev, new), FALSE)
           c == ChangeEvents(prev, new)
<1>1. /\ u \in Seq(ConfigEvent) /\ d \in Seq(ConfigEvent)
      /\ c = Cat(u, d) /\ c \in Seq(ConfigEvent)
  BY ChangeEventsParts
<1>a. /\ EntriesUp(prev, new) \in Seq(ConfigEntry)
      /\ EntriesDown(prev, new) \in Seq(ConfigEntry)
  BY ChangeEventsParts
<1>b. Len(u) = Len(EntriesUp(prev, new)) /\ Len(d) = Len(EntriesDown(prev, new))
  BY <1>a, ToEventsProperties
<1>2. \A i \in 1..Len(u) : u[i].up
  BY <1>a, <1>b, ToEventsFields
<1>3. \A i \in 1..Len(d) : ~d[i].up
  BY <1>a, <1>b, ToEventsFields
<1> HIDE DEF u, d, c
<1>4. /\ Len(c) = Len(u) + Len(d)
      /\ \A i \in 1..Len(u) : c[i] = u[i]
      /\ \A i \in 1..Len(u) + Len(d) :
           i <= Len(u) \/ (i - Len(u) \in 1..Len(d) /\ c[i] = d[i - Len(u)])
  BY <1>1, CatElements
<1>5. Len(u) \in Nat /\ Len(d) \in Nat
  BY <1>1, LenProperties
<1>6. ASSUME NEW i \in 1..Len(c), NEW j \in 1..Len(c), i < j, c[j].up
      PROVE  c[i].up
  <2>1. j <= Len(u)
    BY <1>3, <1>4, <1>6
  <2>2. i \in 1..Len(u)
    BY <1>5, <1>6, <2>1
  <2> QED
    BY <1>2, <1>4, <2>2
<1>7. c \in Ordered
  BY <1>1, <1>6 DEF Ordered, UpsFirst
<1> QED
  BY <1>7 DEF c

\* What is left of an ordered batch is ordered.
LEMMA TailOrdered ==
  ASSUME NEW b \in Ordered, b # <<>>
  PROVE  /\ Tail(b) \in Ordered
         /\ ~Head(b).up => \A i \in 1..Len(Tail(b)) : ~Tail(b)[i].up
<1> DEFINE t == Tail(b)
<1>1. /\ b \in Seq(ConfigEvent) /\ Head(b) = b[1] /\ t \in Seq(ConfigEvent)
      /\ Len(t) = Len(b) - 1
      /\ \A i \in 1..Len(b) - 1 : t[i] = b[i + 1]
  BY HeadTailProperties DEF Ordered
<1>2. \A i, j \in 1..Len(b) : i < j /\ b[j].up => b[i].up
  BY DEF Ordered, UpsFirst
<1>3. Len(b) \in Nat /\ Len(b) # 0
  BY <1>1, LenProperties, EmptySeq
<1> HIDE DEF t
<1>4. ASSUME NEW i \in 1..Len(t), NEW j \in 1..Len(t), i < j, t[j].up
      PROVE  t[i].up
  <2>1. i + 1 \in 1..Len(b) /\ j + 1 \in 1..Len(b) /\ i + 1 < j + 1
    BY <1>1, <1>3, <1>4
  <2>2. t[i] = b[i + 1] /\ t[j] = b[j + 1]
    BY <1>1
  <2> QED
    BY <1>2, <1>4, <2>1, <2>2
<1>5. ASSUME NEW i \in 1..Len(t), ~b[1].up
      PROVE  ~t[i].up
  <2>1. 1 \in 1..Len(b) /\ i + 1 \in 1..Len(b) /\ 1 < i + 1
    BY <1>1, <1>3
  <2>2. t[i] = b[i + 1]
    BY <1>1
  <2> QED
    BY <1>2, <1>5, <2>1, <2>2
<1> QED
  BY <1>1, <1>4, <1>5 DEF t, Ordered, UpsFirst

\* Every step keeps the batches ordered.
LEMMA OrderStep ==
  ASSUME TypeInv, OrderInv, [Next]_vars
  PROVE  OrderInv'
<1>a. <<>> \in Ordered
  BY EmptySeq DEF Ordered, UpsFirst
<1>1. CASE EditStep
  BY <1>1 DEF OrderInv, EditStep, Write, Replace, Unlink, Create, Edit, serverVars
<1>2. CASE StartRead \/ StartWatchFails
  BY <1>2 DEF OrderInv, StartRead, StartWatchFails, serverVars
<1>3. CASE StartWatch
  <2> DEFINE b == ToEvents(prevEntries, TRUE)
  <2>1. b \in Ordered
    BY FirstBatchOrdered DEF TypeInv, DataInv
  <2>2. events' = <<b>> /\ batch' = batch /\ senders' = senders
    BY <1>3 DEF StartWatch
  <2> HIDE DEF b
  <2> QED
    BY <2>1, <2>2 DEF OrderInv
<1>4. CASE WatchLoop \/ UpdateStart
  BY <1>4 DEF OrderInv, WatchLoop, ReceiveFileEvent, AddWatch, UpdateStart,
       serverVars
<1>5. ASSUME NEW k \in 1..MaxUpdates, UpdateWake(k) \/ UpdateRead(k)
      PROVE  OrderInv'
  BY <1>5 DEF OrderInv, UpdateWake, UpdateRead, serverVars
<1>6. ASSUME NEW k \in 1..MaxUpdates, UpdateApply(k)
      PROVE  OrderInv'
  <2> DEFINE c == ChangeEvents(prevEntries, update[k].entries)
             new == [by |-> k, changes |-> c]
  <2>1. c \in Ordered
    BY ChangeEventsOrdered DEF TypeInv, DataInv, Update
  <2>2. events' = events /\ batch' = batch /\ senders' = Append(senders, new)
    BY <1>6 DEF UpdateApply, serverVars
  <2> HIDE DEF c
  <2>3. new \in [by : 1..MaxUpdates, changes : Ordered]
    BY <2>1
  <2> HIDE DEF new
  <2> QED
    BY <2>2, <2>3, AppendProperties DEF OrderInv
<1>7. ASSUME NEW i \in DOMAIN senders, Send(i)
      PROVE  OrderInv'
  <2> DEFINE S == [by : 1..MaxUpdates, changes : Ordered]
  <2>1. senders \in Seq(S) /\ i \in 1..Len(senders) /\ senders[i] \in S
    BY LenProperties, ElementOfSeq DEF OrderInv
  <2>2. senders[i].changes \in Ordered
    BY <2>1
  <2>3. events' \in Seq(Ordered)
    BY <1>7, <2>2, AppendProperties DEF OrderInv, Send
  <2> HIDE DEF S
  <2>4. senders' \in Seq(S)
    BY <1>7, <2>1, RemoveAtProperties DEF Send
  <2> QED
    BY <1>7, <2>3, <2>4 DEF OrderInv, Send, S
<1>8. CASE Listen
  <2>1. batch' \in Ordered /\ events' \in Seq(Ordered)
    BY <1>8, HeadTailProperties DEF OrderInv, Listen
  <2> QED
    BY <1>8, <2>1 DEF OrderInv, Listen
<1>9. CASE ProcessEvent
  <2>1. batch' \in Ordered
    BY <1>9, TailOrdered DEF OrderInv, ProcessEvent
  <2> QED
    BY <1>9, <2>1 DEF OrderInv, ProcessEvent
<1>10. CASE UNCHANGED vars
  BY <1>10 DEF OrderInv, vars, serverVars
<1> QED
  BY <1>1, <1>2, <1>3, <1>4, <1>5, <1>6, <1>7, <1>8, <1>9, <1>10
     DEF Next, Internal, Start, HandleUpdate, Server

\* The action of NoGap.
MadeBeforeBroken ==
  \A h \in Hostname :
    routes[h] # <<>> /\ routes'[h] = <<>>
      => \A i \in DOMAIN batch' : batch'[i].up => batch'[i].entry.host # h

\* A host name loses its last handler only to the event of an old entry, and
\* nothing new comes after it in the batch.
LEMMA MadeBeforeBrokenStep ==
  ASSUME TypeInv, OrderInv, [Next]_vars
  PROVE  MadeBeforeBroken
<1> SUFFICES ASSUME NEW h \in Hostname, routes[h] # <<>>, routes'[h] = <<>>
             PROVE  \A i \in DOMAIN batch' :
                      batch'[i].up => batch'[i].entry.host # h
  BY DEF MadeBeforeBroken
<1>1. CASE ProcessEvent
  <2>1. /\ batch \in Ordered /\ batch # <<>> /\ batch' = Tail(batch)
        /\ batch \in Seq(ConfigEvent)
    BY <1>1 DEF ProcessEvent, OrderInv, Ordered
  <2>2. ~Head(batch).up
    <3> SUFFICES ASSUME Head(batch).up
                 PROVE  FALSE
      OBVIOUS
    <3> DEFINE p == Head(batch).entry.host
               t == Head(batch).entry.target
    <3>1. Head(batch) \in ConfigEvent
      BY <2>1, HeadTailProperties
    <3>2. p \in Hostname /\ t \in Target
      BY <3>1 DEF ConfigEvent, ConfigEntry
    <3>3. routes' = [routes EXCEPT ![p] = Append(routes[p], t)] \/ routes' = routes
      BY <1>1 DEF ProcessEvent, Mux!Register
    <3> HIDE DEF p, t
    <3>4. routes \in [Hostname -> Seq(Target)]
      BY DEF TypeInv, DataInv
    <3>5. Append(routes[p], t) # <<>>
      BY <3>2, <3>4, AppendProperties
    <3> QED
      BY <3>2, <3>3, <3>4, <3>5
  <2>3. \A i \in 1..Len(Tail(batch)) : ~Tail(batch)[i].up
    BY <2>1, <2>2, TailOrdered
  <2>4. DOMAIN Tail(batch) = 1..Len(Tail(batch))
    BY <2>1, HeadTailProperties, LenProperties
  <2> QED
    BY <2>1, <2>3, <2>4
<1>2. routes' # routes
  OBVIOUS
<1>3. ~EditStep
  BY <1>2 DEF EditStep, Write, Replace, Unlink, Create, Edit, serverVars
<1>4. ~Start
  BY <1>2 DEF Start, StartRead, StartWatch, StartWatchFails, serverVars
<1>5. ~WatchLoop /\ ~UpdateStart
  BY <1>2 DEF WatchLoop, ReceiveFileEvent, AddWatch, UpdateStart, serverVars
<1>6. \A k \in 1..MaxUpdates : ~HandleUpdate(k)
  BY <1>2 DEF HandleUpdate, UpdateWake, UpdateRead, UpdateApply, serverVars
<1>7. \A i \in DOMAIN senders : ~Send(i)
  BY <1>2 DEF Send
<1>8. ~Listen
  BY <1>2 DEF Listen
<1>9. ~UNCHANGED vars
  BY <1>2 DEF vars, serverVars
<1> QED
  BY <1>1, <1>3, <1>4, <1>5, <1>6, <1>7, <1>8, <1>9 DEF Next, Internal, Server

\* Whatever the file is changed to, and whichever handlers cannot be made, a
\* host name loses its last handler within an update only after every handler
\* the update brings it (handleUpdate, Server.ProcessEvents).
THEOREM MakesBeforeBreaking == Spec => NoGap
<1>1. Init => OrderInv
  BY EmptySeq DEF Init, OrderInv, Ordered, UpsFirst
<1>2. TypeInv /\ OrderInv /\ [Next]_vars => OrderInv'
  BY OrderStep
<1>3. TypeInv /\ OrderInv /\ [Next]_vars
        => [\A h \in Hostname :
              routes[h] # <<>> /\ routes'[h] = <<>>
                => \A i \in DOMAIN batch' :
                     batch'[i].up => batch'[i].entry.host # h]_vars
  BY MadeBeforeBrokenStep DEF MadeBeforeBroken
<1> QED
  BY <1>1, <1>2, <1>3, TypeInvariant, PTL DEF Spec, NoGap

-----------------------------------------------------------------------------
(***************************************************************************)
(* The events between Config.prevEntries and the routes.                   *)
(***************************************************************************)

\* Where the events f bring the entry e, and where they take it away.
Ups(f, e) == {i \in 1..Len(f) : f[i].entry = e /\ f[i].up}
Downs(f, e) == {i \in 1..Len(f) : f[i].entry = e /\ ~f[i].up}

\* One of D lies between any two of U; before, after each of U.
Parted(U, D) == \A i, j \in U : i < j => \E k \in D : i < k /\ k < j
Preceded(U, D) == \A j \in U : \E k \in D : k < j
Followed(U, D) == \A i \in U : \E k \in D : i < k

(***************************************************************************)
(* What the events f on their way, the routed entries R and the entries P  *)
(* of Config.prevEntries have to do with each other, for one entry e:      *)
(* between two events that bring it one takes it away, and one does before *)
(* the first of them if it is routed; if it is not in P, every event that  *)
(* brings it, and its present route, is followed by one that takes it      *)
(* away; if it is in P, every event that takes it away is followed by one  *)
(* that brings it, and unless it is routed or its handler could not be     *)
(* made, one is still to come.                                             *)
(***************************************************************************)
LeadsFor(f, R, P, e) ==
  /\ Parted(Ups(f, e), Downs(f, e))
  /\ e \in R => Preceded(Ups(f, e), Downs(f, e))
  /\ e \notin P => Followed(Ups(f, e), Downs(f, e))
  /\ e \in R /\ e \notin P => Downs(f, e) # {}
  /\ e \in P => Followed(Downs(f, e), Ups(f, e))
  /\ e \in P => e \in R \/ HandlerMayFail(e.target) \/ Ups(f, e) # {}

Leads(f, R, P) == \A e \in ConfigEntry : LeadsFor(f, R, P, e)

\* The events of a concatenation.
LEMMA CatEvents ==
  ASSUME NEW f \in Seq(ConfigEvent), NEW c \in Seq(ConfigEvent), NEW e
  PROVE  /\ Ups(Cat(f, c), e) = Ups(f, e) \cup {Len(f) + i : i \in Ups(c, e)}
         /\ Downs(Cat(f, c), e) = Downs(f, e) \cup {Len(f) + i : i \in Downs(c, e)}
         /\ Ups(f, e) \subseteq 1..Len(f) /\ Downs(f, e) \subseteq 1..Len(f)
         /\ Ups(c, e) \subseteq 1..Len(c) /\ Downs(c, e) \subseteq 1..Len(c)
         /\ Len(f) \in Nat /\ Len(c) \in Nat
<1> DEFINE g == Cat(f, c)
<1>1. Len(f) \in Nat /\ Len(c) \in Nat
  BY LenProperties
<1>2. /\ Len(g) = Len(f) + Len(c)
      /\ \A i \in 1..Len(f) : g[i] = f[i]
      /\ \A i \in 1..Len(c) : g[Len(f) + i] = c[i]
      /\ \A i \in 1..Len(f) + Len(c) :
           i <= Len(f) \/ (i - Len(f) \in 1..Len(c) /\ g[i] = c[i - Len(f)])
  BY CatElements
<1> HIDE DEF g
<1>3. /\ \A i \in 1..Len(f) : i \in 1..Len(g)
      /\ \A i \in 1..Len(c) : Len(f) + i \in 1..Len(g)
  BY <1>1, <1>2
<1>4. ASSUME NEW i \in 1..Len(g)
      PROVE  i \in 1..Len(f) \/ \E j \in 1..Len(c) : i = Len(f) + j
  <2>1. CASE i <= Len(f)
    BY <1>1, <2>1
  <2>2. CASE ~(i <= Len(f))
    <3> DEFINE j == i - Len(f)
    <3>1. j \in 1..Len(c) /\ i = Len(f) + j
      BY <1>1, <1>2, <2>2
    <3> QED
      BY <3>1
  <2> QED
    BY <2>1, <2>2
<1>5. Ups(g, e) = Ups(f, e) \cup {Len(f) + i : i \in Ups(c, e)}
  <2>1. ASSUME NEW i \in Ups(g, e)
        PROVE  i \in Ups(f, e) \cup {Len(f) + j : j \in Ups(c, e)}
    <3>1. i \in 1..Len(g)
      BY <2>1 DEF Ups
    <3>2. CASE i \in 1..Len(f)
      BY <1>2, <2>1, <3>2 DEF Ups
    <3>3. ASSUME NEW j \in 1..Len(c), i = Len(f) + j
          PROVE  j \in Ups(c, e)
      BY <1>2, <2>1, <3>3 DEF Ups
    <3> QED
      BY <1>4, <3>1, <3>2, <3>3
  <2>2. Ups(f, e) \subseteq Ups(g, e)
    BY <1>2, <1>3 DEF Ups
  <2>3. \A i \in Ups(c, e) : Len(f) + i \in Ups(g, e)
    BY <1>2, <1>3 DEF Ups
  <2> QED
    BY <2>1, <2>2, <2>3
<1>6. Downs(g, e) = Downs(f, e) \cup {Len(f) + i : i \in Downs(c, e)}
  <2>1. ASSUME NEW i \in Downs(g, e)
        PROVE  i \in Downs(f, e) \cup {Len(f) + j : j \in Downs(c, e)}
    <3>1. i \in 1..Len(g)
      BY <2>1 DEF Downs
    <3>2. CASE i \in 1..Len(f)
      BY <1>2, <2>1, <3>2 DEF Downs
    <3>3. ASSUME NEW j \in 1..Len(c), i = Len(f) + j
          PROVE  j \in Downs(c, e)
      BY <1>2, <2>1, <3>3 DEF Downs
    <3> QED
      BY <1>4, <3>1, <3>2, <3>3
  <2>2. Downs(f, e) \subseteq Downs(g, e)
    BY <1>2, <1>3 DEF Downs
  <2>3. \A i \in Downs(c, e) : Len(f) + i \in Downs(g, e)
    BY <1>2, <1>3 DEF Downs
  <2> QED
    BY <2>1, <2>2, <2>3
<1> QED
  BY <1>1, <1>5, <1>6 DEF g, Ups, Downs

\* One event of the entry e, or none.
LEMMA OneEvent ==
  ASSUME NEW x \in ConfigEvent, NEW e
  PROVE  /\ <<x>> \in Seq(ConfigEvent) /\ Len(<<x>>) = 1
         /\ e # x.entry => Ups(<<x>>, e) = {} /\ Downs(<<x>>, e) = {}
         /\ e = x.entry /\ x.up => Ups(<<x>>, e) = {1} /\ Downs(<<x>>, e) = {}
         /\ e = x.entry /\ ~x.up => Ups(<<x>>, e) = {} /\ Downs(<<x>>, e) = {1}
<1> DEFINE s == <<x>>
<1>1. s \in Seq(ConfigEvent) /\ Len(s) = 1 /\ s[1] = x /\ 1..1 = {1}
  OBVIOUS
<1> HIDE DEF s
<1>2. /\ e # x.entry => Ups(s, e) = {} /\ Downs(s, e) = {}
      /\ e = x.entry /\ x.up => Ups(s, e) = {1} /\ Downs(s, e) = {}
      /\ e = x.entry /\ ~x.up => Ups(s, e) = {} /\ Downs(s, e) = {1}
  BY <1>1 DEF Ups, Downs
<1> QED
  BY <1>1, <1>2 DEF s

\* Later events: what U and D have to do with each other when all of V comes
\* after them.
LEMMA Joined ==
  ASSUME NEW L \in Nat, NEW U \in SUBSET (1..L), NEW D \in SUBSET (1..L),
         NEW v \in Nat, L < v
  PROVE  /\ Parted(U, D) /\ Followed(U, D) => Parted(U \cup {v}, D)
         /\ Preceded(U, D) /\ D # {} => Preceded(U \cup {v}, D)
         /\ Followed(D, U \cup {v})
<1>1. \A i \in U \cup D : i \in Nat /\ i < v
  OBVIOUS
<1>2. ASSUME Parted(U, D), Followed(U, D),
             NEW i \in U \cup {v}, NEW j \in U \cup {v}, i < j
      PROVE  \E k \in D : i < k /\ k < j
  <2>1. i \in U
    BY <1>1, <1>2
  <2>2. CASE j \in U
    BY <1>2, <2>1, <2>2 DEF Parted
  <2>3. CASE j = v
    BY <1>1, <1>2, <2>1, <2>3 DEF Followed
  <2> QED
    BY <2>2, <2>3
<1>3. ASSUME Preceded(U, D), D # {}, NEW j \in U \cup {v}
      PROVE  \E k \in D : k < j
  BY <1>1, <1>3 DEF Preceded
<1>4. Followed(D, U \cup {v})
  BY <1>1 DEF Followed
<1> QED
  BY <1>2, <1>3, <1>4 DEF Parted, Preceded

\* The same, when D grows.
LEMMA Widened ==
  ASSUME NEW U, NEW D, NEW E, D \subseteq E
  PROVE  /\ Parted(U, D) => Parted(U, E)
         /\ Preceded(U, D) => Preceded(U, E)
BY DEF Parted, Preceded

\* handleUpdate: the changes from P to N join the end of the events.
LEMMA LeadsApply ==
  ASSUME NEW f \in Seq(ConfigEvent), NEW c \in Seq(ConfigEvent),
         NEW R, NEW P, NEW N, NEW e,
         LeadsFor(f, R, P, e),
         e \in N /\ e \notin P => (\E a : Ups(c, e) = {a}) /\ Downs(c, e) = {},
         e \in P /\ e \notin N => Ups(c, e) = {} /\ Downs(c, e) # {},
         (e \in P <=> e \in N) => Ups(c, e) = {} /\ Downs(c, e) = {}
  PROVE  LeadsFor(Cat(f, c), R, N, e)
<1> DEFINE g == Cat(f, c)
           L == Len(f)
           U == Ups(f, e)
           D == Downs(f, e)
<1>1. /\ Ups(g, e) = U \cup {L + i : i \in Ups(c, e)}
      /\ Downs(g, e) = D \cup {L + i : i \in Downs(c, e)}
      /\ U \subseteq 1..L /\ D \subseteq 1..L
      /\ Ups(c, e) \subseteq 1..Len(c) /\ Downs(c, e) \subseteq 1..Len(c)
      /\ L \in Nat /\ Len(c) \in Nat
  BY CatEvents
<1>2. /\ Parted(U, D)
      /\ e \in R => Preceded(U, D)
      /\ e \notin P => Followed(U, D)
      /\ e \in R /\ e \notin P => D # {}
      /\ e \in P => Followed(D, U)
      /\ e \in P => e \in R \/ HandlerMayFail(e.target) \/ U # {}
  BY DEF LeadsFor
<1> HIDE DEF g, L, U, D
<1>3. CASE e \in P <=> e \in N
  <2>1. Ups(g, e) = U /\ Downs(g, e) = D
    BY <1>1, <1>3
  <2> QED
    BY <1>2, <1>3, <2>1 DEF LeadsFor, g
<1>4. CASE e \in N /\ e \notin P
  <2>1. PICK a \in 1..Len(c) : Ups(c, e) = {a}
    BY <1>1, <1>4
  <2> DEFINE v == L + a
  <2>2. Ups(g, e) = U \cup {v} /\ Downs(g, e) = D
    BY <1>1, <1>4, <2>1
  <2>3. v \in Nat /\ L < v
    BY <1>1
  <2> HIDE DEF v
  <2>4. /\ Parted(U \cup {v}, D)
        /\ e \in R => Preceded(U \cup {v}, D)
        /\ Followed(D, U \cup {v})
    BY <1>1, <1>2, <1>4, <2>3, Joined
  <2> QED
    BY <1>4, <2>2, <2>4 DEF LeadsFor, g
<1>5. CASE e \in P /\ e \notin N
  <2>1. PICK a \in 1..Len(c) : a \in Downs(c, e)
    BY <1>1, <1>5
  <2> DEFINE E == Downs(g, e)
             v == L + a
  <2>2. Ups(g, e) = U /\ D \subseteq E /\ v \in E
    BY <1>1, <1>5, <2>1
  <2>3. \A i \in U : i < v
    BY <1>1
  <2> HIDE DEF E, v
  <2>4. Followed(U, E)
    BY <2>2, <2>3 DEF Followed
  <2>5. Parted(U, E) /\ (e \in R => Preceded(U, E)) /\ E # {}
    BY <1>2, <2>2, Widened
  <2> QED
    BY <1>5, <2>2, <2>4, <2>5 DEF LeadsFor, g, E
<1> QED
  BY <1>3, <1>4, <1>5

\* Events that move up one place, with or without one at the first.
LEMMA Shifted ==
  ASSUME NEW U \in SUBSET (Nat \ {0}), NEW D \in SUBSET (Nat \ {0}),
         NEW V, NEW E, V = {1 + i : i \in U}, E = {1 + i : i \in D}
  PROVE  /\ Parted(V, E) => Parted(U, D)
         /\ Parted(V, {1} \cup E) => Parted(U, D)
         /\ Parted({1} \cup V, E) => Parted(U, D) /\ Preceded(U, D)
         /\ Preceded(V, E) => Preceded(U, D)
         /\ ~Preceded({1} \cup V, E)
         /\ Followed(V, E) => Followed(U, D)
         /\ Followed(V, {1} \cup E) => Followed(U, D)
         /\ Followed({1} \cup V, E) => Followed(U, D) /\ D # {}
<1>1. /\ \A i \in U : i \in Nat /\ 1 + i \in V /\ 1 < 1 + i
      /\ \A i \in E : i - 1 \in D /\ i \in Nat /\ 1 < i
  OBVIOUS
<1>2. ASSUME Parted(V, {1} \cup E) \/ Parted(V, E) \/ Parted({1} \cup V, E)
      PROVE  Parted(U, D)
  <2> SUFFICES ASSUME NEW i \in U, NEW j \in U, i < j
               PROVE  \E k \in D : i < k /\ k < j
    BY DEF Parted
  <2>1. 1 + i \in V /\ 1 + j \in V /\ 1 + i < 1 + j /\ 1 < 1 + i
    BY <1>1
  <2>2. PICK k \in {1} \cup E : 1 + i < k /\ k < 1 + j
    BY <1>2, <2>1 DEF Parted
  <2>3. k \in E /\ i < k - 1 /\ k - 1 < j
    BY <1>1, <2>1, <2>2
  <2> QED
    BY <1>1, <2>3
<1>3. ASSUME Parted({1} \cup V, E)
      PROVE  Preceded(U, D)
  <2> SUFFICES ASSUME NEW j \in U
               PROVE  \E k \in D : k < j
    BY DEF Preceded
  <2>1. PICK k \in E : 1 < k /\ k < 1 + j
    BY <1>1, <1>3 DEF Parted
  <2>2. k - 1 < j
    BY <1>1, <2>1
  <2> QED
    BY <1>1, <2>2
<1>4. ASSUME Preceded(V, E)
      PROVE  Preceded(U, D)
  <2> SUFFICES ASSUME NEW j \in U
               PROVE  \E k \in D : k < j
    BY DEF Preceded
  <2>1. PICK k \in E : k < 1 + j
    BY <1>1, <1>4 DEF Preceded
  <2>2. k - 1 < j
    BY <1>1, <2>1
  <2> QED
    BY <1>1, <2>2
<1>5. ~Preceded({1} \cup V, E)
  BY <1>1 DEF Preceded
<1>6. ASSUME Followed(V, E) \/ Followed(V, {1} \cup E) \/ Followed({1} \cup V, E)
      PROVE  Followed(U, D)
  <2> SUFFICES ASSUME NEW i \in U
               PROVE  \E k \in D : i < k
    BY DEF Followed
  <2>1. 1 + i \in V /\ 1 < 1 + i
    BY <1>1
  <2>2. PICK k \in {1} \cup E : 1 + i < k
    BY <1>6, <2>1 DEF Followed
  <2>3. k \in E /\ i < k - 1
    BY <1>1, <2>1, <2>2
  <2> QED
    BY <1>1, <2>3
<1>7. ASSUME Followed({1} \cup V, E)
      PROVE  D # {}
  BY <1>1, <1>7 DEF Followed
<1> QED
  BY <1>2, <1>3, <1>4, <1>5, <1>6, <1>7

\* ProcessEvent: the first of the events changes the routes.
LEMMA LeadsProcess ==
  ASSUME NEW x \in ConfigEvent, NEW g \in Seq(ConfigEvent),
         NEW R, NEW Q, NEW P, NEW e,
         LeadsFor(Cat(<<x>>, g), R, P, e),
         e # x.entry => (e \in Q <=> e \in R),
         e = x.entry /\ ~x.up => e \notin Q,
         e = x.entry /\ x.up => e \in Q \/ HandlerMayFail(e.target)
  PROVE  /\ LeadsFor(g, Q, P, e)
         /\ e = x.entry /\ x.up => e \notin R
<1> DEFINE s == <<x>>
           f == Cat(s, g)
           U == Ups(g, e)
           D == Downs(g, e)
           V == {1 + i : i \in U}
           E == {1 + i : i \in D}
<1>1. s \in Seq(ConfigEvent) /\ Len(s) = 1
  BY OneEvent
<1>2. /\ e # x.entry => Ups(s, e) = {} /\ Downs(s, e) = {}
      /\ e = x.entry /\ x.up => Ups(s, e) = {1} /\ Downs(s, e) = {}
      /\ e = x.entry /\ ~x.up => Ups(s, e) = {} /\ Downs(s, e) = {1}
  BY OneEvent
<1> HIDE DEF s
<1>3. /\ Ups(f, e) = Ups(s, e) \cup V
      /\ Downs(f, e) = Downs(s, e) \cup E
      /\ U \subseteq 1..Len(g) /\ D \subseteq 1..Len(g) /\ Len(g) \in Nat
  <2>1. /\ Ups(f, e) = Ups(s, e) \cup {Len(s) + i : i \in U}
        /\ Downs(f, e) = Downs(s, e) \cup {Len(s) + i : i \in D}
        /\ U \subseteq 1..Len(g) /\ D \subseteq 1..Len(g) /\ Len(g) \in Nat
    BY <1>1, CatEvents, Zenon
  <2> HIDE DEF f, U, D
  <2>2. {Len(s) + i : i \in U} = V /\ {Len(s) + i : i \in D} = E
    BY <1>1, Zenon
  <2> HIDE DEF V, E
  <2> QED
    BY <2>1, <2>2, Zenon
<1>4. U \subseteq Nat \ {0} /\ D \subseteq Nat \ {0}
  BY <1>3
<1>5. /\ Parted(Ups(f, e), Downs(f, e))
      /\ e \in R => Preceded(Ups(f, e), Downs(f, e))
      /\ e \notin P => Followed(Ups(f, e), Downs(f, e))
      /\ e \in R /\ e \notin P => Downs(f, e) # {}
      /\ e \in P => Followed(Downs(f, e), Ups(f, e))
      /\ e \in P => e \in R \/ HandlerMayFail(e.target) \/ Ups(f, e) # {}
  BY DEF LeadsFor, s
<1>6. (V = {} <=> U = {}) /\ (E = {} <=> D = {})
  OBVIOUS
<1>7. /\ Parted(V, E) => Parted(U, D)
      /\ Parted(V, {1} \cup E) => Parted(U, D)
      /\ Parted({1} \cup V, E) => Parted(U, D) /\ Preceded(U, D)
      /\ Preceded(V, E) => Preceded(U, D)
      /\ ~Preceded({1} \cup V, E)
      /\ Followed(V, E) => Followed(U, D)
      /\ Followed(V, {1} \cup E) => Followed(U, D)
      /\ Followed({1} \cup V, E) => Followed(U, D) /\ D # {}
  BY <1>4, Shifted
<1>8. /\ Followed(E, V) => Followed(D, U)
      /\ Followed(E, {1} \cup V) => Followed(D, U)
      /\ Followed({1} \cup E, V) => Followed(D, U) /\ U # {}
  BY <1>4, Shifted
<1> HIDE DEF f, U, D, V, E
<1>9. CASE e # x.entry
  <2>1. Ups(f, e) = V /\ Downs(f, e) = E
    BY <1>2, <1>3, <1>9
  <2> QED
    BY <1>5, <1>6, <1>7, <1>8, <1>9, <2>1 DEF LeadsFor, U, D
<1>10. CASE e = x.entry /\ ~x.up
  <2>1. Ups(f, e) = V /\ Downs(f, e) = {1} \cup E
    BY <1>2, <1>3, <1>10
  <2> QED
    BY <1>5, <1>6, <1>7, <1>8, <1>10, <2>1 DEF LeadsFor, U, D
<1>11. CASE e = x.entry /\ x.up
  <2>1. Ups(f, e) = {1} \cup V /\ Downs(f, e) = E
    BY <1>2, <1>3, <1>11
  <2> QED
    BY <1>5, <1>6, <1>7, <1>8, <1>11, <2>1 DEF LeadsFor, U, D
<1> QED
  BY <1>9, <1>10, <1>11
-----------------------------------------------------------------------------
(***************************************************************************)
(* The events the code makes.                                              *)
(***************************************************************************)

\* Where the entry e is listed.
At(entries, e) == {i \in 1..Len(entries) : entries[i] = e}

\* Nowhere, unless it is an element; once, if nothing is listed twice.
LEMMA AtProperties ==
  ASSUME NEW entries \in Seq(ConfigEntry), NEW e
  PROVE  /\ e \notin ToSet(entries) <=> At(entries, e) = {}
         /\ IsInjective(entries) /\ e \in ToSet(entries)
              => \E a : At(entries, e) = {a}
<1>1. /\ ToSet(entries) = {entries[i] : i \in 1..Len(entries)}
      /\ DOMAIN entries = 1..Len(entries)
  BY ToSetIndex
<1>2. e \notin ToSet(entries) <=> At(entries, e) = {}
  BY <1>1 DEF At
<1>3. ASSUME IsInjective(entries), e \in ToSet(entries)
      PROVE  \E a : At(entries, e) = {a}
  <2>1. PICK a : a \in At(entries, e)
    BY <1>2, <1>3
  <2>2. \A i, j \in 1..Len(entries) : entries[i] = entries[j] => i = j
    BY <1>1, <1>3 DEF IsInjective
  <2>3. At(entries, e) = {a}
    BY <2>1, <2>2 DEF At
  <2> QED
    BY <2>3
<1> QED
  BY <1>2, <1>3

\* The events toEvents makes of the entry e.
LEMMA ToEventsAt ==
  ASSUME NEW entries \in Seq(ConfigEntry), NEW e
  PROVE  /\ Ups(ToEvents(entries, TRUE), e) = At(entries, e)
         /\ Downs(ToEvents(entries, TRUE), e) = {}
         /\ Ups(ToEvents(entries, FALSE), e) = {}
         /\ Downs(ToEvents(entries, FALSE), e) = At(entries, e)
<1> DEFINE u == ToEvents(entries, TRUE)
           d == ToEvents(entries, FALSE)
<1>1. Len(u) = Len(entries) /\ Len(d) = Len(entries)
  BY ToEventsProperties
<1>2. \A i \in 1..Len(entries) :
        u[i].entry = entries[i] /\ d[i].entry = entries[i] /\ u[i].up /\ ~d[i].up
  BY ToEventsFields
<1> HIDE DEF u, d
<1>3. /\ Ups(u, e) = At(entries, e) /\ Downs(u, e) = {}
      /\ Ups(d, e) = {} /\ Downs(d, e) = At(entries, e)
  BY <1>1, <1>2 DEF Ups, Downs, At
<1> QED
  BY <1>3 DEF u, d

\* The events getConfigChange makes of the entry e: one that brings it when
\* only the new entries list it, at least one that takes it away when only the
\* old ones do, and otherwise none.
LEMMA ChangesOf ==
  ASSUME NEW prev \in Seq(ConfigEntry), NEW new \in Seq(ConfigEntry), NEW e,
         IsInjective(new)
  PROVE  LET c == ChangeEvents(prev, new)
             P == ToSet(prev)
             N == ToSet(new)
         IN  /\ e \in N /\ e \notin P
                  => (\E a : Ups(c, e) = {a}) /\ Downs(c, e) = {}
             /\ e \in P /\ e \notin N => Ups(c, e) = {} /\ Downs(c, e) # {}
             /\ (e \in P <=> e \in N) => Ups(c, e) = {} /\ Downs(c, e) = {}
<1> DEFINE eu == EntriesUp(prev, new)
           ed == EntriesDown(prev, new)
           u == ToEvents(eu, TRUE)
           d == ToEvents(ed, FALSE)
           c == ChangeEvents(prev, new)
<1>1. /\ eu \in Seq(ConfigEntry) /\ ed \in Seq(ConfigEntry)
      /\ ToSet(eu) = ToSet(new) \ ToSet(prev)
      /\ ToSet(ed) = ToSet(prev) \ ToSet(new)
      /\ IsInjective(eu)
      /\ u \in Seq(ConfigEvent) /\ d \in Seq(ConfigEvent) /\ c = Cat(u, d)
  BY ChangeEventsParts
<1> HIDE DEF eu, ed, c
<1>2. /\ Ups(u, e) = At(eu, e) /\ Downs(u, e) = {}
      /\ Ups(d, e) = {} /\ Downs(d, e) = At(ed, e)
  BY <1>1, ToEventsAt
<1>3. /\ e \notin ToSet(eu) <=> At(eu, e) = {}
      /\ e \in ToSet(eu) => \E a : At(eu, e) = {a}
  BY <1>1, AtProperties
<1>4. e \notin ToSet(ed) <=> At(ed, e) = {}
  BY <1>1, AtProperties
<1> HIDE DEF u, d
<1>5. /\ Ups(c, e) = Ups(u, e) \cup {Len(u) + i : i \in Ups(d, e)}
      /\ Downs(c, e) = Downs(u, e) \cup {Len(u) + i : i \in Downs(d, e)}
  BY <1>1, CatEvents
<1>6. Ups(c, e) = At(eu, e) /\ (Downs(c, e) = {} <=> At(ed, e) = {})
  BY <1>2, <1>5
<1> QED
  BY <1>1, <1>3, <1>4, <1>6 DEF c

\* The first batch brings exactly the entries of the file.
LEMMA LeadsStart ==
  ASSUME NEW entries \in Seq(ConfigEntry), IsInjective(entries), NEW e
  PROVE  LeadsFor(ToEvents(entries, TRUE), {}, ToSet(entries), e)
<1> DEFINE b == ToEvents(entries, TRUE)
           U == At(entries, e)
           P == ToSet(entries)
<1>1. Ups(b, e) = U /\ Downs(b, e) = {}
  BY ToEventsAt
<1>2. e \notin P <=> U = {}
  BY AtProperties
<1>3. U = {} \/ \E a \in Nat : U = {a}
  <2>1. e \in P => \E a : U = {a}
    BY AtProperties
  <2>2. Len(entries) \in Nat
    BY LenProperties
  <2> QED
    BY <1>2, <2>1, <2>2 DEF At
<1> HIDE DEF b, U, P
<1>4. Parted(U, {})
  BY <1>3 DEF Parted
<1>5. Followed({}, U) /\ (U = {} => Followed(U, {}))
  BY DEF Followed
<1>6. LeadsFor(b, {}, P, e)
  BY <1>1, <1>2, <1>4, <1>5 DEF LeadsFor
<1> QED
  BY <1>6 DEF b, P

-----------------------------------------------------------------------------
(***************************************************************************)
(* The routes.                                                             *)
(***************************************************************************)

\* Routed, for a table of routes.
RoutedIn(table) ==
  UNION {{[host |-> h, target |-> t] : t \in ToSet(table[h])} : h \in Hostname}

\* An entry is routed when its host name has its target.
LEMMA RoutedEntry ==
  ASSUME NEW table \in [Hostname -> Seq(Target)]
  PROVE  /\ RoutedIn(table) \subseteq ConfigEntry
         /\ \A e \in ConfigEntry :
              e \in RoutedIn(table) <=> e.target \in ToSet(table[e.host])
<1>1. \A h \in Hostname : ToSet(table[h]) \subseteq Target
  BY ToSetIndex
<1>2. RoutedIn(table) \subseteq ConfigEntry
  BY <1>1 DEF RoutedIn, ConfigEntry
<1>3. ASSUME NEW e \in ConfigEntry, e \in RoutedIn(table)
      PROVE  e.target \in ToSet(table[e.host])
  <2>1. PICK h \in Hostname : \E t \in ToSet(table[h]) : e = [host |-> h, target |-> t]
    BY <1>3 DEF RoutedIn
  <2>2. e.host = h /\ e.target \in ToSet(table[h])
    BY <2>1
  <2> QED
    BY <2>2
<1>4. ASSUME NEW e \in ConfigEntry, e.target \in ToSet(table[e.host])
      PROVE  e \in RoutedIn(table)
  <2>1. e = [host |-> e.host, target |-> e.target] /\ e.host \in Hostname
    BY DEF ConfigEntry
  <2> QED
    BY <1>4, <2>1 DEF RoutedIn
<1> QED
  BY <1>2, <1>3, <1>4

\* One host name gets another list of targets.
LEMMA RoutedUpdate ==
  ASSUME NEW table \in [Hostname -> Seq(Target)], NEW x \in ConfigEntry,
         NEW s \in Seq(Target), NEW e \in ConfigEntry,
         ToSet(s) \cup {x.target} = ToSet(table[x.host]) \cup {x.target}
  PROVE  LET new == [table EXCEPT ![x.host] = s]
         IN  /\ e # x => (e \in RoutedIn(new) <=> e \in RoutedIn(table))
             /\ x \in RoutedIn(new) <=> x.target \in ToSet(s)
<1> DEFINE new == [table EXCEPT ![x.host] = s]
<1>1. x.host \in Hostname /\ e.host \in Hostname
  BY DEF ConfigEntry
<1>2. /\ new \in [Hostname -> Seq(Target)]
      /\ new[x.host] = s
      /\ e.host # x.host => new[e.host] = table[e.host]
  BY <1>1
<1> HIDE DEF new
<1>3. /\ e \in RoutedIn(new) <=> e.target \in ToSet(new[e.host])
      /\ x \in RoutedIn(new) <=> x.target \in ToSet(new[x.host])
      /\ e \in RoutedIn(table) <=> e.target \in ToSet(table[e.host])
  BY <1>2, RoutedEntry
<1>4. e # x => e.host # x.host \/ e.target # x.target
  BY DEF ConfigEntry
<1>5. e # x => (e \in RoutedIn(new) <=> e \in RoutedIn(table))
  <2>1. CASE e.host # x.host
    BY <1>2, <1>3, <2>1
  <2>2. CASE e.host = x.host /\ e.target # x.target
    BY <1>2, <1>3, <2>2
  <2> QED
    BY <1>4, <2>1, <2>2
<1> QED
  BY <1>2, <1>3, <1>5 DEF new

-----------------------------------------------------------------------------
(***************************************************************************)
(* The events on their way, as one sequence.                               *)
(***************************************************************************)
Changes(sd) == [i \in DOMAIN sd |-> sd[i].changes]

Flight(b, ev, sd) == Cat(Cat(b, FlattenSeq(ev)), FlattenSeq(Changes(sd)))

\* The batches of the senders.
LEMMA ChangesType ==
  ASSUME NEW sd \in Seq(Sender)
  PROVE  /\ Changes(sd) \in Seq(Seq(ConfigEvent))
         /\ Len(Changes(sd)) = Len(sd)
         /\ \A i \in 1..Len(sd) : Changes(sd)[i] = sd[i].changes
<1>1. /\ Len(sd) \in Nat /\ DOMAIN sd = 1..Len(sd)
      /\ \A i \in 1..Len(sd) : sd[i] \in Sender
  BY ElementOfSeq, LenProperties
<1>2. \A i \in 1..Len(sd) : sd[i].changes \in Seq(ConfigEvent)
  BY <1>1 DEF Sender
<1>3. Changes(sd) \in [1..Len(sd) -> Seq(ConfigEvent)]
  BY <1>1, <1>2 DEF Changes
<1>4. Changes(sd) \in Seq(Seq(ConfigEvent))
  BY <1>1, <1>3, IsASeq
<1> QED
  BY <1>1, <1>3, <1>4, LenProperties DEF Changes

\* With at most one sender, its batch is the last.
LEMMA FlightParts ==
  ASSUME NEW b \in Seq(ConfigEvent), NEW ev \in Seq(Seq(ConfigEvent)),
         NEW sd \in Seq(Sender)
  PROVE  /\ FlattenSeq(ev) \in Seq(ConfigEvent)
         /\ Flight(b, ev, sd) \in Seq(ConfigEvent)
         /\ sd = <<>> => Flight(b, ev, sd) = Cat(b, FlattenSeq(ev))
         /\ Len(sd) = 1 => Flight(b, ev, sd) = Cat(Cat(b, FlattenSeq(ev)), sd[1].changes)
<1> DEFINE ss == Changes(sd)
           c == FlattenSeq(ev)
<1>1. ss \in Seq(Seq(ConfigEvent)) /\ Len(ss) = Len(sd)
  BY ChangesType
<1>2. c \in Seq(ConfigEvent) /\ FlattenSeq(ss) \in Seq(ConfigEvent)
  BY <1>1, FlattenSeqType
<1>3. /\ \A s, t \in Seq(ConfigEvent) : Cat(s, t) \in Seq(ConfigEvent)
      /\ \A s \in Seq(ConfigEvent) : Cat(s, <<>>) = s
  BY CatLaws
<1>4. FlattenSeq(<<>>) = <<>>
  BY EmptySeq DEF FlattenSeq
<1>5. sd = <<>> => FlattenSeq(ss) = <<>>
  BY <1>1, <1>4, EmptySeq
<1>6. ASSUME Len(sd) = 1
      PROVE  FlattenSeq(ss) = sd[1].changes
  <2>1. ss[1] = sd[1].changes
    <3>1. 1 \in 1..Len(sd)
      BY <1>6
    <3>2. \A i \in 1..Len(sd) : ss[i] = sd[i].changes
      BY ChangesType
    <3> QED
      BY <3>1, <3>2
  <2> HIDE DEF ss
  <2>2. ss # <<>>
    <3>1. Len(ss) # 0
      BY <1>1, <1>6
    <3>2. Len(<<>>) = 0
      OBVIOUS
    <3> QED
      BY <3>1, <3>2, Zenon
  <2>3. Head(ss) = ss[1] /\ Tail(ss) \in Seq(Seq(ConfigEvent)) /\ Len(Tail(ss)) = 0
    BY <1>1, <1>6, <2>2, HeadTailProperties
  <2>4. Tail(ss) = <<>>
    BY <2>3, EmptySeq
  <2>5. FlattenSeq(ss) = Cat(Head(ss), FlattenSeq(Tail(ss)))
    BY <1>1, <2>2, FlattenSeqTail
  <2>6. Head(ss) \in Seq(ConfigEvent)
    BY <1>1, <2>2, HeadTailProperties
  <2>7. FlattenSeq(ss) = Head(ss)
    BY <1>3, <1>4, <2>4, <2>5, <2>6
  <2> QED
    BY <2>1, <2>3, <2>7
<1> HIDE DEF ss, c
<1> QED
  BY <1>2, <1>3, <1>5, <1>6 DEF Flight, ss, c

\* Listen moves the first batch.
LEMMA FlightListen ==
  ASSUME NEW ev \in Seq(Seq(ConfigEvent)), ev # <<>>, NEW sd
  PROVE  Flight(Head(ev), Tail(ev), sd) = Flight(<<>>, ev, sd)
<1>1. /\ FlattenSeq(ev) = Cat(Head(ev), FlattenSeq(Tail(ev)))
      /\ FlattenSeq(ev) \in Seq(ConfigEvent)
  BY FlattenSeqTail, FlattenSeqType
<1>2. Cat(<<>>, FlattenSeq(ev)) = FlattenSeq(ev)
  BY <1>1, CatLaws
<1> QED
  BY <1>1, <1>2 DEF Flight

\* ProcessEvent takes the first event.
LEMMA FlightProcess ==
  ASSUME NEW b \in Seq(ConfigEvent), b # <<>>,
         NEW ev \in Seq(Seq(ConfigEvent)), NEW sd \in Seq(Sender)
  PROVE  Flight(b, ev, sd) = Cat(<<Head(b)>>, Flight(Tail(b), ev, sd))
<1> DEFINE x == <<Head(b)>>
           r == Tail(b)
           c == FlattenSeq(ev)
           d == FlattenSeq(Changes(sd))
<1>1. Head(b) \in ConfigEvent /\ r \in Seq(ConfigEvent)
  BY HeadTailProperties
<1>2. x \in Seq(ConfigEvent)
  BY <1>1, OneEvent
<1>3. b = Cat(x, r)
  BY <1>1 DEF Cat
<1>4. c \in Seq(ConfigEvent) /\ d \in Seq(ConfigEvent)
  BY FlattenSeqType, ChangesType
<1>5. /\ \A s, t \in Seq(ConfigEvent) : Cat(s, t) \in Seq(ConfigEvent)
      /\ \A s, t, u \in Seq(ConfigEvent) : Cat(Cat(s, t), u) = Cat(s, Cat(t, u))
  BY CatLaws
<1>6. Flight(b, ev, sd) = Cat(Cat(b, c), d) /\ Flight(r, ev, sd) = Cat(Cat(r, c), d)
  BY DEF Flight
<1> HIDE DEF x, r, c, d
<1>7. Cat(Cat(b, c), d) = Cat(x, Cat(Cat(r, c), d))
  BY <1>1, <1>2, <1>3, <1>4, <1>5
<1> QED
  BY <1>6, <1>7 DEF x, r

\* The only sender reaches the channel.
LEMMA FlightSend ==
  ASSUME NEW b \in Seq(ConfigEvent), NEW ev \in Seq(Seq(ConfigEvent)),
         NEW sd \in Seq(Sender), Len(sd) = 1
  PROVE  Flight(b, Append(ev, sd[1].changes), <<>>) = Flight(b, ev, sd)
<1> DEFINE c == FlattenSeq(ev)
           d == sd[1].changes
           ev2 == Append(ev, d)
<1>1. d \in Seq(ConfigEvent)
  <2>1. 1 \in 1..Len(sd)
    OBVIOUS
  <2>2. sd[1] \in Sender
    BY <2>1, ElementOfSeq
  <2> QED
    BY <2>2 DEF Sender
<1>2. ev2 \in Seq(Seq(ConfigEvent)) /\ FlattenSeq(ev2) = Cat(c, d)
  BY <1>1, AppendProperties, FlattenSeqAppend
<1>3. c \in Seq(ConfigEvent) /\ Flight(b, ev, sd) = Cat(Cat(b, c), d)
  BY FlightParts
<1> HIDE DEF c, d, ev2
<1>4. Flight(b, ev2, <<>>) = Cat(b, Cat(c, d))
  <2> DEFINE none == <<>>
  <2>1. none \in Seq(Sender) /\ none = <<>>
    OBVIOUS
  <2> HIDE DEF none
  <2>2. Flight(b, ev2, none) = Cat(b, FlattenSeq(ev2))
    BY <1>2, <2>1, FlightParts
  <2> QED
    BY <1>2, <2>1, <2>2
<1>5. \A s, t, u \in Seq(ConfigEvent) : Cat(Cat(s, t), u) = Cat(s, Cat(t, u))
  BY CatLaws
<1> QED
  BY <1>1, <1>3, <1>4, <1>5 DEF ev2, d

-----------------------------------------------------------------------------
(***************************************************************************)
(* The goroutines.  With Prompt at most one update reads or applies at a   *)
(* time, and then no sender is on its way to the channel.                  *)
(***************************************************************************)
Busy(k) == update[k].pc \in {"read", "apply"}

PromptInv ==
  /\ \A k \in 1..MaxUpdates : k > modCounter => update[k].pc = "none"
  /\ \A i \in 1..Len(senders) :
       senders[i].by <= modCounter /\ update[senders[i].by].pc = "none"
  /\ Len(senders) <= 1
  /\ \A k \in 1..MaxUpdates : Busy(k) => senders = <<>>
  /\ \A j, k \in 1..MaxUpdates : Busy(j) /\ Busy(k) => j = k

\* A sender carries the number of its update.
LEMMA SenderFields ==
  ASSUME NEW sd \in Seq(Sender)
  PROVE  /\ DOMAIN sd = 1..Len(sd) /\ Len(sd) \in Nat
         /\ \A i \in 1..Len(sd) : sd[i].by \in 1..MaxUpdates
<1>1. DOMAIN sd = 1..Len(sd) /\ Len(sd) \in Nat
  BY LenProperties
<1>2. \A i \in 1..Len(sd) : sd[i] \in Sender
  BY ElementOfSeq
<1>3. \A x \in Sender : x.by \in 1..MaxUpdates
  BY DEF Sender
<1> QED
  BY <1>1, <1>2, <1>3

\* Update k wakes as the newest: nothing else is under way.
LEMMA WakesAlone ==
  ASSUME Prompt, TypeInv, PromptInv, NEW k \in 1..MaxUpdates, UpdateWake(k),
         modCounter = k
  PROVE  /\ senders = <<>>
         /\ \A j \in 1..MaxUpdates : ~Busy(j)
<1>1. /\ update[k].pc = "sleep"
      /\ \A j \in 1..k - 1 : update[j].pc \in {"none", "sleep"}
      /\ \A i \in DOMAIN senders : senders[i].by >= k
  BY DEF UpdateWake, Ripe
<1>2. /\ senders \in Seq(Sender) /\ MaxUpdates \in Int
  BY EditAssumption DEF TypeInv, DataInv, MaxUpdates
<1>3. /\ DOMAIN senders = 1..Len(senders) /\ Len(senders) \in Nat
      /\ \A i \in 1..Len(senders) : senders[i].by \in 1..MaxUpdates
  BY <1>2, SenderFields
<1>4. ASSUME NEW i \in 1..Len(senders)
      PROVE  FALSE
  <2>1. senders[i].by >= k /\ senders[i].by <= k /\ senders[i].by \in Int
    BY <1>1, <1>3 DEF PromptInv
  <2>2. senders[i].by = k
    BY <1>2, <2>1
  <2>3. update[senders[i].by].pc = "none"
    BY DEF PromptInv
  <2> QED
    BY <1>1, <2>2, <2>3
<1>5. Len(senders) = 0
  BY <1>3, <1>4
<1>6. senders = <<>>
  BY <1>2, <1>5, EmptySeq
<1>7. ASSUME NEW j \in 1..MaxUpdates
      PROVE  ~Busy(j)
  <2>1. CASE j < k
    <3>1. j \in 1..k - 1
      BY <1>2, <2>1
    <3> QED
      BY <1>1, <3>1 DEF Busy
  <2>2. CASE j = k
    BY <1>1, <2>2 DEF Busy
  <2>3. CASE j > k
    BY <2>3 DEF PromptInv, Busy
  <2> QED
    BY <1>2, <2>1, <2>2, <2>3
<1> QED
  BY <1>6, <1>7

\* Every step keeps the goroutines in that order.
LEMMA PromptStep ==
  ASSUME Prompt, TypeInv, PromptInv, [Next]_vars
  PROVE  PromptInv'
<1>a. MaxUpdates \in Int
  BY EditAssumption DEF MaxUpdates
<1>b. /\ update \in [1..MaxUpdates -> Update] /\ senders \in Seq(Sender)
      /\ modCounter \in Nat
  BY DEF TypeInv, CountInv, DataInv
<1>c. /\ Len(senders) \in Nat
      /\ \A i \in 1..Len(senders) : senders[i].by \in 1..MaxUpdates
  BY <1>b, SenderFields
<1>1. ASSUME UNCHANGED <<modCounter, update, senders>>
      PROVE  PromptInv'
  BY <1>1 DEF PromptInv, Busy
<1>2. CASE EditStep
  BY <1>1, <1>2 DEF EditStep, Write, Replace, Unlink, Create, Edit, updateVars
<1>3. CASE Start
  BY <1>1, <1>3 DEF Start, StartRead, StartWatch, StartWatchFails, updateVars
<1>4. CASE WatchLoop
  BY <1>1, <1>4 DEF WatchLoop, ReceiveFileEvent, AddWatch, updateVars
<1>5. CASE Server
  BY <1>1, <1>5 DEF Server, Listen, ProcessEvent, updateVars
<1>6. CASE UNCHANGED vars
  BY <1>1, <1>6 DEF vars, updateVars
<1>7. CASE UpdateStart
  <2>1. modCounter + 1 \in 1..MaxUpdates
    BY <1>7, UpdateStartBound DEF TypeInv
  <2>2. modCounter' = modCounter + 1 /\ senders' = senders
    BY <1>7 DEF UpdateStart
  <2>3. /\ update'[modCounter + 1].pc = "sleep"
        /\ \A k \in 1..MaxUpdates : k # modCounter + 1 => update'[k] = update[k]
    BY <1>7, <1>b, <2>1 DEF UpdateStart, Update
  <2>4. ASSUME NEW k \in 1..MaxUpdates, k > modCounter'
        PROVE  update'[k].pc = "none"
    <3>1. k # modCounter + 1 /\ k > modCounter
      BY <1>a, <1>b, <2>2, <2>4
    <3> QED
      BY <2>3, <3>1 DEF PromptInv
  <2>5. ASSUME NEW i \in 1..Len(senders)
        PROVE  senders[i].by <= modCounter' /\ update'[senders[i].by].pc = "none"
    <3>1. /\ senders[i].by <= modCounter /\ update[senders[i].by].pc = "none"
          /\ senders[i].by \in 1..MaxUpdates
      BY <1>c DEF PromptInv
    <3>2. senders[i].by <= modCounter + 1 /\ senders[i].by # modCounter + 1
      BY <1>b, <3>1
    <3> QED
      BY <2>2, <2>3, <3>1, <3>2
  <2>6. \A k \in 1..MaxUpdates : Busy(k)' => Busy(k)
    BY <2>3 DEF Busy
  <2> QED
    BY <2>2, <2>4, <2>5, <2>6 DEF PromptInv
<1>8. ASSUME NEW k \in 1..MaxUpdates, UpdateWake(k)
      PROVE  PromptInv'
  <2>1. modCounter' = modCounter /\ senders' = senders /\ update[k].pc = "sleep"
    BY <1>8 DEF UpdateWake
  <2>2. \A j \in 1..MaxUpdates : j # k => update'[j] = update[j]
    BY <1>8, <1>b DEF UpdateWake
  <2>3. /\ \A j \in 1..MaxUpdates : j > modCounter' => update'[j].pc = "none"
        /\ \A i \in 1..Len(senders) :
             senders[i].by <= modCounter' /\ update'[senders[i].by].pc = "none"
    <3>1. k <= modCounter
      BY <1>a, <1>b, <2>1 DEF PromptInv
    <3>2. \A i \in 1..Len(senders) : senders[i].by # k
      BY <2>1 DEF PromptInv
    <3>3. \A j \in 1..MaxUpdates : j > modCounter => j # k
      BY <1>a, <1>b, <3>1
    <3> QED
      BY <1>c, <2>1, <2>2, <3>2, <3>3 DEF PromptInv
  <2>4. CASE modCounter # k
    <3>1. update'[k].pc = "none"
      BY <1>8, <1>b, <2>4 DEF UpdateWake, Idle
    <3>2. \A j \in 1..MaxUpdates : Busy(j)' => Busy(j)
      BY <2>2, <3>1 DEF Busy
    <3> QED
      BY <2>1, <2>3, <3>2 DEF PromptInv
  <2>5. CASE modCounter = k
    <3>1. senders = <<>> /\ \A j \in 1..MaxUpdates : ~Busy(j)
      BY <1>8, <2>5, WakesAlone
    <3>2. \A j \in 1..MaxUpdates : Busy(j)' => j = k
      BY <2>2, <3>1 DEF Busy
    <3> QED
      BY <2>1, <2>3, <3>1, <3>2 DEF PromptInv
  <2> QED
    BY <2>4, <2>5
<1>9. ASSUME NEW k \in 1..MaxUpdates, UpdateRead(k)
      PROVE  PromptInv'
  <2>1. modCounter' = modCounter /\ senders' = senders /\ update[k].pc = "read"
    BY <1>9 DEF UpdateRead
  <2>2. \A j \in 1..MaxUpdates : j # k => update'[j] = update[j]
    BY <1>9, <1>b DEF UpdateRead
  <2>3. \A j \in 1..MaxUpdates : Busy(j)' => Busy(j)
    BY <2>1, <2>2 DEF Busy
  <2>4. \A j \in 1..MaxUpdates : update[j].pc = "none" => update'[j].pc = "none"
    BY <2>1, <2>2
  <2> QED
    BY <1>c, <2>1, <2>3, <2>4 DEF PromptInv
<1>10. ASSUME NEW k \in 1..MaxUpdates, UpdateApply(k)
       PROVE  PromptInv'
  <2> DEFINE x == [by |-> k,
                   changes |-> ChangeEvents(prevEntries, update[k].entries)]
  <2>1. /\ modCounter' = modCounter /\ senders' = Append(senders, x)
        /\ update[k].pc = "apply"
    BY <1>10 DEF UpdateApply
  <2>2. /\ \A j \in 1..MaxUpdates : j # k => update'[j] = update[j]
        /\ update'[k].pc = "none"
    BY <1>10, <1>b DEF UpdateApply, Idle
  <2>3. x.by = k
    OBVIOUS
  <2> HIDE DEF x
  <2>4. Busy(k) /\ senders = <<>>
    BY <2>1 DEF Busy, PromptInv
  <2>5. Len(senders') = 1 /\ senders'[1] = x
    BY <2>1, <2>4
  <2>6. k <= modCounter
    BY <1>a, <1>b, <2>1 DEF PromptInv
  <2>7. \A j \in 1..MaxUpdates : ~Busy(j)'
    BY <2>2, <2>4 DEF Busy, PromptInv
  <2>8. \A i \in 1..Len(senders') : senders'[i].by = k
    BY <2>3, <2>5
  <2>9. \A j \in 1..MaxUpdates : update[j].pc = "none" => update'[j].pc = "none"
    BY <2>2
  <2>10. Len(senders') <= 1
    BY <2>5
  <2> QED
    BY <2>1, <2>2, <2>6, <2>7, <2>8, <2>9, <2>10 DEF PromptInv
<1>11. ASSUME NEW i \in DOMAIN senders, Send(i)
       PROVE  PromptInv'
  <2>1. i \in 1..Len(senders)
    BY <1>b, LenProperties
  <2>2. modCounter' = modCounter /\ update' = update /\ senders' = RemoveAt(senders, i)
    BY <1>11 DEF Send, updateVars
  <2>3. senders' \in Seq(Sender) /\ Len(senders') = Len(senders) - 1
    BY <1>b, <2>1, <2>2, RemoveAtProperties
  <2>4. Len(senders') = 0
    BY <1>c, <2>1, <2>3 DEF PromptInv
  <2>5. senders' = <<>>
    BY <2>3, <2>4, EmptySeq
  <2>6. \A k \in 1..MaxUpdates : Busy(k)' <=> Busy(k)
    BY <2>2 DEF Busy
  <2>7. 1..Len(senders') = {}
    BY <2>4
  <2>8. Len(senders') <= 1
    BY <2>4
  <2> QED
    BY <2>2, <2>5, <2>6, <2>7, <2>8 DEF PromptInv
<1> QED
  BY <1>2, <1>3, <1>4, <1>5, <1>6, <1>7, <1>8, <1>9, <1>10, <1>11
     DEF Next, Internal, HandleUpdate

\* Until the watch is set up, and when it cannot be, nothing happens.
Quiet ==
  /\ ~watched /\ fileEvents = 0 /\ readd = 0 /\ spawned = 0
  /\ \A k \in 1..MaxUpdates : update[k].pc = "none"
  /\ senders = <<>> /\ events = <<>> /\ batch = <<>>
  /\ \A h \in Hostname : routes[h] = <<>>

QuietInv == phase # "running" => Quiet

\* Every step keeps it so.
LEMMA QuietStep ==
  ASSUME TypeInv, QuietInv, [Next]_vars
  PROVE  QuietInv'
<1> SUFFICES ASSUME phase' # "running"
             PROVE  Quiet'
  BY DEF QuietInv
<1>1. CASE EditStep
  <2>1. Quiet
    BY <1>1 DEF QuietInv, EditStep, Write, Replace, Unlink, Create, Edit
  <2>2. ~watched' /\ fileEvents' = 0
    BY <1>1, <2>1 DEF Quiet, EditStep, Write, Replace, Unlink, Create, LoseInode
  <2>3. UNCHANGED <<readd, updateVars, senders, serverVars>>
    BY <1>1 DEF EditStep, Write, Replace, Unlink, Create, Edit
  <2> QED
    BY <2>1, <2>2, <2>3 DEF Quiet, updateVars, serverVars
<1>2. CASE Start
  <2>1. StartRead \/ StartWatchFails
    BY <1>2 DEF Start, StartWatch
  <2>2. Quiet
    BY <2>1 DEF QuietInv, StartRead, StartWatchFails
  <2>3. UNCHANGED <<watchVars, updateVars, senders, serverVars>>
    BY <2>1 DEF StartRead, StartWatchFails
  <2> QED
    BY <2>2, <2>3 DEF Quiet, watchVars, updateVars, serverVars
<1>3. CASE UNCHANGED vars
  <2>1. Quiet
    BY <1>3 DEF QuietInv, vars
  <2> QED
    BY <1>3, <2>1 DEF Quiet, vars, watchVars, updateVars, serverVars
<1>4. ASSUME phase' = phase
      PROVE  Quiet
  BY <1>4 DEF QuietInv
<1>5. CASE WatchLoop
  BY <1>4, <1>5 DEF WatchLoop, ReceiveFileEvent, AddWatch, Quiet
<1>6. CASE UpdateStart
  <2>1. spawned > 0 /\ phase' = phase
    BY <1>6 DEF UpdateStart
  <2>2. spawned = 0
    BY <1>4, <2>1 DEF Quiet
  <2> QED
    BY <2>1, <2>2
<1>7. ASSUME NEW k \in 1..MaxUpdates, HandleUpdate(k)
      PROVE  FALSE
  <2>1. phase' = phase /\ update[k].pc # "none"
    BY <1>7 DEF HandleUpdate, UpdateWake, UpdateRead, UpdateApply
  <2> QED
    BY <1>4, <2>1 DEF Quiet
<1>8. ASSUME NEW i \in DOMAIN senders, Send(i)
      PROVE  FALSE
  <2>1. phase' = phase
    BY <1>8 DEF Send
  <2>2. senders = <<>>
    BY <1>4, <2>1 DEF Quiet
  <2> QED
    BY <1>8, <2>2
<1>9. CASE Server
  BY <1>4, <1>9 DEF Server, Listen, ProcessEvent, Quiet
<1> QED
  BY <1>1, <1>2, <1>3, <1>5, <1>6, <1>7, <1>8, <1>9 DEF Next, Internal

-----------------------------------------------------------------------------
(***************************************************************************)
(* The events lead to Config.prevEntries.                                  *)
(***************************************************************************)

\* No entry is listed twice, in a file or in the load balancing of a host.
NoDuplicates == \A c \in Contents : Readable(c) => IsInjective(ReadConfig(c))

Distinct ==
  /\ IsInjective(prevEntries)
  /\ \A k \in 1..MaxUpdates :
       update[k].pc = "apply" => IsInjective(update[k].entries)
  /\ \A h \in Hostname : IsInjective(routes[h])

LeadInv == phase = "running" => Leads(InFlight, Routed, ToSet(prevEntries))

FlowInv == Distinct /\ LeadInv

\* The names of the two states' events and routes.
LEMMA FlightNames ==
  /\ InFlight = Flight(batch, events, senders)
  /\ InFlight' = Flight(batch', events', senders')
  /\ Routed = RoutedIn(routes)
  /\ Routed' = RoutedIn(routes')
BY DEF InFlight, Flight, Changes, Cat, Routed, RoutedIn

\* A step that leaves the events, the routes and the entries alone.
LEMMA FlowKept ==
  ASSUME FlowInv, InFlight' = InFlight, routes' = routes,
         prevEntries' = prevEntries,
         phase' # "running" \/ phase' = phase,
         \A k \in 1..MaxUpdates :
           update'[k].pc = "apply" => IsInjective(update'[k].entries)
  PROVE  FlowInv'
<1>1. Distinct'
  BY DEF FlowInv, Distinct
<1>2. Routed' = Routed
  BY DEF Routed
<1>3. LeadInv'
  BY <1>2 DEF FlowInv, LeadInv, Leads, LeadsFor
<1> QED
  BY <1>1, <1>3 DEF FlowInv

\* handleUpdate applies what it read.
LEMMA FlowApply ==
  ASSUME TypeInv, TypeInv', PromptInv, FlowInv, NEW k \in 1..MaxUpdates, UpdateApply(k)
  PROVE  FlowInv'
<1> DEFINE new == update[k].entries
           c == ChangeEvents(prevEntries, new)
           x == [by |-> k, changes |-> c]
           f == InFlight
<1>1. /\ update[k].pc = "apply" /\ senders' = Append(senders, x)
      /\ prevEntries' = new /\ update' = [update EXCEPT ![k] = Idle]
      /\ phase' = phase /\ events' = events /\ batch' = batch /\ routes' = routes
  BY DEF UpdateApply, serverVars
<1>2. /\ update \in [1..MaxUpdates -> Update] /\ prevEntries \in Seq(ConfigEntry)
      /\ batch \in Seq(ConfigEvent) /\ events \in Seq(Seq(ConfigEvent))
      /\ senders \in Seq(Sender) /\ senders' \in Seq(Sender)
  BY DEF TypeInv, DataInv
<1>3. new \in Seq(ConfigEntry)
  BY <1>2 DEF Update
<1>4. c \in Seq(ConfigEvent)
  BY <1>2, <1>3, ChangeEventsParts
<1>5. IsInjective(new)
  BY <1>1 DEF FlowInv, Distinct
<1>6. senders = <<>>
  BY <1>1 DEF PromptInv, Busy
<1>7. x.changes = c
  OBVIOUS
<1> HIDE DEF c, x
<1>8. Len(senders') = 1 /\ senders'[1].changes = c
  BY <1>1, <1>6, <1>7
<1>9. /\ f = Cat(batch, FlattenSeq(events)) /\ f \in Seq(ConfigEvent)
      /\ InFlight' = Cat(Cat(batch, FlattenSeq(events)), c)
  BY <1>1, <1>2, <1>6, <1>8, FlightNames, FlightParts
<1>10. InFlight' = Cat(f, c)
  BY <1>9
<1>11. Distinct'
  <2>1. \A j \in 1..MaxUpdates :
          update'[j].pc = "apply" => IsInjective(update'[j].entries)
    BY <1>1, <1>2 DEF FlowInv, Distinct, Idle
  <2> QED
    BY <1>1, <1>5, <2>1 DEF FlowInv, Distinct
<1>12. LeadInv'
  <2> SUFFICES ASSUME phase' = "running", NEW e \in ConfigEntry
               PROVE  LeadsFor(InFlight', Routed', ToSet(prevEntries'), e)
    BY DEF LeadInv, Leads, LeadsFor
  <2>1. LeadsFor(f, Routed, ToSet(prevEntries), e)
    BY <1>1 DEF FlowInv, LeadInv, Leads
  <2> HIDE DEF f, new
  <2>2. LeadsFor(Cat(f, c), Routed, ToSet(new), e)
    <3>1. /\ e \in ToSet(new) /\ e \notin ToSet(prevEntries)
               => (\E a : Ups(c, e) = {a}) /\ Downs(c, e) = {}
          /\ e \in ToSet(prevEntries) /\ e \notin ToSet(new)
               => Ups(c, e) = {} /\ Downs(c, e) # {}
          /\ (e \in ToSet(prevEntries) <=> e \in ToSet(new))
               => Ups(c, e) = {} /\ Downs(c, e) = {}
      BY <1>2, <1>3, <1>5, ChangesOf DEF c
    <3> QED
      BY <1>4, <1>9, <2>1, <3>1, LeadsApply
  <2>3. Routed' = Routed
    BY <1>1 DEF Routed
  <2> QED
    BY <1>1, <1>10, <2>2, <2>3
<1> QED
  BY <1>11, <1>12 DEF FlowInv

\* ProcessEvent carries out the first event.
LEMMA FlowProcess ==
  ASSUME TypeInv, QuietInv, FlowInv, ProcessEvent
  PROVE  FlowInv'
<1> DEFINE b == Head(batch)
           x == b.entry
           s == routes[x.host]
           g == Flight(Tail(batch), events, senders)
<1>1. /\ batch # <<>> /\ batch' = Tail(batch) /\ events' = events
      /\ senders' = senders /\ prevEntries' = prevEntries /\ update' = update
      /\ phase' = phase
  BY DEF ProcessEvent, updateVars
<1>2. /\ batch \in Seq(ConfigEvent) /\ events \in Seq(Seq(ConfigEvent))
      /\ senders \in Seq(Sender) /\ routes \in [Hostname -> Seq(Target)]
  BY DEF TypeInv, DataInv
<1>3. b \in ConfigEvent /\ Tail(batch) \in Seq(ConfigEvent)
  BY <1>1, <1>2, HeadTailProperties
<1>4. x \in ConfigEntry /\ x.host \in Hostname /\ x.target \in Target
  BY <1>3 DEF ConfigEvent, ConfigEntry
<1>5. s \in Seq(Target) /\ IsInjective(s)
  BY <1>2, <1>4 DEF FlowInv, Distinct
<1>6. InFlight = Cat(<<b>>, g) /\ InFlight' = g /\ g \in Seq(ConfigEvent)
  <2>1. Flight(batch, events, senders) = Cat(<<b>>, g)
    BY <1>1, <1>2, FlightProcess
  <2>2. g \in Seq(ConfigEvent)
    BY <1>2, <1>3, FlightParts
  <2> QED
    BY <1>1, <2>1, <2>2, FlightNames
<1>7. phase = "running"
  BY <1>1 DEF QuietInv, Quiet
<1>8. \A e \in ConfigEntry : LeadsFor(Cat(<<b>>, g), Routed, ToSet(prevEntries), e)
  BY <1>6, <1>7 DEF FlowInv, LeadInv, Leads
<1>9. \/ ~b.up /\ routes' = [routes EXCEPT ![x.host] = RemoveFirst(s, x.target)]
      \/ b.up /\ routes' = [routes EXCEPT ![x.host] = Append(s, x.target)]
      \/ b.up /\ HandlerMayFail(x.target) /\ routes' = routes
  BY MuxRemoveFirst DEF ProcessEvent, Mux!Register, Mux!Unregister
<1>10. /\ Routed = RoutedIn(routes) /\ Routed' = RoutedIn(routes')
       /\ x \in Routed <=> x.target \in ToSet(s)
  BY <1>2, <1>4, FlightNames, RoutedEntry
<1> HIDE DEF b, x, s, g
<1>11. SUFFICES /\ \A h \in Hostname : IsInjective(routes'[h])
                /\ \A e \in ConfigEntry : LeadsFor(g, Routed', ToSet(prevEntries), e)
  <2>1. ASSUME \A h \in Hostname : IsInjective(routes'[h])
        PROVE  Distinct'
    BY <1>1, <2>1 DEF FlowInv, Distinct
  <2>2. ASSUME \A e \in ConfigEntry : LeadsFor(g, Routed', ToSet(prevEntries), e)
        PROVE  LeadInv'
    BY <1>1, <1>6, <2>2 DEF LeadInv, Leads, LeadsFor
  <2> QED
    BY <2>1, <2>2 DEF FlowInv
<1>a. \A h \in Hostname : IsInjective(routes[h])
  BY DEF FlowInv, Distinct
<1>12. CASE ~b.up /\ routes' = [routes EXCEPT ![x.host] = RemoveFirst(s, x.target)]
  <2> DEFINE r == RemoveFirst(s, x.target)
  <2>1. r \in Seq(Target) /\ IsInjective(r) /\ ToSet(r) = ToSet(s) \ {x.target}
    BY <1>5, RemoveFirstProperties, RemoveFirstInjective
  <2>2. routes' = [routes EXCEPT ![x.host] = r]
    BY <1>12
  <2> HIDE DEF r
  <2>3. ToSet(r) \cup {x.target} = ToSet(routes[x.host]) \cup {x.target}
    BY <2>1 DEF s
  <2>4. /\ x \notin Routed'
        /\ \A e \in ConfigEntry : e # x => (e \in Routed' <=> e \in Routed)
    BY <1>2, <1>4, <1>10, <2>1, <2>2, <2>3, RoutedUpdate
  <2>5. \A h \in Hostname : IsInjective(routes'[h])
    BY <1>2, <1>4, <1>a, <2>1, <2>2
  <2>6. ASSUME NEW e \in ConfigEntry
        PROVE  LeadsFor(g, Routed', ToSet(prevEntries), e)
    <3>1. /\ e # b.entry => (e \in Routed' <=> e \in Routed)
          /\ e = b.entry => e \notin Routed'
      BY <2>4 DEF x
    <3> QED
      BY <1>3, <1>6, <1>8, <1>12, <3>1, LeadsProcess
  <2> QED
    BY <2>5, <2>6
<1>13. ASSUME b.up
       PROVE  x \notin Routed
  <2> DEFINE Q == Routed \cup {x}
  <2>1. LeadsFor(Cat(<<b>>, g), Routed, ToSet(prevEntries), x)
    BY <1>4, <1>8
  <2>2. x \in Q /\ x = b.entry
    BY DEF x
  <2> HIDE DEF Q
  <2> QED
    BY <1>3, <1>6, <1>13, <2>1, <2>2, LeadsProcess
<1>14. CASE b.up /\ routes' = [routes EXCEPT ![x.host] = Append(s, x.target)]
  <2> DEFINE r == Append(s, x.target)
  <2>1. x.target \notin ToSet(s)
    BY <1>10, <1>13, <1>14
  <2>2. r \in Seq(Target) /\ IsInjective(r) /\ ToSet(r) = ToSet(s) \cup {x.target}
    BY <1>4, <1>5, <2>1, AppendProperties, AppendNew
  <2>3. routes' = [routes EXCEPT ![x.host] = r]
    BY <1>14
  <2> HIDE DEF r
  <2>4. ToSet(r) \cup {x.target} = ToSet(routes[x.host]) \cup {x.target}
    BY <2>2 DEF s
  <2>5. /\ x \in Routed'
        /\ \A e \in ConfigEntry : e # x => (e \in Routed' <=> e \in Routed)
    BY <1>2, <1>4, <1>10, <2>2, <2>3, <2>4, RoutedUpdate
  <2>6. \A h \in Hostname : IsInjective(routes'[h])
    BY <1>2, <1>4, <1>a, <2>2, <2>3
  <2>7. ASSUME NEW e \in ConfigEntry
        PROVE  LeadsFor(g, Routed', ToSet(prevEntries), e)
    <3>1. /\ e # b.entry => (e \in Routed' <=> e \in Routed)
          /\ e = b.entry => e \in Routed'
      BY <2>5 DEF x
    <3> QED
      BY <1>3, <1>6, <1>8, <1>14, <3>1, LeadsProcess
  <2> QED
    BY <2>6, <2>7
<1>15. CASE b.up /\ HandlerMayFail(x.target) /\ routes' = routes
  <2>1. Routed' = Routed
    BY <1>10, <1>15
  <2>2. \A h \in Hostname : IsInjective(routes'[h])
    BY <1>a, <1>15
  <2>3. ASSUME NEW e \in ConfigEntry
        PROVE  LeadsFor(g, Routed', ToSet(prevEntries), e)
    <3>1. e = b.entry => HandlerMayFail(e.target)
      BY <1>15 DEF x
    <3>2. LeadsFor(g, Routed, ToSet(prevEntries), e)
      BY <1>3, <1>6, <1>8, <1>15, <3>1, LeadsProcess
    <3> QED
      BY <2>1, <3>2
  <2> QED
    BY <2>2, <2>3
<1> QED
  BY <1>9, <1>12, <1>14, <1>15

\* The first batch, when the watch is set up.
LEMMA FlowStart ==
  ASSUME TypeInv, QuietInv, FlowInv, StartWatch
  PROVE  FlowInv'
<1> DEFINE b == ToEvents(prevEntries, TRUE)
           P == ToSet(prevEntries)
<1>1. /\ events' = <<b>> /\ batch' = batch /\ senders' = senders
      /\ routes' = routes /\ prevEntries' = prevEntries /\ update' = update
      /\ phase = "watch"
  BY DEF StartWatch, updateVars
<1>2. Quiet
  BY <1>1 DEF QuietInv
<1>3. batch = <<>> /\ senders = <<>> /\ \A h \in Hostname : routes[h] = <<>>
  BY <1>2 DEF Quiet
<1>4. /\ prevEntries \in Seq(ConfigEntry) /\ IsInjective(prevEntries)
  BY DEF TypeInv, DataInv, FlowInv, Distinct
<1>5. b \in Seq(ConfigEvent)
  BY <1>4, ToEventsProperties
<1>6. \A e \in ConfigEntry : LeadsFor(b, {}, P, e)
  BY <1>4, LeadsStart
<1> HIDE DEF b
<1>7. InFlight' = b
  <2> DEFINE none == <<>>
             ev == <<b>>
  <2>1. /\ none \in Seq(Sender) /\ none = <<>> /\ none \in Seq(ConfigEvent)
        /\ ev \in Seq(Seq(ConfigEvent)) /\ ev # <<>>
        /\ Head(ev) = b /\ Tail(ev) = <<>>
    BY <1>5
  <2>2. InFlight' = Flight(none, ev, none)
    BY <1>1, <1>3, FlightNames
  <2> HIDE DEF none, ev
  <2>3. /\ FlattenSeq(ev) \in Seq(ConfigEvent)
        /\ Flight(none, ev, none) = Cat(none, FlattenSeq(ev))
    BY <2>1, FlightParts
  <2>4. FlattenSeq(ev) = Cat(b, FlattenSeq(Tail(ev)))
    BY <2>1, FlattenSeqTail
  <2>5. FlattenSeq(<<>>) = <<>>
    BY EmptySeq DEF FlattenSeq
  <2>6. \A t \in Seq(ConfigEvent) : Cat(t, <<>>) = t /\ Cat(<<>>, t) = t
    BY CatLaws
  <2>7. FlattenSeq(ev) = b
    BY <1>5, <2>1, <2>4, <2>5, <2>6
  <2> QED
    BY <1>5, <2>1, <2>2, <2>3, <2>6, <2>7
<1>8. Routed' = {}
  <2>1. ToSet(<<>>) = {}
    BY DEF ToSet
  <2>2. \A h \in Hostname : ToSet(routes'[h]) = {}
    BY <1>1, <1>3, <2>1
  <2> QED
    BY <2>2 DEF Routed
<1>9. LeadInv'
  BY <1>1, <1>6, <1>7, <1>8 DEF LeadInv, Leads, LeadsFor
<1>10. Distinct'
  BY <1>1 DEF FlowInv, Distinct
<1> QED
  BY <1>9, <1>10 DEF FlowInv

\* The one index of a sequence that has at most one element.
LEMMA OnlyOne ==
  \A n \in Nat : n <= 1 => \A i \in 1..n : i = 1 /\ n = 1
  OBVIOUS

\* Every step of the specification.
LEMMA FlowStep ==
  ASSUME NoDuplicates, TypeInv, TypeInv', QuietInv, PromptInv, FlowInv,
         [Next]_vars
  PROVE  FlowInv'
<1>a. /\ update \in [1..MaxUpdates -> Update] /\ senders \in Seq(Sender)
      /\ events \in Seq(Seq(ConfigEvent)) /\ batch \in Seq(ConfigEvent)
  BY DEF TypeInv, DataInv
<1>b. \A k \in 1..MaxUpdates : update[k].pc = "apply" => IsInjective(update[k].entries)
  BY DEF FlowInv, Distinct
<1>c. CanRead(file) => IsInjective(ReadConfig(file))
  BY DEF NoDuplicates, CanRead, TypeInv, WatchInv
<1>1. ASSUME UNCHANGED <<batch, events, senders>>
      PROVE  InFlight' = InFlight
  BY <1>1 DEF InFlight
<1>2. ASSUME UNCHANGED <<phase, prevEntries, batch, events, senders, routes>>,
             \A k \in 1..MaxUpdates :
               update'[k].pc = "apply" => IsInjective(update'[k].entries)
      PROVE  FlowInv'
  BY <1>1, <1>2, FlowKept
<1>3. ASSUME UNCHANGED <<phase, prevEntries, batch, events, senders, routes, update>>
      PROVE  FlowInv'
  BY <1>2, <1>3, <1>b
<1>4. CASE EditStep
  BY <1>3, <1>4 DEF EditStep, Write, Replace, Unlink, Create, Edit, updateVars,
       serverVars
<1>5. CASE StartRead
  <2>1. /\ phase' # "running" /\ UNCHANGED <<batch, events, senders, routes, update>>
        /\ IsInjective(prevEntries')
    BY <1>5, <1>c DEF StartRead, updateVars, serverVars, FlowInv, Distinct
  <2> QED
    BY <2>1 DEF FlowInv, Distinct, LeadInv
<1>6. CASE StartWatchFails
  <2>1. /\ phase' # "running"
        /\ UNCHANGED <<prevEntries, batch, events, senders, routes, update>>
    BY <1>6 DEF StartWatchFails, updateVars, serverVars
  <2> QED
    BY <2>1 DEF FlowInv, Distinct, LeadInv
<1>7. CASE StartWatch
  BY <1>7, FlowStart
<1>8. CASE WatchLoop
  BY <1>3, <1>8 DEF WatchLoop, ReceiveFileEvent, AddWatch, updateVars, serverVars
<1>9. CASE UpdateStart
  <2>1. modCounter + 1 \in 1..MaxUpdates
    BY <1>9, UpdateStartBound DEF TypeInv
  <2>2. update' = [update EXCEPT ![modCounter + 1].pc = "sleep"]
    BY <1>9 DEF UpdateStart
  <2>3. /\ update'[modCounter + 1].pc = "sleep"
        /\ \A k \in 1..MaxUpdates : k # modCounter + 1 => update'[k] = update[k]
    BY <1>a, <2>1, <2>2 DEF Update
  <2>4. \A k \in 1..MaxUpdates :
          update'[k].pc = "apply" => IsInjective(update'[k].entries)
    BY <1>b, <2>3
  <2> QED
    BY <1>2, <1>9, <2>4 DEF UpdateStart, serverVars
<1>10. ASSUME NEW k \in 1..MaxUpdates, UpdateWake(k)
       PROVE  FlowInv'
  <2>1. /\ update'[k].pc # "apply"
        /\ \A j \in 1..MaxUpdates : j # k => update'[j] = update[j]
    BY <1>10, <1>a DEF UpdateWake, Idle, Update
  <2>2. \A j \in 1..MaxUpdates :
          update'[j].pc = "apply" => IsInjective(update'[j].entries)
    BY <1>b, <2>1
  <2> QED
    BY <1>2, <1>10, <2>2 DEF UpdateWake, serverVars
<1>11. ASSUME NEW k \in 1..MaxUpdates, UpdateRead(k)
       PROVE  FlowInv'
  <2>1. /\ update'[k].pc = "apply" => IsInjective(update'[k].entries)
        /\ \A j \in 1..MaxUpdates : j # k => update'[j] = update[j]
    BY <1>11, <1>a, <1>c DEF UpdateRead, Idle
  <2>2. \A j \in 1..MaxUpdates :
          update'[j].pc = "apply" => IsInjective(update'[j].entries)
    BY <1>b, <2>1
  <2> QED
    BY <1>2, <1>11, <2>2 DEF UpdateRead, serverVars
<1>12. ASSUME NEW k \in 1..MaxUpdates, UpdateApply(k)
       PROVE  FlowInv'
  BY <1>12, FlowApply
<1>13. ASSUME NEW i \in DOMAIN senders, Send(i)
       PROVE  FlowInv'
  <2>1. /\ i \in 1..Len(senders) /\ Len(senders) \in Nat
        /\ events' = Append(events, senders[i].changes)
        /\ senders' = RemoveAt(senders, i)
        /\ UNCHANGED <<phase, prevEntries, batch, routes, update>>
    BY <1>a, <1>13, LenProperties DEF Send, updateVars
  <2>2. i = 1 /\ Len(senders) = 1
    <3>1. Len(senders) <= 1
      BY DEF PromptInv
    <3> QED
      BY <2>1, <3>1, OnlyOne
  <2>3. senders' \in Seq(Sender) /\ Len(senders') = Len(senders) - 1
    BY <1>a, <2>1, RemoveAtProperties
  <2>4. Len(senders') = 0
    BY <2>2, <2>3
  <2>5. senders' = <<>>
    BY <2>3, <2>4, EmptySeq
  <2>6. Flight(batch, Append(events, senders[1].changes), <<>>)
          = Flight(batch, events, senders)
    BY <1>a, <2>2, FlightSend
  <2>7. InFlight' = InFlight
    BY <2>1, <2>2, <2>5, <2>6, FlightNames
  <2> QED
    BY <1>b, <2>1, <2>7, FlowKept
<1>14. CASE Listen
  <2>1. /\ batch = <<>> /\ events # <<>> /\ batch' = Head(events)
        /\ events' = Tail(events)
        /\ UNCHANGED <<phase, prevEntries, senders, routes, update>>
    BY <1>14 DEF Listen, updateVars
  <2>2. Flight(Head(events), Tail(events), senders) = Flight(<<>>, events, senders)
    BY <1>a, <2>1, FlightListen
  <2>3. InFlight' = InFlight
    BY <2>1, <2>2, FlightNames
  <2> QED
    BY <1>b, <2>1, <2>3, FlowKept
<1>15. CASE ProcessEvent
  BY <1>15, FlowProcess
<1>16. CASE UNCHANGED vars
  BY <1>3, <1>16 DEF vars, updateVars, serverVars
<1> QED
  BY <1>4, <1>5, <1>6, <1>7, <1>8, <1>9, <1>10, <1>11, <1>12, <1>13, <1>14,
     <1>15, <1>16 DEF Next, Internal, Start, HandleUpdate, Server

\* The inductive invariant of the reload.
ReloadInv == TypeInv /\ QuietInv /\ PromptInv /\ FlowInv

\* It holds in every state, when the updates are prompt and no file lists an
\* entry twice.
LEMMA ReloadInvariant ==
  ASSUME Prompt, NoDuplicates
  PROVE  Spec => []ReloadInv
<1>1. Init => ReloadInv
  <2> SUFFICES ASSUME Init, TypeInv
               PROVE  QuietInv /\ PromptInv /\ FlowInv
    BY InitTypeInv DEF ReloadInv
  <2>1. /\ \A k \in 1..MaxUpdates : update[k].pc = "none"
        /\ senders = <<>> /\ prevEntries = <<>> /\ phase = "read"
        /\ \A h \in Hostname : routes[h] = <<>>
    BY DEF Init, Idle
  <2>2. QuietInv
    BY <2>1 DEF Init, QuietInv, Quiet
  <2>3. PromptInv
    <3>1. 1..Len(senders) = {} /\ Len(senders) <= 1
      BY <2>1
    <3> QED
      BY <2>1, <3>1 DEF PromptInv, Busy
  <2>4. FlowInv
    <3>1. IsInjective(<<>>)
      BY DEF IsInjective
    <3> QED
      BY <2>1, <3>1 DEF FlowInv, Distinct, LeadInv
  <2> QED
    BY <2>2, <2>3, <2>4
<1>2. ReloadInv /\ [Next]_vars => ReloadInv'
  <2> SUFFICES ASSUME ReloadInv, [Next]_vars
               PROVE  ReloadInv'
    OBVIOUS
  <2>1. TypeInv /\ QuietInv /\ PromptInv /\ FlowInv
    BY DEF ReloadInv
  <2>2. TypeInv'
    BY <2>1, CountStep, WatchStep, DataStep DEF TypeInv
  <2>3. QuietInv'
    BY <2>1, QuietStep
  <2>4. PromptInv'
    BY <2>1, PromptStep
  <2>5. FlowInv'
    BY <2>1, <2>2, FlowStep
  <2> QED
    BY <2>2, <2>3, <2>4, <2>5 DEF ReloadInv
<1> QED
  BY <1>1, <1>2, PTL DEF Spec

\* If the events bring or take away the entry e, one of them is the last.
LEMMA LastEvent ==
  ASSUME NEW f \in Seq(ConfigEvent), NEW e, NEW a \in 1..Len(f), f[a].entry = e
  PROVE  \E i \in 1..Len(f) :
           f[i].entry = e /\ \A j \in i + 1..Len(f) : f[j].entry # e
<1> DEFINE N == Len(f)
           I == {i \in 1..N : f[N + 1 - i].entry = e}
<1>1. N \in Nat
  BY LenProperties
<1> HIDE DEF N
<1>2. I # {} /\ I \in SUBSET (Nat \ {0})
  <2>1. N + 1 - a \in 1..N /\ N + 1 - (N + 1 - a) = a
    BY <1>1 DEF N
  <2>2. N + 1 - a \in I
    BY <2>1
  <2>3. I \subseteq 1..N
    OBVIOUS
  <2> HIDE DEF I
  <2> QED
    BY <1>1, <2>2, <2>3
<1>3. PICK m \in I : \A j \in I : m <= j
  BY <1>2, MinProperties
<1> DEFINE i == N + 1 - m
<1>4. i \in 1..N /\ f[i].entry = e /\ m \in 1..N
  BY <1>1
<1>5. ASSUME NEW j \in i + 1..N
      PROVE  f[j].entry # e
  <2>1. N + 1 - j \in 1..N /\ N + 1 - j < m /\ N + 1 - (N + 1 - j) = j
    BY <1>1, <1>4
  <2>2. N + 1 - j \notin I
    <3> DEFINE n == N + 1 - j
    <3>1. n \in Nat /\ n < m /\ m \in Nat
      BY <1>1, <1>4, <2>1
    <3> HIDE DEF n, I
    <3>2. n \notin I
      BY <1>3, <3>1
    <3> QED
      BY <3>2 DEF n
  <2> QED
    BY <2>1, <2>2
<1> HIDE DEF i
<1> QED
  BY <1>4, <1>5 DEF N

\* The last events of e among the events f.
LastOf(f, e) ==
  {i \in DOMAIN f : f[i].entry = e /\ \A j \in i + 1..Len(f) : f[j].entry # e}

\* The invariant is what EventsLeadToPrev says of the last events.
LEMMA LeadsServes ==
  ASSUME ReloadInv, phase = "running"
  PROVE  Serves(Replayed, prevEntries)
<1> DEFINE f == InFlight
           P == ToSet(prevEntries)
<1>1. Replayed = {e \in ConfigEntry :
                    IF LastOf(f, e) = {} THEN e \in Routed
                    ELSE \A i \in LastOf(f, e) : f[i].up}
  BY DEF Replayed, LastOf
<1>2. f \in Seq(ConfigEvent)
  BY FlightNames, FlightParts DEF ReloadInv, TypeInv, DataInv
<1>3. P \subseteq ConfigEntry
  BY ToSetIndex DEF ReloadInv, TypeInv, DataInv
<1>4. \A e \in ConfigEntry : LeadsFor(f, Routed, P, e)
  BY DEF ReloadInv, FlowInv, LeadInv, Leads
<1> HIDE DEF f, P
<1>5. DOMAIN f = 1..Len(f) /\ Len(f) \in Nat
  BY <1>2, LenProperties
<1>6. ASSUME NEW e \in ConfigEntry
      PROVE  /\ e \in Replayed => e \in P
             /\ e \in P => e \in Replayed \/ HandlerMayFail(e.target)
  <2>1. /\ e \notin P => Followed(Ups(f, e), Downs(f, e))
        /\ e \in Routed /\ e \notin P => Downs(f, e) # {}
        /\ e \in P => Followed(Downs(f, e), Ups(f, e))
        /\ e \in P => e \in Routed \/ HandlerMayFail(e.target) \/ Ups(f, e) # {}
    BY <1>4 DEF LeadsFor
  <2>2. CASE \A i \in 1..Len(f) : f[i].entry # e
    <3>1. Ups(f, e) = {} /\ Downs(f, e) = {} /\ LastOf(f, e) = {}
      BY <1>5, <2>2 DEF Ups, Downs, LastOf
    <3> QED
      BY <1>1, <2>1, <3>1
  <2>3. CASE \E i \in 1..Len(f) : f[i].entry = e
    <3>1. PICK i \in 1..Len(f) :
            f[i].entry = e /\ \A j \in i + 1..Len(f) : f[j].entry # e
      BY <1>2, <2>3, LastEvent
    <3>2. i \in LastOf(f, e)
      BY <1>5, <3>1 DEF LastOf
    <3>3. ASSUME NEW j \in LastOf(f, e), NEW k \in 1..Len(f), f[k].entry = e
          PROVE  ~(j < k)
      <4>1. j \in 1..Len(f) /\ \A l \in j + 1..Len(f) : f[l].entry # e
        BY <1>5 DEF LastOf
      <4>2. k \notin j + 1..Len(f)
        BY <3>3, <4>1
      <4> QED
        BY <1>5, <4>1, <4>2
    <3>4. ASSUME e \in Replayed, e \notin P
          PROVE  FALSE
      <4>1. f[i].up
        BY <1>1, <3>2, <3>4
      <4>2. i \in Ups(f, e)
        BY <3>1, <4>1 DEF Ups
      <4>3. PICK k \in Downs(f, e) : i < k
        BY <2>1, <3>4, <4>2 DEF Followed
      <4>4. k \in 1..Len(f) /\ f[k].entry = e
        BY <4>3 DEF Downs
      <4> QED
        BY <3>2, <3>3, <4>3, <4>4
    <3>5. ASSUME e \in P, NEW j \in LastOf(f, e), ~f[j].up
          PROVE  FALSE
      <4>1. j \in Downs(f, e)
        BY <1>5, <3>5 DEF Downs, LastOf
      <4>2. PICK k \in Ups(f, e) : j < k
        BY <2>1, <3>5, <4>1 DEF Followed
      <4>3. k \in 1..Len(f) /\ f[k].entry = e
        BY <4>2 DEF Ups
      <4> QED
        BY <3>3, <4>2, <4>3
    <3> QED
      BY <1>1, <3>2, <3>4, <3>5
  <2> QED
    BY <2>2, <2>3
<1>7. Replayed \subseteq ConfigEntry
  BY <1>1
<1> QED
  BY <1>3, <1>6, <1>7 DEF Serves, P

\* For every set of host names, targets and files, any number of edits and any
\* interleaving in which the second handleUpdate waits outlasts what is under
\* way: the difference an update computes is against the table the server will
\* have.  A file that lists an entry twice would break it: getConfigChange
\* compares entries, not how often they are listed.
THEOREM EventsLead ==
  ASSUME Prompt, NoDuplicates
  PROVE  Spec => []EventsLeadToPrev
<1>1. ReloadInv => EventsLeadToPrev
  BY LeadsServes DEF EventsLeadToPrev
<1> QED
  BY <1>1, ReloadInvariant, PTL

-----------------------------------------------------------------------------
(***************************************************************************)
(* Config.prevEntries follow the file.  While the watch stands, either a   *)
(* reading of the file is still to come, or what was read last is what     *)
(* the file holds.                                                         *)
(***************************************************************************)
Sleeping == modCounter # 0 /\ update[modCounter].pc = "sleep"

\* The newest update will read the file, or a newer one will come.
Coming ==
  \/ fileEvents # 0 \/ spawned # 0 \/ readd # 0
  \/ modCounter # 0 /\ update[modCounter].pc \in {"sleep", "read"}

\* What was read last.
Newest ==
  IF modCounter # 0 /\ update[modCounter].pc = "apply"
  THEN update[modCounter].entries
  ELSE prevEntries

StartedInv ==
  /\ watched => file # Missing
  /\ phase = "watch" => CanRead(file) /\ prevEntries = ReadConfig(file)

\* The update of the event for which the watch is renewed sleeps until then,
\* and an update that is overtaken is overtaken by one that sleeps.
WakeInv ==
  /\ readd <= modCounter + 1
  /\ readd # 0 => spawned # 0 \/ (readd <= modCounter /\ Sleeping)
  /\ \A k \in 1..MaxUpdates : Busy(k) /\ k < modCounter => Sleeping

CurrentInv ==
  phase = "running" /\ watched
    => Coming \/ (CanRead(file) => Newest = ReadConfig(file))

\* The number of the newest update is one of the updates.
LEMMA NewestUpdate ==
  ASSUME CountInv
  PROVE  /\ modCounter # 0 => modCounter \in 1..MaxUpdates
         /\ \A k \in 1..MaxUpdates : k # modCounter => k < modCounter \/ k > modCounter
<1>1. MaxEdits \in Nat
  BY EditAssumption
<1> QED
  BY <1>1 DEF CountInv, MaxUpdates

\* What NewConfig reads is what the file still holds when the watch is set up.
LEMMA StartedStep ==
  ASSUME ~EarlyEdits, TypeInv, QuietInv, StartedInv, [Next]_vars
  PROVE  StartedInv'
<1>1. CASE EditStep
  <2>1. phase' = phase /\ phase # "watch"
    BY <1>1 DEF EditStep, Write, Replace, Unlink, Create, Edit
  <2>2. watched' => file' # Missing
    <3>1. ASSUME NEW c \in Contents, Write(c) \/ Create(c)
          PROVE  file' # Missing
      BY <3>1, EditAssumption DEF Write, Create
    <3>2. ASSUME Unlink \/ \E c \in Contents : Replace(c)
          PROVE  ~watched'
      BY <3>2 DEF Unlink, Replace, LoseInode
    <3> QED
      BY <1>1, <3>1, <3>2 DEF EditStep
  <2> QED
    BY <2>1, <2>2 DEF StartedInv
<1>2. CASE Start
  <2>1. file' = file
    BY <1>2 DEF Start, StartRead, StartWatch, StartWatchFails, envVars
  <2>2. watched' = watched \/ file # Missing
    BY <1>2, Zenon DEF Start, StartRead, StartWatch, StartWatchFails, watchVars
  <2>3. phase' = "watch" => CanRead(file) /\ prevEntries' = ReadConfig(file)
    BY <1>2 DEF Start, StartRead, StartWatch, StartWatchFails
  <2> QED
    BY <2>1, <2>2, <2>3 DEF StartedInv
<1>3. CASE AddWatch
  BY <1>3 DEF AddWatch, StartedInv, envVars
<1>4. ASSUME UNCHANGED <<file, watched, phase, prevEntries>>
      PROVE  StartedInv'
  BY <1>4 DEF StartedInv
<1>5. CASE ReceiveFileEvent
  BY <1>4, <1>5 DEF ReceiveFileEvent, envVars
<1>6. CASE UpdateStart
  BY <1>4, <1>6 DEF UpdateStart, envVars, watchVars
<1>7. ASSUME NEW k \in 1..MaxUpdates, UpdateWake(k) \/ UpdateRead(k)
      PROVE  StartedInv'
  BY <1>4, <1>7 DEF UpdateWake, UpdateRead, envVars, watchVars
<1>8. ASSUME NEW k \in 1..MaxUpdates, UpdateApply(k)
      PROVE  StartedInv'
  <2>1. phase' = "running" /\ UNCHANGED <<file, watched>>
    BY <1>8 DEF UpdateApply, QuietInv, Quiet, envVars, watchVars
  <2> QED
    BY <2>1 DEF StartedInv
<1>9. CASE Server
  BY <1>4, <1>9 DEF Server, Listen, ProcessEvent, envVars, watchVars
<1>10. ASSUME NEW i \in DOMAIN senders, Send(i)
       PROVE  StartedInv'
  BY <1>4, <1>10 DEF Send, envVars, watchVars
<1>11. CASE UNCHANGED vars
  BY <1>4, <1>11 DEF vars, envVars, watchVars
<1> QED
  BY <1>1, <1>2, <1>3, <1>5, <1>6, <1>7, <1>8, <1>9, <1>10, <1>11
     DEF Next, Internal, WatchLoop, HandleUpdate
\* An update that begins is the newest, and one that reads has not been
\* overtaken while it slept.
LEMMA WakeStep ==
  ASSUME Prompt, TypeInv, PromptInv, WakeInv, [Next]_vars
  PROVE  WakeInv'
<1>a. /\ update \in [1..MaxUpdates -> Update]
      /\ modCounter \in Nat /\ spawned \in Nat /\ readd \in Nat
  BY DEF TypeInv, CountInv, DataInv
<1>b. /\ modCounter # 0 => modCounter \in 1..MaxUpdates
      /\ \A k \in 1..MaxUpdates : k # modCounter => k < modCounter \/ k > modCounter
  BY NewestUpdate DEF TypeInv
<1>1. ASSUME UNCHANGED <<readd, spawned, modCounter, update>>
      PROVE  WakeInv'
  BY <1>1 DEF WakeInv, Sleeping, Busy
<1>2. CASE EditStep
  BY <1>1, <1>2 DEF EditStep, Write, Replace, Unlink, Create, Edit, updateVars
<1>3. CASE Start
  BY <1>1, <1>3 DEF Start, StartRead, StartWatch, StartWatchFails, updateVars,
       watchVars
<1>4. CASE ReceiveFileEvent
  <2>1. /\ readd' = modCounter + 1 /\ spawned' = spawned + 1
        /\ modCounter' = modCounter /\ update' = update
    BY <1>4 DEF ReceiveFileEvent
  <2>2. spawned' # 0 /\ readd' <= modCounter' + 1
    BY <1>a, <2>1
  <2> QED
    BY <2>1, <2>2 DEF WakeInv, Sleeping, Busy
<1>5. CASE AddWatch
  <2>1. readd' = 0 /\ modCounter' = modCounter /\ update' = update
    BY <1>5 DEF AddWatch, updateVars
  <2>2. readd' <= modCounter' + 1
    BY <1>a, <2>1
  <2> QED
    BY <2>1, <2>2 DEF WakeInv, Sleeping, Busy
<1>6. CASE UpdateStart
  <2>1. modCounter + 1 \in 1..MaxUpdates
    BY <1>6, UpdateStartBound DEF TypeInv
  <2>2. modCounter' = modCounter + 1 /\ readd' = readd
    BY <1>6 DEF UpdateStart, watchVars
  <2>3. update'[modCounter + 1].pc = "sleep"
    BY <1>6, <1>a, <2>1 DEF UpdateStart, Update
  <2>4. modCounter' # 0 /\ readd' <= modCounter' /\ readd' <= modCounter' + 1
    BY <1>a, <2>2 DEF WakeInv
  <2>5. Sleeping'
    BY <2>2, <2>3, <2>4 DEF Sleeping
  <2> QED
    BY <2>4, <2>5 DEF WakeInv
<1>7. ASSUME NEW k \in 1..MaxUpdates, UpdateWake(k)
      PROVE  WakeInv'
  <2>1. /\ modCounter' = modCounter /\ readd' = readd /\ spawned' = spawned
        /\ update[k].pc = "sleep"
    BY <1>7 DEF UpdateWake, watchVars
  <2>2. \A j \in 1..MaxUpdates : j # k => update'[j] = update[j]
    BY <1>7, <1>a DEF UpdateWake
  <2>3. CASE modCounter # k
    <3>1. update'[k].pc = "none"
      BY <1>7, <1>a, <2>3 DEF UpdateWake, Idle
    <3>2. \A j \in 1..MaxUpdates : Busy(j)' => Busy(j)
      BY <2>2, <3>1 DEF Busy
    <3>3. Sleeping => Sleeping'
      BY <1>b, <2>1, <2>2, <2>3 DEF Sleeping
    <3> QED
      BY <2>1, <3>2, <3>3 DEF WakeInv
  <2>4. CASE modCounter = k
    <3>1. \A j \in 1..MaxUpdates : ~Busy(j)
      BY <1>7, <2>4, WakesAlone
    <3>2. \A j \in 1..MaxUpdates : Busy(j)' => j = k
      BY <2>2, <3>1 DEF Busy
    <3>3. readd # 0 => k < readd
      BY <1>7 DEF UpdateWake, Ripe
    <3>4. readd # 0 => spawned # 0
      <4>1. readd # 0 => ~(readd <= modCounter)
        BY <1>a, <2>4, <3>3
      <4> QED
        BY <4>1 DEF WakeInv
    <3>5. ~(k < modCounter)
      BY <1>a, <2>4
    <3> QED
      BY <2>1, <3>2, <3>4, <3>5 DEF WakeInv
  <2> QED
    BY <2>3, <2>4
<1>8. ASSUME NEW k \in 1..MaxUpdates, UpdateRead(k) \/ UpdateApply(k)
      PROVE  WakeInv'
  <2>1. /\ modCounter' = modCounter /\ readd' = readd /\ spawned' = spawned
        /\ Busy(k)
    BY <1>8 DEF UpdateRead, UpdateApply, Busy, watchVars
  <2>2. \A j \in 1..MaxUpdates : j # k => update'[j] = update[j]
    BY <1>8, <1>a DEF UpdateRead, UpdateApply
  <2>3. \A j \in 1..MaxUpdates : Busy(j)' => Busy(j)
    BY <2>1, <2>2 DEF Busy
  <2>4. Sleeping => Sleeping'
    <3>1. Sleeping => modCounter # k
      BY <2>1 DEF Sleeping, Busy
    <3> QED
      BY <1>b, <2>1, <2>2, <3>1 DEF Sleeping
  <2> QED
    BY <2>1, <2>3, <2>4 DEF WakeInv
<1>9. ASSUME NEW i \in DOMAIN senders, Send(i)
      PROVE  WakeInv'
  BY <1>1, <1>9 DEF Send, updateVars, watchVars
<1>10. CASE Server
  BY <1>1, <1>10 DEF Server, Listen, ProcessEvent, updateVars, watchVars
<1>11. CASE UNCHANGED vars
  BY <1>1, <1>11 DEF vars, updateVars, watchVars
<1> QED
  BY <1>2, <1>3, <1>4, <1>5, <1>6, <1>7, <1>8, <1>9, <1>10, <1>11
     DEF Next, Internal, WatchLoop, HandleUpdate
\* A change of the watched file makes an event; the event an update, the
\* newest, which reads the file unless a newer one comes.
LEMMA CurrentStep ==
  ASSUME Prompt, TypeInv, QuietInv, PromptInv, StartedInv, WakeInv, CurrentInv,
         [Next]_vars
  PROVE  CurrentInv'
<1>a. /\ update \in [1..MaxUpdates -> Update]
      /\ modCounter \in Nat /\ spawned \in Nat /\ fileEvents \in Nat
  BY DEF TypeInv, CountInv, DataInv
<1>b. /\ modCounter # 0 => modCounter \in 1..MaxUpdates
      /\ \A k \in 1..MaxUpdates : k # modCounter => k < modCounter \/ k > modCounter
  BY NewestUpdate DEF TypeInv
<1>1. ASSUME UNCHANGED <<file, watched, phase, fileEvents, readd, spawned,
                         modCounter, update, prevEntries>>
      PROVE  CurrentInv'
  <2>1. Coming' = Coming /\ Newest' = Newest
    BY <1>1 DEF Coming, Newest
  <2> QED
    BY <1>1, <2>1 DEF CurrentInv
<1>2. CASE EditStep
  <2>1. ASSUME NEW c \in Contents, Write(c), watched'
        PROVE  fileEvents' # 0
    <3>1. fileEvents' = fileEvents + 1
      BY <2>1 DEF Write
    <3> QED
      BY <1>a, <3>1
  <2>2. ASSUME Unlink \/ \E c \in Contents : Replace(c) \/ Create(c)
        PROVE  ~watched'
    BY <2>2 DEF Unlink, Replace, Create, LoseInode, StartedInv
  <2> QED
    BY <1>2, <2>1, <2>2 DEF EditStep, CurrentInv, Coming
<1>3. CASE Start
  <2>1. CASE StartRead \/ StartWatchFails
    BY <2>1 DEF StartRead, StartWatchFails, CurrentInv
  <2>2. CASE StartWatch
    <3>1. /\ phase = "watch"
          /\ UNCHANGED <<file, modCounter, update, prevEntries>>
      BY <2>2 DEF StartWatch, envVars, updateVars
    <3>2. \A k \in 1..MaxUpdates : update[k].pc = "none"
      BY <3>1 DEF QuietInv, Quiet
    <3>3. Newest' = prevEntries
      BY <1>b, <3>1, <3>2 DEF Newest
    <3> QED
      BY <3>1, <3>3 DEF CurrentInv, StartedInv
  <2> QED
    BY <1>3, <2>1, <2>2 DEF Start
<1>4. CASE ReceiveFileEvent
  <2>1. spawned' = spawned + 1
    BY <1>4 DEF ReceiveFileEvent
  <2>2. spawned' # 0
    BY <1>a, <2>1
  <2> QED
    BY <2>2 DEF CurrentInv, Coming
<1>5. CASE AddWatch
  <2>1. readd # 0 /\ UNCHANGED <<spawned, modCounter, update>>
    BY <1>5 DEF AddWatch, updateVars
  <2>2. spawned # 0 \/ Sleeping
    BY <2>1 DEF WakeInv
  <2>3. Coming'
    BY <2>1, <2>2 DEF Coming, Sleeping
  <2> QED
    BY <2>3 DEF CurrentInv
<1>6. CASE UpdateStart
  <2>1. modCounter + 1 \in 1..MaxUpdates
    BY <1>6, UpdateStartBound DEF TypeInv
  <2>2. modCounter' = modCounter + 1
    BY <1>6 DEF UpdateStart
  <2>3. update'[modCounter + 1].pc = "sleep"
    BY <1>6, <1>a, <2>1 DEF UpdateStart, Update
  <2>4. modCounter' # 0
    BY <1>a, <2>2
  <2>5. Coming'
    BY <2>2, <2>3, <2>4 DEF Coming
  <2> QED
    BY <2>5 DEF CurrentInv
<1>7. ASSUME NEW k \in 1..MaxUpdates, HandleUpdate(k)
      PROVE  CurrentInv'
  <2>1. /\ UNCHANGED <<file, watched, phase, fileEvents, readd, spawned, modCounter>>
        /\ update[k].pc # "none"
        /\ \A j \in 1..MaxUpdates : j # k => update'[j] = update[j]
    BY <1>7, <1>a DEF HandleUpdate, UpdateWake, UpdateRead, UpdateApply, envVars,
         watchVars
  <2>2. CASE modCounter # k /\ UpdateWake(k)
    <3>1. prevEntries' = prevEntries
      BY <2>2 DEF UpdateWake
    <3>2. modCounter # 0 => update'[modCounter] = update[modCounter]
      BY <1>b, <2>1, <2>2
    <3>3. Coming' = Coming /\ Newest' = Newest
      BY <2>1, <3>1, <3>2 DEF Coming, Newest
    <3> QED
      BY <2>1, <3>3 DEF CurrentInv
  <2>3. CASE modCounter # k /\ ~UpdateWake(k)
    <3>1. Busy(k) /\ k < modCounter
      BY <1>7, <1>b, <2>1, <2>3 DEF HandleUpdate, UpdateRead, UpdateApply, Busy,
           PromptInv
    <3>2. Sleeping
      BY <3>1 DEF WakeInv
    <3>3. update'[modCounter] = update[modCounter]
      BY <1>b, <2>1, <2>3, <3>2 DEF Sleeping
    <3>4. Coming'
      BY <2>1, <3>2, <3>3 DEF Coming, Sleeping
    <3> QED
      BY <3>4 DEF CurrentInv
  <2>4. CASE modCounter = k
    <3>1. modCounter' = k /\ k # 0
      BY <1>b, <2>1, <2>4
    <3>2. CASE UpdateWake(k)
      <4>1. update'[k].pc = "read"
        BY <1>a, <2>4, <3>2 DEF UpdateWake, Update
      <4> QED
        BY <3>1, <4>1 DEF CurrentInv, Coming
    <3>3. CASE UpdateRead(k)
      <4>1. CASE CanRead(file)
        <5>1. update'[k] = [pc |-> "apply", entries |-> ReadConfig(file)]
          BY <1>a, <3>3, <4>1 DEF UpdateRead
        <5>2. Newest' = ReadConfig(file)
          BY <3>1, <5>1 DEF Newest
        <5> QED
          BY <2>1, <5>2 DEF CurrentInv
      <4>2. CASE ~CanRead(file)
        BY <2>1, <4>2 DEF CurrentInv
      <4> QED
        BY <4>1, <4>2
    <3>4. CASE UpdateApply(k)
      <4>1. /\ update[k].pc = "apply" /\ prevEntries' = update[k].entries
            /\ update'[k].pc = "none"
        BY <1>a, <3>4 DEF UpdateApply, Idle
      <4>2. Newest = update[k].entries /\ Newest' = update[k].entries
        BY <2>4, <3>1, <4>1 DEF Newest
      <4>3. Coming' = Coming
        BY <2>1, <2>4, <3>1, <4>1 DEF Coming
      <4> QED
        BY <2>1, <4>2, <4>3 DEF CurrentInv
    <3> QED
      BY <1>7, <3>2, <3>3, <3>4 DEF HandleUpdate
  <2> QED
    BY <2>2, <2>3, <2>4
<1>8. ASSUME NEW i \in DOMAIN senders, Send(i)
      PROVE  CurrentInv'
  BY <1>1, <1>8 DEF Send, updateVars, watchVars, envVars
<1>9. CASE Server
  BY <1>1, <1>9 DEF Server, Listen, ProcessEvent, updateVars, watchVars, envVars
<1>10. CASE UNCHANGED vars
  BY <1>1, <1>10 DEF vars, updateVars, watchVars, envVars
<1> QED
  BY <1>2, <1>3, <1>4, <1>5, <1>6, <1>7, <1>8, <1>9, <1>10
     DEF Next, Internal, WatchLoop

FreshInv == StartedInv /\ WakeInv /\ CurrentInv

\* What the updates and the watch keep between them is invariant.
LEMMA FreshInvariant ==
  ASSUME Prompt, NoDuplicates, ~EarlyEdits
  PROVE  Spec => [](ReloadInv /\ FreshInv)
<1>1. Init => FreshInv
  <2> SUFFICES ASSUME Init
               PROVE  FreshInv
    OBVIOUS
  <2>1. /\ ~watched /\ phase = "read" /\ readd = 0 /\ modCounter = 0
        /\ \A k \in 1..MaxUpdates : update[k].pc = "none"
    BY DEF Init, Idle
  <2>2. readd <= modCounter + 1
    BY <2>1
  <2> QED
    BY <2>1, <2>2 DEF FreshInv, StartedInv, WakeInv, CurrentInv, Busy
<1>2. ReloadInv /\ FreshInv /\ [Next]_vars => FreshInv'
  BY StartedStep, WakeStep, CurrentStep DEF ReloadInv, FreshInv
<1>3. Spec => []ReloadInv
  BY ReloadInvariant
<1> QED
  BY <1>1, <1>2, <1>3, PTL DEF Spec

\* When nothing is under way, what was read last is what is served.
LEMMA SettledServes ==
  ASSUME ReloadInv, FreshInv, watched, Settled, CanRead(file)
  PROVE  Serves(Routed, ReadConfig(file))
<1>1. ~Coming /\ Newest = prevEntries
  BY NewestUpdate DEF Settled, Coming, Newest, ReloadInv, TypeInv
<1>2. prevEntries = ReadConfig(file)
  BY <1>1 DEF FreshInv, CurrentInv, Settled
<1>3. Serves(Replayed, prevEntries)
  BY LeadsServes DEF Settled
<1>4. InFlight = <<>>
  <2>1. FlattenSeq(<<>>) = <<>>
    BY EmptySeq DEF FlattenSeq
  <2>2. Flight(<<>>, <<>>, <<>>) = <<>>
    <3> DEFINE none == <<>>
               nobody == <<>>
               nothing == <<>>
    <3>1. none \in Seq(Sender) /\ nobody \in Seq(Seq(ConfigEvent))
          /\ nothing \in Seq(ConfigEvent)
      OBVIOUS
    <3>2. none = <<>> /\ nobody = <<>> /\ nothing = <<>>
      OBVIOUS
    <3> HIDE DEF none, nobody, nothing
    <3>3. Flight(nothing, nobody, none) = Cat(nothing, FlattenSeq(nobody))
      BY <3>1, <3>2, FlightParts
    <3>4. \A s \in Seq(ConfigEvent) : Cat(s, <<>>) = s
      BY CatLaws
    <3> QED
      BY <2>1, <3>1, <3>2, <3>3, <3>4
  <2> QED
    BY <2>2, FlightNames DEF Settled
<1>5. Routed \subseteq ConfigEntry
  BY FlightNames, RoutedEntry DEF ReloadInv, TypeInv, DataInv
<1>6. Replayed = Routed
  <2>1. DOMAIN InFlight = {}
    BY <1>4
  <2> QED
    BY <1>5, <2>1 DEF Replayed
<1> QED
  BY <1>2, <1>3, <1>6

\* Live reload is right for every set of host names, targets and files and any
\* number of edits, deletions included: whenever everything is at rest and the
\* watch still stands, the server routes the entries of the file as it is.
\* The second of handleUpdate must outlast what is under way (Prompt), the file
\* must be left alone while razvhost starts and must not list an entry twice:
\* without each of the three there is a behaviour that breaks it.
THEOREM ReloadServesFile ==
  ASSUME Prompt, NoDuplicates, ~EarlyEdits
  PROVE  Spec => []WatchedMatchesFile
<1>1. ReloadInv /\ FreshInv => WatchedMatchesFile
  BY SettledServes DEF WatchedMatchesFile, SettledMatchesFile
<1> QED
  BY <1>1, FreshInvariant, PTL
=============================================================================
