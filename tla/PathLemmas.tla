----------------------------- MODULE PathLemmas -----------------------------
(***************************************************************************)
(* Facts about strings and paths (PathMatch, Locations, FileServer) for    *)
(* any alphabet and strings of any length, cited by VisitProofs.           *)
(***************************************************************************)
EXTENDS Visit, SeqLemmas, FiniteSetTheorems

-----------------------------------------------------------------------------
(***************************************************************************)
(* Strings and paths: a slash at either end, TrimPrefix and                *)
(* singleJoiningSlash.                                                     *)
(***************************************************************************)

\* The string of one slash.
LEMMA SlashStr ==
  Slash \in Str /\ Len(Slash) = 1 /\ Slash[1] = "/" /\ Slash # <<>>
  /\ SubSeq(Slash, 1, 1) = Slash
<1>1. "/" \in Chars
  BY CharsAssumption
<1> DEFINE c == "/"
           s == <<c>>
<1>2. c \in Chars
  BY <1>1
<1> HIDE DEF c
<1>3. s \in Seq(Chars) /\ Len(s) = 1 /\ s[1] = c /\ s # <<>>
  BY <1>2
<1>4. Slash = s
  BY DEF Slash, c
<1> HIDE DEF s
<1>5. SubSeq(s, 1, Len(s)) = s
  BY <1>3, SubSeqFull
<1> QED
  BY <1>3, <1>4, <1>5 DEF c, Str

\* strings.HasPrefix(t, "/")
LEMMA LeadingSlash ==
  ASSUME NEW t \in Str
  PROVE  /\ IsPrefix(Slash, t) <=> t # <<>> /\ t[1] = "/"
         /\ IsPrefix(Slash, t) => Tail(t) \in Str /\ t = Cat(Slash, Tail(t))
<1>1. Slash \in Str /\ Len(Slash) = 1 /\ Slash[1] = "/"
  BY SlashStr
<1>2. Len(t) \in Nat /\ (t = <<>> <=> Len(t) = 0)
  BY LenProperties, EmptySeq DEF Str
<1>3. ASSUME IsPrefix(Slash, t)
      PROVE  /\ t # <<>> /\ t[1] = "/"
             /\ Tail(t) \in Str /\ t = Cat(Slash, Tail(t))
  <2> DEFINE u == SubSeq(t, Len(Slash) + 1, Len(t))
  <2>1. u \in Str /\ t = Cat(Slash, u)
    BY <1>1, <1>3, PrefixRest DEF Str
  <2>2. Len(t) >= 1
    BY <1>1, <1>3 DEF IsPrefix
  <2>3. t # <<>>
    BY <1>2, <2>2
  <2>4. u = Tail(t)
    <3>1. u = SubSeq(t, 2, Len(t))
      BY <1>1
    <3>2. Tail(t) = SubSeq(t, 2, Len(t))
      BY <2>3, TailIsSubSeq DEF Str
    <3> QED
      BY <3>1, <3>2
  <2> HIDE DEF u
  <2>5. Cat(Slash, u)[1] = Slash[1]
    <3>1. \A i \in 1..Len(Slash) : Cat(Slash, u)[i] = Slash[i]
      BY <1>1, <2>1, CatElements DEF Str
    <3> QED
      BY <1>1, <3>1
  <2> QED
    BY <1>1, <2>1, <2>3, <2>4, <2>5
<1>4. ASSUME t # <<>>, t[1] = "/"
      PROVE  IsPrefix(Slash, t)
  <2> DEFINE e == SubSeq(t, 1, 1)
  <2>1. Len(t) >= 1 /\ 1 \in 0..Len(t)
    BY <1>2, <1>4
  <2>2. e \in Str /\ Len(e) = 1 /\ (\A i \in 1..1 : e[i] = t[i])
    BY <2>1, TakeProperties DEF Str
  <2> HIDE DEF e
  <2>3. \A i \in 1..1 : e[i] = Slash[i]
    BY <1>1, <1>4, <2>2
  <2>4. e = Slash
    BY <1>1, <2>2, <2>3, SameSeq DEF Str
  <2> QED
    BY <1>1, <2>1, <2>4, SlashStr DEF IsPrefix, e
<1> QED
  BY <1>3, <1>4

\* strings.HasSuffix(t, "/")
LEMMA EndingSlash ==
  ASSUME NEW t \in Str
  PROVE  /\ IsSuffix(Slash, t) <=> t # <<>> /\ t[Len(t)] = "/"
         /\ IsSuffix(Slash, t) => Front(t) \in Str /\ t = Cat(Front(t), Slash)
<1> DEFINE r == Reverse(t)
           n == Len(t)
<1>1. Slash \in Str /\ Len(Slash) = 1 /\ Slash[1] = "/"
  BY SlashStr
<1>2. n \in Nat /\ (t = <<>> <=> n = 0) /\ (\A i \in 1..n : t[i] \in Chars)
  BY LenProperties, EmptySeq, ElementOfSeq DEF Str
<1>3. r = [i \in 1..n |-> t[(n - i) + 1]]
  BY DEF Reverse
<1>4. r \in Str /\ Len(r) = n /\ (n # 0 => r[1] = t[n])
  <2>1. \A i \in 1..n : t[(n - i) + 1] \in Chars
    BY <1>2
  <2>2. r \in Str
    BY <1>2, <1>3, <2>1, IsASeq DEF Str
  <2>3. Len(r) = n
    BY <1>2, <1>3, <2>2, LenProperties DEF Str
  <2>4. n # 0 => r[1] = t[n]
    BY <1>2, <1>3
  <2> QED
    BY <2>2, <2>3, <2>4
<1>5. Reverse(Slash) = Slash
  <2> DEFINE q == Reverse(Slash)
  <2>1. q = [i \in 1..1 |-> Slash[(1 - i) + 1]]
    BY <1>1 DEF Reverse
  <2>2. \A i \in 1..1 : Slash[(1 - i) + 1] = "/"
    BY <1>1
  <2>3. q \in Str
    <3>1. \A i \in 1..1 : Slash[(1 - i) + 1] \in Chars
      <4>1. "/" \in Chars
        BY CharsAssumption
      <4> QED
        BY <2>2, <4>1
    <3> QED
      BY <2>1, <3>1, IsASeq DEF Str
  <2>4. Len(q) = 1
    BY <2>1, <2>3, LenProperties DEF Str
  <2>5. q[1] = "/"
    BY <1>1, <2>1
  <2> HIDE DEF q
  <2>6. \A i \in 1..1 : q[i] = Slash[i]
    BY <1>1, <2>5
  <2>7. q = Slash
    BY <1>1, <2>3, <2>4, <2>6, SameSeq DEF Str
  <2> QED
    BY <2>7 DEF q
<1> HIDE DEF r
<1>6. IsSuffix(Slash, t) <=> IsPrefix(Slash, r)
  BY <1>5 DEF IsSuffix, r
<1>7. IsPrefix(Slash, r) <=> r # <<>> /\ r[1] = "/"
  BY <1>4, LeadingSlash
<1>8. r # <<>> <=> n # 0
  BY <1>4, EmptySeq DEF Str
<1>9. IsSuffix(Slash, t) <=> t # <<>> /\ t[n] = "/"
  BY <1>2, <1>4, <1>6, <1>7, <1>8
<1>10. ASSUME t # <<>>, t[n] = "/"
       PROVE  Front(t) \in Str /\ t = Cat(Front(t), Slash)
  <2> DEFINE e == SubSeq(t, n - 1 + 1, n)
  <2>1. n - 1 \in 0..n /\ n - (n - 1) = 1
    BY <1>2, <1>10
  <2>2. Front(t) \in Str
    BY <2>1, TakeProperties DEF Str, Front
  <2>3. t = Cat(Front(t), e)
    BY <2>1, TakeDrop DEF Str, Front
  <2>4. e \in Str
    BY <2>1, DropProperties DEF Str
  <2>5. Len(e) = n - (n - 1)
    BY <2>1, DropProperties DEF Str
  <2>6. \A i \in 1..n - (n - 1) : e[i] = t[n - 1 + i]
    BY <2>1, DropProperties DEF Str
  <2> HIDE DEF e
  <2>7. Len(e) = 1 /\ e[1] = "/"
    BY <1>2, <1>10, <2>1, <2>5, <2>6
  <2>8. \A i \in 1..1 : e[i] = Slash[i]
    BY <1>1, <2>7
  <2>9. e = Slash
    BY <1>1, <2>4, <2>7, <2>8, SameSeq DEF Str
  <2> QED
    BY <2>2, <2>3, <2>9
<1> QED
  BY <1>9, <1>10

\* What follows a slash.
LEMMA SlashCat ==
  ASSUME NEW z \in Str
  PROVE  /\ Cat(Slash, z) \in Str
         /\ IsPrefix(Slash, Cat(Slash, z))
         /\ Tail(Cat(Slash, z)) = z
         /\ Cat(Slash, z) # <<>>
<1>1. Cat(Slash, z) \in Str
  BY SlashStr, CatLaws DEF Str
<1>2. IsPrefix(Slash, Cat(Slash, z))
  BY SlashStr, PrefixCat DEF Str
<1>3. Tail(Cat(Slash, z)) \in Str /\ Cat(Slash, z) = Cat(Slash, Tail(Cat(Slash, z)))
  BY <1>1, <1>2, LeadingSlash
<1>4. Tail(Cat(Slash, z)) = z
  BY <1>3, SlashStr, CatCancel DEF Str
<1>5. Cat(Slash, z) # <<>>
  BY <1>1, <1>2, LeadingSlash
<1> QED
  BY <1>1, <1>2, <1>4, <1>5

\* strings.TrimPrefix takes off what it finds.
LEMMA TrimCat ==
  ASSUME NEW s \in Str, NEW u \in Str
  PROVE  TrimPrefix(Cat(s, u), s) = u
<1>1. IsPrefix(s, Cat(s, u))
  BY PrefixCat DEF Str
<1>2. SubSeq(Cat(s, u), Len(s) + 1, Len(Cat(s, u))) = u
  BY CatParts DEF Str
<1> QED
  BY <1>1, <1>2 DEF TrimPrefix

\* TrimPrefix yields a string.
LEMMA TrimStr ==
  ASSUME NEW s \in Str, NEW p \in Str
  PROVE  TrimPrefix(s, p) \in Str
<1>1. CASE IsPrefix(p, s)
  BY <1>1, PrefixRest DEF Str, TrimPrefix
<1>2. CASE ~IsPrefix(p, s)
  BY <1>2 DEF TrimPrefix
<1> QED
  BY <1>1, <1>2

\* The empty string is a string and begins every one.
LEMMA EmptyStr ==
  /\ <<>> \in Str
  /\ \A s \in Str : /\ IsPrefix(<<>>, s) /\ TrimPrefix(s, <<>>) = s
                     /\ Cat(s, <<>>) = s /\ Cat(<<>>, s) = s
  /\ ~IsPrefix(Slash, <<>>)
<1>1. <<>> \in Str
  BY EmptySeq DEF Str
<1>2. ASSUME NEW s \in Str
      PROVE  Cat(s, <<>>) = s /\ Cat(<<>>, s) = s
  BY CatLaws DEF Str
<1>3. ASSUME NEW s \in Str
      PROVE  IsPrefix(<<>>, s) /\ TrimPrefix(s, <<>>) = s
  <2> DEFINE e == <<>>
  <2>1. e \in Str /\ Cat(e, s) = s
    BY <1>1, <1>2
  <2> HIDE DEF e
  <2>2. IsPrefix(e, Cat(e, s)) /\ TrimPrefix(Cat(e, s), e) = s
    BY <2>1, PrefixCat, TrimCat DEF Str
  <2>3. IsPrefix(e, s) /\ TrimPrefix(s, e) = s
    BY <2>1, <2>2
  <2> QED
    BY <2>3 DEF e
<1>4. ~IsPrefix(Slash, <<>>)
  BY <1>1, LeadingSlash
<1> QED
  BY <1>1, <1>2, <1>3, <1>4

\* A path with the slash it may lack.
LEMMA WithSlashCases ==
  ASSUME NEW a \in Str
  PROVE  /\ WithSlash(a) \in Str
         /\ IsSuffix(Slash, a) => WithSlash(a) = a
         /\ ~IsSuffix(Slash, a) => WithSlash(a) = Cat(a, Slash)
<1>1. IsSuffix(Slash, a) => WithSlash(a) = a
  BY DEF WithSlash
<1>2. ~IsSuffix(Slash, a) => WithSlash(a) = Cat(a, Slash)
  BY DEF WithSlash, Cat
<1>3. Cat(a, Slash) \in Str
  BY SlashStr, CatLaws DEF Str
<1> QED
  BY <1>1, <1>2, <1>3

\* Joining with something that begins with a slash.
LEMMA JoinSlash ==
  ASSUME NEW a \in Str, NEW z \in Str
  PROVE  SingleJoiningSlash(a, Cat(Slash, z)) = Cat(WithSlash(a), z)
<1> DEFINE b == Cat(Slash, z)
<1>1. IsPrefix(Slash, b) /\ Tail(b) = z
  BY SlashCat
<1> HIDE DEF b
<1>2. CASE IsSuffix(Slash, a)
  <2>1. SingleJoiningSlash(a, b) = Cat(a, z)
    BY <1>1, <1>2 DEF SingleJoiningSlash, Cat
  <2> QED
    BY <1>2, <2>1, WithSlashCases DEF b
<1>3. CASE ~IsSuffix(Slash, a)
  <2>1. SingleJoiningSlash(a, b) = Cat(a, b)
    BY <1>1, <1>3 DEF SingleJoiningSlash, Cat
  <2>2. Cat(Cat(a, Slash), z) = Cat(a, b)
    BY SlashStr, CatLaws DEF Str, b
  <2> QED
    BY <1>3, <2>1, <2>2, WithSlashCases DEF b
<1> QED
  BY <1>2, <1>3

\* Joining with something that does not.
LEMMA JoinBare ==
  ASSUME NEW a \in Str, NEW z \in Str, ~IsPrefix(Slash, z)
  PROVE  SingleJoiningSlash(a, z) = Cat(WithSlash(a), z)
<1>1. CASE IsSuffix(Slash, a)
  <2>1. SingleJoiningSlash(a, z) = Cat(a, z)
    BY <1>1 DEF SingleJoiningSlash, Cat
  <2> QED
    BY <1>1, <2>1, WithSlashCases
<1>2. CASE ~IsSuffix(Slash, a)
  <2>1. SingleJoiningSlash(a, z) = Cat(Cat(a, Slash), z)
    BY <1>2 DEF SingleJoiningSlash, Cat
  <2> QED
    BY <1>2, <2>1, WithSlashCases
<1> QED
  BY <1>1, <1>2

\* A path that goes on is a path.
LEMMA PathCat ==
  ASSUME NEW p \in Str, IsPrefix(Slash, p), NEW z \in Str
  PROVE  /\ Cat(p, z) \in Str /\ IsPrefix(Slash, Cat(p, z))
         /\ Tail(Cat(p, z)) = Cat(Tail(p), z)
<1>1. Tail(p) \in Str /\ p = Cat(Slash, Tail(p))
  BY LeadingSlash
<1>2. Cat(Tail(p), z) \in Str
  BY <1>1, CatLaws DEF Str
<1>3. Cat(p, z) = Cat(Slash, Cat(Tail(p), z))
  <2>1. \A s, t, u \in Str : Cat(Cat(s, t), u) = Cat(s, Cat(t, u))
    BY CatLaws DEF Str
  <2>2. Cat(Cat(Slash, Tail(p)), z) = Cat(Slash, Cat(Tail(p), z))
    BY <1>1, <2>1, SlashStr
  <2> QED
    BY <1>1, <2>2
<1> QED
  BY <1>2, <1>3, SlashCat

\* The path of a target or a route, ended with a slash, begins with one.
LEMMA WithSlashPath ==
  ASSUME NEW a, IsPath(a)
  PROVE  WithSlash(a) \in Str /\ IsPrefix(Slash, WithSlash(a))
<1>1. a \in Str
  BY DEF IsPath
<1>2. CASE a = <<>>
  <2>1. ~IsSuffix(Slash, a)
    BY <1>1, <1>2, EndingSlash
  <2>2. WithSlash(a) = Slash
    BY <1>1, <1>2, <2>1, WithSlashCases, EmptyStr, SlashStr
  <2>3. IsPrefix(Slash, Slash)
    BY SlashStr, LeadingSlash
  <2> QED
    BY <2>2, <2>3, SlashStr
<1>3. CASE IsPrefix(Slash, a)
  <2>1. IsPrefix(Slash, Cat(a, Slash))
    BY <1>1, <1>3, PathCat, SlashStr
  <2> QED
    BY <1>1, <1>3, <2>1, WithSlashCases
<1> QED
  BY <1>2, <1>3 DEF IsPath

\* singleJoiningSlash makes a path of a path and anything.
LEMMA JoinPath ==
  ASSUME NEW a, IsPath(a), NEW b \in Str
  PROVE  /\ SingleJoiningSlash(a, b) \in Str
         /\ IsPrefix(Slash, SingleJoiningSlash(a, b))
         /\ IsPath(SingleJoiningSlash(a, b))
<1>1. a \in Str
  BY DEF IsPath
<1>2. \E z \in Str : SingleJoiningSlash(a, b) = Cat(WithSlash(a), z)
  <2>1. CASE IsPrefix(Slash, b)
    <3>1. Tail(b) \in Str /\ b = Cat(Slash, Tail(b))
      BY <2>1, LeadingSlash
    <3>2. SingleJoiningSlash(a, Cat(Slash, Tail(b))) = Cat(WithSlash(a), Tail(b))
      BY <1>1, <3>1, JoinSlash
    <3> QED
      BY <3>1, <3>2
  <2>2. CASE ~IsPrefix(Slash, b)
    BY <1>1, <2>2, JoinBare
  <2> QED
    BY <2>1, <2>2
<1>3. PICK z \in Str : SingleJoiningSlash(a, b) = Cat(WithSlash(a), z)
  BY <1>2
<1>4. WithSlash(a) \in Str /\ IsPrefix(Slash, WithSlash(a))
  BY WithSlashPath
<1>5. /\ Cat(WithSlash(a), z) \in Str
      /\ IsPrefix(Slash, Cat(WithSlash(a), z))
  BY <1>4, PathCat
<1> QED
  BY <1>3, <1>5 DEF IsPath

\* handlePathCombinations, after the path of the route: one slash.
LEMMA StripRest ==
  ASSUME NEW hp \in Str, NEW rest \in Str
  PROVE  Strip(Cat(hp, rest), hp)
           = IF IsPrefix(Slash, rest) THEN rest ELSE Cat(Slash, rest)
<1>1. TrimPrefix(Cat(hp, rest), hp) = rest
  BY TrimCat
<1> QED
  BY <1>1 DEF Strip, Cat

\* Every handler gets a path that begins with a slash.
LEMMA StripPath ==
  ASSUME NEW p \in Str, NEW hp \in Str
  PROVE  Strip(p, hp) \in Str /\ IsPrefix(Slash, Strip(p, hp))
<1> DEFINE rest == TrimPrefix(p, hp)
<1>1. rest \in Str
  BY TrimStr
<1>2. Strip(p, hp) = IF IsPrefix(Slash, rest) THEN rest ELSE Cat(Slash, rest)
  BY DEF Strip, Cat
<1> HIDE DEF rest
<1>3. Cat(Slash, rest) \in Str /\ IsPrefix(Slash, Cat(Slash, rest))
  BY <1>1, SlashCat
<1> QED
  BY <1>1, <1>2, <1>3

-----------------------------------------------------------------------------
(***************************************************************************)
(* Host and path of a name: PartCount, FirstParts and splitHostnameAndPath.*)
(***************************************************************************)

\* The slashes of a string are positions, and finitely many.
LEMMA SlashesFinite ==
  ASSUME NEW s \in Str
  PROVE  /\ Len(s) \in Nat /\ Slashes(s) \subseteq 1..Len(s)
         /\ IsFiniteSet(Slashes(s))
         /\ \A i \in 1..Len(s) : i \in Slashes(s) <=> s[i] = "/"
<1>1. Len(s) \in Nat /\ DOMAIN s = 1..Len(s)
  BY LenProperties DEF Str
<1>2. /\ Slashes(s) \subseteq 1..Len(s)
      /\ \A i \in 1..Len(s) : i \in Slashes(s) <=> s[i] = "/"
  BY <1>1 DEF Slashes
<1>3. 1 \in Int /\ Len(s) \in Int
  BY <1>1
<1> DEFINE I == 1..Len(s)
<1>4. IsFiniteSet(I)
  BY <1>3, FS_Interval
<1>5. Slashes(s) \in SUBSET I
  BY <1>2
<1> HIDE DEF I
<1>6. IsFiniteSet(Slashes(s))
  BY <1>4, <1>5, FS_Subset
<1> QED
  BY <1>1, <1>2, <1>6

\* The slashes of a host and of what follows it.
LEMMA HostPathSlashes ==
  ASSUME NEW h, IsHost(h), NEW p, IsPath(p), NEW s, s = Cat(h, p)
  PROVE  /\ s \in Str /\ IsFiniteSet(Slashes(s)) /\ Slashes(s) \subseteq 1..Len(s)
         /\ p = <<>> => Slashes(s) = {}
         /\ p # <<>> => Len(h) + 1 \in Slashes(s)
         /\ \A i \in Slashes(s) : Len(h) + 1 <= i
<1>1. h \in Str /\ p \in Str
  BY DEF IsHost, IsPath
<1>2. s \in Str
  BY <1>1, CatLaws DEF Str
<1>3. /\ Len(s) = Len(h) + Len(p)
      /\ \A i \in 1..Len(h) : s[i] = h[i]
      /\ \A i \in 1..Len(p) : s[Len(h) + i] = p[i]
  BY <1>1, CatElements DEF Str
<1>4. Len(h) \in Nat /\ Len(p) \in Nat /\ Len(s) \in Nat
  BY <1>1, <1>2, LenProperties DEF Str
<1>5. DOMAIN s = 1..Len(s) /\ DOMAIN h = 1..Len(h)
  BY <1>1, <1>2, LenProperties DEF Str
<1>6. /\ Slashes(s) \subseteq 1..Len(s)
      /\ \A i \in 1..Len(s) : i \in Slashes(s) <=> s[i] = "/"
  BY <1>2, SlashesFinite
<1>7. IsFiniteSet(Slashes(s))
  BY <1>2, SlashesFinite
<1>8. \A i \in 1..Len(h) : h[i] # "/"
  BY <1>5 DEF IsHost, Slashes
<1>9. ASSUME NEW i \in Slashes(s)
      PROVE  Len(h) + 1 <= i
  <2>1. i \in 1..Len(s) /\ s[i] = "/"
    BY <1>6
  <2>2. ~(i \in 1..Len(h))
    BY <1>3, <1>8, <2>1
  <2> QED
    BY <1>4, <2>1, <2>2
<1>10. ASSUME p = <<>>
       PROVE  Slashes(s) = {}
  <2>1. Len(p) = 0
    BY <1>10, EmptySeq
  <2>2. \A i \in Slashes(s) : i <= Len(h) /\ Len(h) + 1 <= i /\ i \in Nat
    BY <1>3, <1>4, <1>6, <1>9, <2>1
  <2> QED
    BY <1>4, <2>2
<1>11. ASSUME p # <<>>
       PROVE  Len(h) + 1 \in Slashes(s)
  <2>1. p[1] = "/"
    BY <1>1, <1>11, LeadingSlash DEF IsPath
  <2>2. Len(p) # 0
    BY <1>1, <1>11, EmptySeq DEF Str
  <2>3. 1 \in 1..Len(p) /\ Len(h) + 1 \in 1..Len(s)
    BY <1>3, <1>4, <2>2
  <2>4. s[Len(h) + 1] = "/"
    BY <1>3, <2>1, <2>3
  <2> QED
    BY <1>6, <2>3, <2>4
<1> QED
  BY <1>2, <1>6, <1>7, <1>9, <1>10, <1>11

\* The part before the first slash.
LEMMA FirstPart ==
  ASSUME NEW h, IsHost(h), NEW p, IsPath(p)
  PROVE  FirstParts(Cat(h, p), 1) = h
<1> DEFINE s == Cat(h, p)
           c == Len(h) + 1
           Upto(i) == {j \in Slashes(s) : j <= i}
<1>1. h \in Str /\ p \in Str
  BY DEF IsHost, IsPath
<1>2. /\ s \in Str /\ IsFiniteSet(Slashes(s)) /\ Slashes(s) \subseteq 1..Len(s)
      /\ p = <<>> => Slashes(s) = {}
      /\ p # <<>> => c \in Slashes(s)
      /\ \A i \in Slashes(s) : c <= i
  BY HostPathSlashes
<1>3. Cardinality(Slashes(s)) \in Nat /\ (Cardinality(Slashes(s)) = 0 <=> Slashes(s) = {})
  BY <1>2, FS_CardinalityType, FS_EmptySet
<1>4. CASE p = <<>>
  <2>1. PartCount(s) = 1
    BY <1>2, <1>3, <1>4 DEF PartCount
  <2>2. FirstParts(s, 1) = s
    BY <2>1 DEF FirstParts
  <2>3. s = h
    BY <1>1, <1>4, EmptyStr
  <2> QED
    BY <2>2, <2>3
<1>5. CASE p # <<>>
  <2>1. c \in Slashes(s) /\ Len(h) \in Nat /\ Slashes(s) \subseteq Nat
    BY <1>1, <1>2, <1>5, LenProperties DEF Str
  <2>2. PartCount(s) # 1
    <3>1. Cardinality(Slashes(s)) # 0
      BY <1>3, <2>1
    <3> QED
      BY <1>3, <3>1 DEF PartCount
  <2> HIDE DEF s, c
  <2>3. Upto(c) = {c}
    <3>1. \A j \in Slashes(s) : j <= c => j = c
      BY <1>2, <2>1
    <3>2. c <= c
      BY <2>1
    <3> QED
      BY <2>1, <3>1, <3>2
  <2>4. Cardinality(Upto(c)) = 1
    BY <2>3, FS_Singleton
  <2>5. ASSUME NEW i \in Slashes(s), Cardinality(Upto(i)) = 1
        PROVE  i = c
    <3>1. IsFiniteSet(Upto(i))
      BY <1>2, FS_Subset
    <3>2. c \in Upto(i) /\ i \in Upto(i)
      BY <1>2, <2>1
    <3> HIDE DEF Upto
    <3>3. PICK x : Upto(i) = {x}
      BY <2>5, <3>1, FS_Singleton
    <3> QED
      BY <3>2, <3>3
  <2> DEFINE cut == CHOOSE i \in Slashes(s) : Cardinality(Upto(i)) = 1
  <2>6. cut = c
    <3> HIDE DEF Upto
    <3> QED
      BY <2>1, <2>4, <2>5
  <2>7. FirstParts(s, 1) = SubSeq(s, 1, cut - 1)
    BY <2>2 DEF FirstParts
  <2>8. c - 1 = Len(h)
    BY <2>1 DEF c
  <2>9. SubSeq(s, 1, Len(h)) = h
    BY <1>1, CatParts DEF Str, s
  <2> HIDE DEF cut
  <2> QED
    BY <2>6, <2>7, <2>8, <2>9 DEF s
<1> QED
  BY <1>4, <1>5

\* Every string is a host and a path, one after the other.
LEMMA SplitExists ==
  ASSUME NEW s \in Str
  PROVE  \E h, p \in Str : IsHost(h) /\ IsPath(p) /\ s = Cat(h, p)
<1>1. Len(s) \in Nat
  BY SlashesFinite
<1>2. /\ Slashes(s) \subseteq 1..Len(s)
      /\ \A i \in 1..Len(s) : i \in Slashes(s) <=> s[i] = "/"
  BY SlashesFinite
<1>3. CASE Slashes(s) = {}
  <2>1. IsHost(s) /\ IsPath(<<>>) /\ s = Cat(s, <<>>)
    BY <1>3, EmptyStr DEF IsHost, IsPath
  <2> QED
    BY <2>1, EmptyStr
<1>4. CASE Slashes(s) # {}
  <2>1. Slashes(s) \in SUBSET (Nat \ {0})
    BY <1>1, <1>2
  <2>2. PICK c \in Slashes(s) : \A j \in Slashes(s) : c <= j
    BY <1>4, <2>1, MinProperties
  <2> DEFINE n == c - 1
             h == SubSeq(s, 1, n)
             p == SubSeq(s, n + 1, Len(s))
  <2>3. n \in 0..Len(s) /\ n + 1 = c /\ c \in 1..Len(s) /\ s[c] = "/"
    BY <1>1, <1>2
  <2> HIDE DEF n
  <2>4. h \in Str /\ Len(h) = n /\ (\A i \in 1..n : h[i] = s[i])
    BY <2>3, TakeProperties DEF Str
  <2>5. p \in Str /\ Len(p) = Len(s) - n /\ (\A i \in 1..Len(s) - n : p[i] = s[n + i])
    BY <2>3, DropProperties DEF Str
  <2>6. s = Cat(h, p)
    BY <2>3, TakeDrop DEF Str
  <2> HIDE DEF h, p
  <2>7. IsHost(h)
    <3>1. DOMAIN h = 1..n
      BY <2>4, LenProperties DEF Str
    <3>2. \A i \in 1..n : i \in 1..Len(s) /\ ~(c <= i)
      BY <1>1, <2>3
    <3>3. \A i \in 1..n : h[i] # "/"
      BY <1>2, <2>2, <2>4, <3>2
    <3> QED
      BY <2>4, <3>1, <3>3 DEF IsHost, Slashes
  <2>8. IsPath(p)
    <3>1. 1 \in 1..Len(s) - n
      BY <1>1, <2>3
    <3>2. p[1] = "/"
      BY <2>3, <2>5, <3>1
    <3>3. Len(p) # 0
      <4>1. Len(p) = Len(s) - n
        BY <2>5
      <4> QED
        BY <1>1, <2>3, <4>1
    <3>4. p # <<>>
      BY <3>3, EmptySeq
    <3> QED
      BY <2>5, <3>2, <3>4, LeadingSlash DEF IsPath
  <2> QED
    BY <2>4, <2>5, <2>6, <2>7, <2>8
<1> QED
  BY <1>3, <1>4

\* A host that begins with another one, before a path, is that one.
LEMMA SplitUnique ==
  ASSUME NEW h, IsHost(h), NEW p, IsPath(p), NEW k, IsHost(k), NEW q, IsPath(q),
         Cat(h, p) = Cat(k, q)
  PROVE  h = k /\ p = q
<1>1. h \in Str /\ p \in Str /\ k \in Str /\ q \in Str
  BY DEF IsHost, IsPath
<1>2. FirstParts(Cat(h, p), 1) = h /\ FirstParts(Cat(k, q), 1) = k
  BY FirstPart
<1>3. h = k
  BY <1>2
<1>4. p = q
  BY <1>1, <1>3, CatCancel DEF Str
<1> QED
  BY <1>3, <1>4

\* splitHostnameAndPath cuts the name of a route before its first slash.
LEMMA SplitName ==
  ASSUME NEW name \in Str
  PROVE  /\ IsHost(SplitHostnameAndPath(name).host)
         /\ IsPath(SplitHostnameAndPath(name).path)
         /\ name = Cat(SplitHostnameAndPath(name).host,
                       SplitHostnameAndPath(name).path)
<1>1. PICK h \in Str, p \in Str : IsHost(h) /\ IsPath(p) /\ name = Cat(h, p)
  BY SplitExists
<1>2. FirstParts(name, 1) = h
  BY <1>1, FirstPart
<1>3. TrimPrefix(name, h) = p
  BY <1>1, TrimCat
<1>4. /\ SplitHostnameAndPath(name).host = h
      /\ SplitHostnameAndPath(name).path = p
  BY <1>2, <1>3 DEF SplitHostnameAndPath
<1> QED
  BY <1>1, <1>4

\* Server.Debug takes the host out of the path it is in.
LEMMA DebugSplit ==
  ASSUME NEW h, IsHost(h), NEW p, IsPath(p)
  PROVE  DebugRequest(Cat(Slash, Cat(h, p))) = Location(h, p)
<1> DEFINE s == Cat(h, p)
           t == Cat(Slash, s)
           sh == Cat(Slash, h)
           c == Len(h) + 2
           Upto(i) == {j \in Slashes(t) : j <= i}
<1>1. h \in Str /\ p \in Str
  BY DEF IsHost, IsPath
<1>2. /\ s \in Str /\ IsFiniteSet(Slashes(s)) /\ Slashes(s) \subseteq 1..Len(s)
      /\ p = <<>> => Slashes(s) = {}
      /\ p # <<>> => Len(h) + 1 \in Slashes(s)
      /\ \A i \in Slashes(s) : Len(h) + 1 <= i
  BY HostPathSlashes
<1>3. t \in Str /\ sh \in Str
  BY <1>1, <1>2, SlashCat
<1>4. t = Cat(sh, p)
  BY <1>1, SlashStr, CatLaws DEF Str
<1>5. TrimPrefix(t, Slash) = s /\ TrimPrefix(sh, Slash) = h /\ TrimPrefix(t, sh) = p
  BY <1>1, <1>2, <1>3, <1>4, TrimCat, SlashStr
<1>6. Len(sh) = Len(h) + 1
  <2>1. Len(sh) = Len(Slash) + Len(h)
    BY <1>1, SlashStr, CatElements DEF Str
  <2>2. Len(h) \in Nat
    BY <1>1, LenProperties DEF Str
  <2> QED
    BY <2>1, <2>2, SlashStr
<1>7. SubSeq(t, 1, Len(sh)) = sh
  BY <1>1, <1>3, <1>4, CatParts DEF Str
<1>8. Len(h) \in Nat /\ Len(s) \in Nat
  BY <1>1, <1>2, LenProperties DEF Str
<1>9. Slashes(t) = {1} \cup {i + 1 : i \in Slashes(s)}
  <2>a. s \in Str /\ Slash \in Str
    BY <1>2, SlashStr
  <2> HIDE DEF s
  <2>1. /\ Len(t) = Len(Slash) + Len(s)
        /\ \A i \in 1..Len(Slash) : t[i] = Slash[i]
        /\ \A i \in 1..Len(s) : t[Len(Slash) + i] = s[i]
    BY <2>a, CatElements DEF Str
  <2> HIDE DEF t
  <2>2. /\ Len(t) = 1 + Len(s) /\ t[1] = "/"
        /\ \A i \in 1..Len(s) : t[1 + i] = s[i]
    BY <2>1, SlashStr
  <2>3. DOMAIN t = 1..Len(t) /\ DOMAIN s = 1..Len(s)
    BY <1>2, <1>3, LenProperties DEF Str
  <2>4. /\ \A i : i \in Slashes(t) <=> i \in 1..Len(t) /\ t[i] = "/"
        /\ \A i : i \in Slashes(s) <=> i \in 1..Len(s) /\ s[i] = "/"
    BY <2>3 DEF Slashes
  <2>5. ASSUME NEW i \in Slashes(t)
        PROVE  i = 1 \/ \E j \in Slashes(s) : i = j + 1
    <3>1. i \in 1..Len(t) /\ t[i] = "/"
      BY <2>4
    <3>2. CASE i # 1
      <4> DEFINE j == i - 1
      <4>1. j \in 1..Len(s) /\ i = 1 + j /\ i = j + 1
        BY <1>8, <2>2, <3>1, <3>2
      <4> HIDE DEF j
      <4>2. s[j] = "/"
        BY <2>2, <3>1, <4>1
      <4> QED
        BY <2>4, <4>1, <4>2
    <3> QED
      BY <3>2
  <2>6. ASSUME NEW j \in Slashes(s)
        PROVE  j + 1 \in Slashes(t)
    <3>1. j \in 1..Len(s) /\ s[j] = "/"
      BY <2>4
    <3>2. j + 1 \in 1..Len(t) /\ 1 + j = j + 1
      BY <1>8, <2>2, <3>1
    <3>3. t[j + 1] = "/"
      BY <2>2, <3>1, <3>2
    <3> QED
      BY <2>4, <3>2, <3>3
  <2>7. 1 \in Slashes(t)
    <3>1. 1 \in 1..Len(t)
      BY <1>8, <2>2
    <3> QED
      BY <2>2, <2>4, <3>1
  <2> QED
    BY <2>5, <2>6, <2>7
<1>10. IsFiniteSet(Slashes(t)) /\ Slashes(t) \subseteq 1..Len(t) /\ Len(t) \in Nat
  BY <1>3, SlashesFinite
<1> DEFINE n == IF PartCount(t) > 2 THEN 2 ELSE PartCount(t)
<1>11. FirstParts(t, n) = sh
  <2>1. CASE p = <<>>
    <3>1. Slashes(t) = {1}
      BY <1>2, <1>9, <2>1
    <3>2. PartCount(t) = 2
      BY <3>1, FS_Singleton DEF PartCount
    <3>3. t = sh
      BY <1>3, <1>4, <2>1, EmptyStr
    <3> QED
      BY <3>2, <3>3 DEF FirstParts
  <2>2. CASE p # <<>>
    <3> HIDE DEF s, t
    <3>1. 1 \in Slashes(t) /\ c \in Slashes(t) /\ 1 < c
      <4>1. c = (Len(h) + 1) + 1
        BY <1>8
      <4> QED
        BY <1>2, <1>8, <1>9, <2>2, <4>1
    <3>2. \A j \in Slashes(t) : j = 1 \/ c <= j
      BY <1>2, <1>8, <1>9
    <3>a. c \in Nat /\ Slashes(t) \subseteq Nat
      BY <1>8, <1>10
    <3> HIDE DEF c
    <3>3. Upto(c) = {1, c}
      BY <3>1, <3>2, <3>a
    <3>4. Cardinality({1} \cup {c}) = 2
      <4> DEFINE one == {1}
      <4>1. IsFiniteSet(one) /\ Cardinality(one) = 1
        BY FS_Singleton
      <4>2. c \notin one
        BY <3>1, <3>a
      <4> HIDE DEF one
      <4>3. Cardinality(one \cup {c}) = Cardinality(one) + 1
        BY <4>1, <4>2, FS_AddElement
      <4>4. Cardinality(one \cup {c}) = 2
        BY <4>1, <4>3
      <4> QED
        BY <4>4 DEF one
    <3>5. Cardinality(Upto(c)) = 2
      <4>1. Upto(c) = {1} \cup {c}
        BY <3>3
      <4> QED
        BY <3>4, <4>1
    <3>6. ASSUME NEW i \in Slashes(t), Cardinality(Upto(i)) = 2
          PROVE  i = c
      <4>1. IsFiniteSet(Upto(i)) /\ Upto(i) \subseteq Slashes(t)
        BY <1>10, FS_Subset
      <4>2. CASE i = 1
        <5>1. Upto(i) = {1}
          BY <3>1, <3>2, <3>a, <4>2
        <5>2. Cardinality({1}) = 1
          BY FS_Singleton
        <5> QED
          BY <3>6, <5>1, <5>2
      <4>3. CASE i # 1
        <5>1. c <= i /\ 1 \in Upto(i) /\ c \in Upto(i)
          BY <3>1, <3>2, <3>a, <4>3
        <5>2. Upto(c) \subseteq Upto(i)
          BY <3>3, <5>1
        <5>3. Upto(i) = Upto(c)
          <6> DEFINE U == Upto(i)
                     V == Upto(c)
          <6>1. IsFiniteSet(U) /\ V \in SUBSET U /\ Cardinality(U) = Cardinality(V)
            BY <3>5, <3>6, <4>1, <5>2
          <6> HIDE DEF U, V
          <6>2. U = V
            BY <6>1, FS_Subset
          <6> QED
            BY <6>2 DEF U, V
        <5>4. i \in Upto(i)
          BY <3>a
        <5> QED
          BY <3>3, <4>3, <5>3, <5>4
      <4> QED
        BY <4>2, <4>3
    <3> DEFINE cut == CHOOSE i \in Slashes(t) : Cardinality(Upto(i)) = 2
    <3>7. cut = c
      <4> HIDE DEF Upto
      <4> QED
        BY <3>1, <3>5, <3>6
    <3>8. Cardinality(Slashes(t)) \in Nat /\ Cardinality(Slashes(t)) >= 2
      <4>1. Upto(c) \in SUBSET Slashes(t)
        OBVIOUS
      <4>2. Cardinality(Upto(c)) <= Cardinality(Slashes(t))
        BY <1>10, <4>1, FS_Subset
      <4>3. Cardinality(Slashes(t)) \in Nat
        BY <1>10, FS_CardinalityType
      <4> QED
        BY <3>5, <4>2, <4>3
    <3>9. PartCount(t) > 2 /\ PartCount(t) # 2
      BY <3>8 DEF PartCount
    <3>10. n = 2
      BY <3>9
    <3>11. FirstParts(t, 2) = SubSeq(t, 1, cut - 1)
      BY <3>9 DEF FirstParts
    <3>12. c - 1 = Len(sh)
      BY <1>6, <1>8 DEF c
    <3> HIDE DEF cut, n, sh
    <3> QED
      BY <1>7, <3>7, <3>10, <3>11, <3>12
  <2> QED
    BY <2>1, <2>2
<1>12. DebugRequest(t) = Location(TrimPrefix(FirstParts(t, n), Slash),
                                 TrimPrefix(t, Cat(Slash, TrimPrefix(FirstParts(t, n), Slash))))
  BY DEF DebugRequest, Cat
<1> HIDE DEF n
<1> QED
  BY <1>5, <1>11, <1>12

\* The same of a request for nothing.
LEMMA DebugEmpty ==
  DebugRequest(<<>>) = Location(NoHost, <<>>)
<1> DEFINE e == <<>>
<1>1. e \in Str /\ ~IsPrefix(Slash, e) /\ Slashes(e) = {}
  BY EmptyStr DEF Slashes
<1>2. PartCount(e) = 1
  BY <1>1, FS_EmptySet DEF PartCount
<1>3. ~IsPrefix(Cat(Slash, e), e)
  BY <1>1, EmptyStr, SlashStr
<1>4. e = <<>>
  OBVIOUS
<1> HIDE DEF e
<1>5. FirstParts(e, 1) = e
  BY <1>2 DEF FirstParts
<1>6. TrimPrefix(e, Slash) = e /\ TrimPrefix(e, Cat(Slash, e)) = e
  BY <1>1, <1>3 DEF TrimPrefix
<1>7. (IF PartCount(e) > 2 THEN 2 ELSE PartCount(e)) = 1
  BY <1>2
<1>8. DebugRequest(e) = Location(e, e)
  BY <1>5, <1>6, <1>7 DEF DebugRequest, Cat
<1> QED
  BY <1>4, <1>8 DEF NoHost

-----------------------------------------------------------------------------
(***************************************************************************)
(* strings.Split and path.Clean.  Both are recursive functions over the    *)
(* string; each is shown to have a solution and then used by its steps.    *)
(***************************************************************************)

\* The parts of paths: strings without a slash, and those that path.Clean
\* keeps.
Host == {h \in Str : IsHost(h)}
Name == {h \in Host : h \notin {<<>>, <<".">>, <<".", ".">>}}
HostLists == {ps \in Seq(Host) : ps # <<>>}

\* A string without slash and one more character.
LEMMA HostAppend ==
  ASSUME NEW h \in Host, NEW c \in Chars, c # "/"
  PROVE  Append(h, c) \in Host
<1> DEFINE a == Append(h, c)
<1>1. h \in Str /\ (\A i \in 1..Len(h) : h[i] # "/") /\ Len(h) \in Nat
  <2>1. h \in Str /\ Slashes(h) = {}
    BY DEF Host, IsHost
  <2> QED
    BY <2>1, SlashesFinite
<1>2. /\ a \in Str /\ Len(a) = Len(h) + 1
      /\ \A i \in 1..Len(h) : a[i] = h[i]
      /\ a[Len(h) + 1] = c
  BY <1>1, AppendProperties DEF Str
<1> HIDE DEF a
<1>3. ASSUME NEW i \in Slashes(a)
      PROVE  FALSE
  <2>1. i \in 1..Len(a) /\ a[i] = "/"
    BY <1>2, SlashesFinite
  <2>2. i \in 1..Len(h) \/ i = Len(h) + 1
    BY <1>1, <1>2, <2>1
  <2> QED
    BY <1>1, <1>2, <2>1, <2>2
<1>4. Slashes(a) = {}
  BY <1>3
<1> QED
  BY <1>2, <1>4 DEF Host, IsHost, a

\* No part has a slash, and there is always one part.
LEMMA AddCharType ==
  ASSUME NEW ps \in HostLists, NEW c \in Chars
  PROVE  AddChar(ps, c) \in HostLists
<1>1. ps \in Seq(Host) /\ ps # <<>>
  BY DEF HostLists
<1>2. CASE c = "/"
  <2> DEFINE e == <<>>
  <2>1. e \in Host
    BY EmptyStr DEF Host, IsHost, Slashes
  <2> HIDE DEF e
  <2>2. Append(ps, e) \in Seq(Host) /\ Append(ps, e) # <<>>
    BY <1>1, <2>1, AppendCat
  <2> QED
    BY <1>2, <2>2 DEF AddChar, HostLists, e
<1>3. CASE c # "/"
  <2> DEFINE f == Front(ps)
             l == Append(Last(ps), c)
  <2>1. f \in Seq(Host) /\ l \in Host
    BY <1>1, <1>3, FrontProperties, HostAppend
  <2> HIDE DEF f, l
  <2>2. Append(f, l) \in Seq(Host) /\ Append(f, l) # <<>>
    BY <2>1, AppendCat
  <2> QED
    BY <1>3, <2>2 DEF AddChar, HostLists, f, l
<1> QED
  BY <1>2, <1>3

\* strings.Split, character by character.
PartsFold(f, s) ==
  /\ f \in [0..Len(s) -> HostLists]
  /\ f[0] = << <<>> >>
  /\ \A i \in 1..Len(s) : f[i] = AddChar(f[i - 1], s[i])

\* The recursion in Parts has a solution.
LEMMA PartsDef ==
  ASSUME NEW s \in Str
  PROVE  \E f : PartsFold(f, s) /\ Parts(s) = f[Len(s)]
<1> DEFINE N == Len(s)
           a == << <<>> >>
           g == [i \in 1..N |-> [ps \in HostLists |-> AddChar(ps, s[i])]]
<1>1. N \in Nat /\ (\A i \in 1..N : s[i] \in Chars)
  BY LenProperties, ElementOfSeq DEF Str
<1>2. a \in HostLists
  <2> DEFINE e == <<>>
  <2>1. e \in Host
    BY EmptyStr DEF Host, IsHost, Slashes
  <2> HIDE DEF e
  <2>2. <<e>> \in Seq(Host) /\ <<e>> # <<>>
    BY <2>1
  <2> QED
    BY <2>2 DEF HostLists, e
<1> HIDE DEF N, a
<1>3. g \in [1..N -> [HostLists -> HostLists]]
  BY <1>1, AddCharType
<1>4. PICK f \in [0..N -> HostLists] : Recurs(f, N, a, g)
  <2> HIDE DEF g
  <2> QED
    BY <1>1, <1>2, <1>3, RecursionExists
<1> DEFINE Eq(h) == h = [i \in 0..N |-> IF i = 0 THEN a ELSE AddChar(h[i - 1], s[i])]
<1>5. Eq(f)
  <2>1. ASSUME NEW i \in 0..N
        PROVE  f[i] = IF i = 0 THEN a ELSE AddChar(f[i - 1], s[i])
    <3>1. f[i] = IF i = 0 THEN a ELSE g[i][f[i - 1]]
      BY <1>4, Zenon DEF Recurs
    <3>2. CASE i = 0
      BY <3>1, <3>2
    <3>3. CASE i # 0
      <4>1. i \in 1..N /\ i - 1 \in 0..N
        BY <1>1, <3>3
      <4>2. f[i - 1] \in HostLists
        BY <4>1
      <4>3. g[i][f[i - 1]] = AddChar(f[i - 1], s[i])
        BY <4>1, <4>2
      <4> QED
        BY <3>1, <3>3, <4>3
    <3> QED
      BY <3>2, <3>3
  <2> QED
    BY <1>4, <2>1 DEF Recurs
<1> DEFINE h == CHOOSE x : Eq(x)
<1>6. Eq(h)
  <2> HIDE DEF Eq
  <2> QED
    BY <1>5
<1>7. Parts(s) = h[N]
  BY DEF Parts, N, a
<1> HIDE DEF h, g
<1>8. h = [i \in 0..N |-> IF i = 0 THEN a ELSE AddChar(h[i - 1], s[i])]
  BY <1>6
<1>9. h[0] = a
  <2>1. 0 \in 0..N
    BY <1>1
  <2> QED
    BY <1>8, <2>1
<1>10. \A i \in 1..N : h[i] = AddChar(h[i - 1], s[i])
  <2> SUFFICES ASSUME NEW i \in 1..N
               PROVE  h[i] = AddChar(h[i - 1], s[i])
    OBVIOUS
  <2>1. i \in 0..N /\ i # 0
    BY <1>1
  <2> QED
    BY <1>8, <2>1, Zenon
<1> DEFINE A == {i \in 1..N : h[i] \in HostLists}
<1>11. ASSUME NEW n \in 1..N, n = 1 \/ n - 1 \in A
       PROVE  n \in A
  <2>1. h[n - 1] \in HostLists
    <3>1. CASE n = 1
      <4>1. n - 1 = 0
        BY <3>1
      <4> QED
        BY <1>2, <1>9, <4>1
    <3>2. CASE n # 1
      BY <1>11, <3>2
    <3> QED
      BY <3>1, <3>2
  <2>2. AddChar(h[n - 1], s[n]) \in HostLists
    BY <1>1, <2>1, AddCharType
  <2> QED
    BY <1>10, <2>2
<1>12. 1..N \subseteq A
  <2> HIDE DEF A
  <2> QED
    BY <1>1, <1>11, Ascend
<1>13. \A i \in 0..N : h[i] \in HostLists
  <2> SUFFICES ASSUME NEW i \in 0..N
               PROVE  h[i] \in HostLists
    OBVIOUS
  <2>1. i = 0 \/ i \in 1..N
    BY <1>1
  <2> QED
    BY <1>2, <1>9, <1>12, <2>1
<1>14. h \in [0..N -> HostLists]
  BY <1>8, <1>13, Zenon
<1> QED
  BY <1>7, <1>9, <1>10, <1>14 DEF PartsFold, N, a

\* path.Clean keeps no part that is empty, "." or "..".
LEMMA AddPartType ==
  ASSUME NEW ks \in Seq(Name), NEW p \in Host
  PROVE  AddPart(ks, p) \in Seq(Name)
<1>1. CASE p \in Name
  <2>1. Append(ks, p) \in Seq(Name)
    BY <1>1, AppendCat
  <2>2. p \notin {<<>>, <<".">>, <<".", ".">>}
    BY <1>1 DEF Name
  <2> QED
    BY <2>1, <2>2 DEF AddPart
<1>2. CASE p \notin Name /\ ks = <<>>
  BY <1>2 DEF AddPart, Name
<1>3. CASE p \notin Name /\ ks # <<>>
  <2>1. Front(ks) \in Seq(Name)
    BY <1>3, FrontProperties
  <2> QED
    BY <1>3, <2>1 DEF AddPart, Name
<1> QED
  BY <1>1, <1>2, <1>3

\* path.Clean, part by part.
KeptFold(f, ps) ==
  /\ f \in [0..Len(ps) -> Seq(Name)]
  /\ f[0] = <<>>
  /\ \A i \in 1..Len(ps) : f[i] = AddPart(f[i - 1], ps[i])

\* The recursion in KeptParts has a solution.
LEMMA KeptDef ==
  ASSUME NEW ps \in Seq(Host)
  PROVE  \E f : KeptFold(f, ps) /\ KeptParts(ps) = f[Len(ps)]
<1> DEFINE N == Len(ps)
           a == <<>>
           g == [i \in 1..N |-> [ks \in Seq(Name) |-> AddPart(ks, ps[i])]]
<1>1. N \in Nat /\ (\A i \in 1..N : ps[i] \in Host)
  BY LenProperties, ElementOfSeq
<1>2. a \in Seq(Name)
  BY EmptySeq
<1> HIDE DEF N, a
<1>3. g \in [1..N -> [Seq(Name) -> Seq(Name)]]
  BY <1>1, AddPartType
<1>4. PICK f \in [0..N -> Seq(Name)] : Recurs(f, N, a, g)
  <2> HIDE DEF g
  <2> QED
    BY <1>1, <1>2, <1>3, RecursionExists
<1> DEFINE Eq(h) == h = [i \in 0..N |-> IF i = 0 THEN a ELSE AddPart(h[i - 1], ps[i])]
<1>5. Eq(f)
  <2>1. ASSUME NEW i \in 0..N
        PROVE  f[i] = IF i = 0 THEN a ELSE AddPart(f[i - 1], ps[i])
    <3>1. f[i] = IF i = 0 THEN a ELSE g[i][f[i - 1]]
      BY <1>4, Zenon DEF Recurs
    <3>2. CASE i = 0
      BY <3>1, <3>2
    <3>3. CASE i # 0
      <4>1. i \in 1..N /\ i - 1 \in 0..N
        BY <1>1, <3>3
      <4>2. f[i - 1] \in Seq(Name)
        BY <4>1
      <4>3. g[i][f[i - 1]] = AddPart(f[i - 1], ps[i])
        BY <4>1, <4>2
      <4> QED
        BY <3>1, <3>3, <4>3
    <3> QED
      BY <3>2, <3>3
  <2> QED
    BY <1>4, <2>1 DEF Recurs
<1> DEFINE h == CHOOSE x : Eq(x)
<1>6. Eq(h)
  <2> HIDE DEF Eq
  <2> QED
    BY <1>5
<1>7. KeptParts(ps) = h[N]
  BY DEF KeptParts, N, a
<1> HIDE DEF h, g
<1>8. h = [i \in 0..N |-> IF i = 0 THEN a ELSE AddPart(h[i - 1], ps[i])]
  BY <1>6
<1>9. h[0] = a
  <2>1. 0 \in 0..N
    BY <1>1
  <2> QED
    BY <1>8, <2>1
<1>10. \A i \in 1..N : h[i] = AddPart(h[i - 1], ps[i])
  <2> SUFFICES ASSUME NEW i \in 1..N
               PROVE  h[i] = AddPart(h[i - 1], ps[i])
    OBVIOUS
  <2>1. i \in 0..N /\ i # 0
    BY <1>1
  <2> QED
    BY <1>8, <2>1, Zenon
<1> DEFINE A == {i \in 1..N : h[i] \in Seq(Name)}
<1>11. ASSUME NEW n \in 1..N, n = 1 \/ n - 1 \in A
       PROVE  n \in A
  <2>1. h[n - 1] \in Seq(Name)
    <3>1. CASE n = 1
      <4>1. n - 1 = 0
        BY <3>1
      <4> QED
        BY <1>2, <1>9, <4>1
    <3>2. CASE n # 1
      BY <1>11, <3>2
    <3> QED
      BY <3>1, <3>2
  <2>2. AddPart(h[n - 1], ps[n]) \in Seq(Name)
    BY <1>1, <2>1, AddPartType
  <2> QED
    BY <1>10, <2>2
<1>12. 1..N \subseteq A
  <2> HIDE DEF A
  <2> QED
    BY <1>1, <1>11, Ascend
<1>13. \A i \in 0..N : h[i] \in Seq(Name)
  <2> SUFFICES ASSUME NEW i \in 0..N
               PROVE  h[i] \in Seq(Name)
    OBVIOUS
  <2>1. i = 0 \/ i \in 1..N
    BY <1>1
  <2> QED
    BY <1>2, <1>9, <1>12, <2>1
<1>14. h \in [0..N -> Seq(Name)]
  BY <1>8, <1>13, Zenon
<1> QED
  BY <1>7, <1>9, <1>10, <1>14 DEF KeptFold, N, a

\* The types of what is split and kept.
LEMMA PartsType ==
  /\ \A s \in Str : Parts(s) \in Seq(Host) /\ Parts(s) # <<>>
  /\ \A ps \in Seq(Host) : KeptParts(ps) \in Seq(Name)
<1>1. ASSUME NEW s \in Str
      PROVE  Parts(s) \in Seq(Host) /\ Parts(s) # <<>>
  <2>1. PICK f : PartsFold(f, s) /\ Parts(s) = f[Len(s)]
    BY PartsDef
  <2>2. Len(s) \in 0..Len(s)
    BY LenProperties DEF Str
  <2> QED
    BY <2>1, <2>2 DEF PartsFold, HostLists
<1>2. ASSUME NEW ps \in Seq(Host)
      PROVE  KeptParts(ps) \in Seq(Name)
  <2>1. PICK f : KeptFold(f, ps) /\ KeptParts(ps) = f[Len(ps)]
    BY KeptDef
  <2>2. Len(ps) \in 0..Len(ps)
    BY LenProperties
  <2> QED
    BY <2>1, <2>2 DEF KeptFold
<1> QED
  BY <1>1, <1>2

\* The parts with their slashes.
Slashed(ps) == [i \in DOMAIN ps |-> Slash \o ps[i]]

\* Each part gets the slash before it.
LEMMA SlashedType ==
  ASSUME NEW ps \in Seq(Host)
  PROVE  /\ Slashed(ps) \in Seq(Str) /\ Len(Slashed(ps)) = Len(ps)
         /\ \A i \in 1..Len(ps) : Slashed(ps)[i] = Cat(Slash, ps[i])
<1>1. Len(ps) \in Nat /\ DOMAIN ps = 1..Len(ps) /\ (\A i \in 1..Len(ps) : ps[i] \in Host)
  BY LenProperties, ElementOfSeq
<1>2. \A i \in 1..Len(ps) : Cat(Slash, ps[i]) \in Str
  BY <1>1, SlashCat DEF Host
<1>3. Slashed(ps) = [i \in 1..Len(ps) |-> Cat(Slash, ps[i])]
  BY <1>1 DEF Slashed, Cat
<1>4. Slashed(ps) \in Seq(Str)
  BY <1>1, <1>2, <1>3, IsASeq
<1>5. Len(Slashed(ps)) = Len(ps)
  BY <1>1, <1>3, <1>4, LenProperties
<1> QED
  BY <1>3, <1>4, <1>5

\* What path.Clean returns begins with a slash.
LEMMA FromPartsType ==
  ASSUME NEW ps \in Seq(Host)
  PROVE  FromParts(ps) \in Str /\ IsPrefix(Slash, FromParts(ps))
<1>1. CASE ps = <<>>
  <2>1. FromParts(ps) = Slash
    BY <1>1 DEF FromParts
  <2>2. IsPrefix(Slash, Slash)
    BY SlashStr, LeadingSlash
  <2> QED
    BY <2>1, <2>2, SlashStr
<1>2. CASE ps # <<>>
  <2> DEFINE ss == Slashed(ps)
             rest == FlattenSeq(Tail(ss))
  <2>1. FromParts(ps) = FlattenSeq(ss)
    BY <1>2 DEF FromParts, Slashed
  <2>2. /\ ss \in Seq(Str) /\ Len(ss) = Len(ps)
        /\ \A i \in 1..Len(ps) : ss[i] = Cat(Slash, ps[i])
    BY SlashedType
  <2>3. Len(ps) \in Nat /\ Len(ps) # 0 /\ ps[1] \in Str
    <3>1. Len(ps) \in Nat /\ Len(ps) # 0 /\ (\A i \in 1..Len(ps) : ps[i] \in Host)
      BY <1>2, LenProperties, EmptySeq, ElementOfSeq
    <3> QED
      BY <3>1 DEF Host
  <2> HIDE DEF ss
  <2>4. ss # <<>> /\ Head(ss) = Cat(Slash, ps[1])
    <3>1. ss # <<>>
      BY <2>2, <2>3, EmptySeq
    <3>2. Head(ss) = ss[1]
      BY <2>2, <3>1, HeadTailProperties
    <3> QED
      BY <2>2, <2>3, <3>1, <3>2
  <2>5. FlattenSeq(ss) = Cat(Head(ss), rest)
    BY <2>2, <2>4, FlattenSeqTail DEF Str
  <2>6. rest \in Str
    <3>1. Tail(ss) \in Seq(Str)
      BY <2>2, <2>4, HeadTailProperties
    <3> QED
      BY <3>1, FlattenSeqType DEF Str
  <2>7. Head(ss) \in Str /\ IsPrefix(Slash, Head(ss))
    BY <2>3, <2>4, SlashCat
  <2> HIDE DEF rest
  <2> QED
    BY <2>1, <2>5, <2>6, <2>7, PathCat
<1> QED
  BY <1>1, <1>2

\* The names that are kept are parts.
LEMMA NamesAreHosts ==
  Seq(Name) \subseteq Seq(Host)
<1> SUFFICES ASSUME NEW ks \in Seq(Name)
             PROVE  ks \in Seq(Host)
  OBVIOUS
<1>1. /\ Len(ks) \in Nat /\ (\A i \in 1..Len(ks) : ks[i] \in Name)
      /\ ks = [i \in 1..Len(ks) |-> ks[i]]
  BY LenProperties, ElementOfSeq
<1>2. \A i \in 1..Len(ks) : ks[i] \in Host
  BY <1>1 DEF Name
<1> QED
  BY <1>1, <1>2, IsASeq

\* path.Clean, path.Join and path.Dir return absolute paths.
LEMMA CleanType ==
  /\ \A s \in Str : Clean(s) \in Str /\ IsPrefix(Slash, Clean(s))
  /\ \A s, t \in Str : PathJoin(s, t) \in Str /\ IsPrefix(Slash, PathJoin(s, t))
  /\ \A s \in Str : Dir(s) \in Str /\ IsPrefix(Slash, Dir(s))
<1>1. ASSUME NEW s \in Str
      PROVE  Clean(s) \in Str /\ IsPrefix(Slash, Clean(s))
  BY PartsType, NamesAreHosts, FromPartsType DEF Clean
<1>2. ASSUME NEW s \in Str, NEW t \in Str
      PROVE  PathJoin(s, t) \in Str /\ IsPrefix(Slash, PathJoin(s, t))
  <2>1. Cat(Cat(s, Slash), t) \in Str
    BY SlashStr, CatLaws DEF Str
  <2> QED
    BY <1>1, <2>1 DEF PathJoin, Cat
<1>3. <<".", ".">> \in Str
  <2> DEFINE d == "."
  <2>1. d \in Chars
    BY CharsAssumption
  <2> HIDE DEF d
  <2>2. <<d, d>> \in Seq(Chars)
    BY <2>1
  <2> QED
    BY <2>2 DEF d, Str
<1> DEFINE up == <<".", ".">>
<1> HIDE DEF up
<1>4. ASSUME NEW s \in Str
      PROVE  Dir(s) \in Str /\ IsPrefix(Slash, Dir(s))
  BY <1>2, <1>3 DEF Dir
<1> QED
  BY <1>1, <1>2, <1>4

\* strings.Split of one more character.
LEMMA PartsAppend ==
  ASSUME NEW s \in Str, NEW c \in Chars
  PROVE  Append(s, c) \in Str /\ Parts(Append(s, c)) = AddChar(Parts(s), c)
<1> DEFINE t == Append(s, c)
           N == Len(s)
<1>1. /\ t \in Str /\ Len(t) = N + 1 /\ (\A i \in 1..N : t[i] = s[i])
      /\ t[N + 1] = c /\ N \in Nat
  BY AppendProperties, LenProperties DEF Str
<1> HIDE DEF t, N
<1>2. PICK f : PartsFold(f, s) /\ Parts(s) = f[N]
  BY PartsDef DEF N
<1>3. PICK g : PartsFold(g, t) /\ Parts(t) = g[N + 1]
  BY <1>1, PartsDef
<1>4. f[0] = << <<>> >> /\ (\A i \in 1..N : f[i] = AddChar(f[i - 1], s[i]))
  BY <1>2 DEF PartsFold, N
<1>5. /\ g[0] = << <<>> >> /\ (\A i \in 1..N : g[i] = AddChar(g[i - 1], s[i]))
      /\ g[N + 1] = AddChar(g[N], c)
  <2>1. g[0] = << <<>> >> /\ (\A i \in 1..N + 1 : g[i] = AddChar(g[i - 1], t[i]))
    BY <1>1, <1>3 DEF PartsFold
  <2>2. ASSUME NEW i \in 1..N
        PROVE  g[i] = AddChar(g[i - 1], s[i])
    <3>1. i \in 1..N + 1
      BY <1>1
    <3>2. t[i] = s[i]
      BY <1>1
    <3> QED
      BY <2>1, <3>1, <3>2
  <2>3. N + 1 \in 1..N + 1 /\ N + 1 - 1 = N
    BY <1>1
  <2> DEFINE k == N + 1
  <2>4. k \in 1..N + 1 /\ k - 1 = N
    BY <1>1
  <2> HIDE DEF k
  <2>5. g[k] = AddChar(g[k - 1], t[k])
    BY <2>1, <2>4
  <2>6. g[N + 1] = AddChar(g[N], c)
    BY <1>1, <2>4, <2>5 DEF k
  <2> QED
    BY <2>1, <2>2, <2>6
<1> DEFINE A == {i \in 1..N : f[i] = g[i]}
<1>6. ASSUME NEW n \in 1..N, n = 1 \/ n - 1 \in A
      PROVE  n \in A
  <2>1. f[n - 1] = g[n - 1]
    <3>1. CASE n = 1
      <4>1. n - 1 = 0
        BY <3>1
      <4> QED
        BY <1>4, <1>5, <4>1
    <3>2. CASE n # 1
      BY <1>6, <3>2
    <3> QED
      BY <3>1, <3>2
  <2> QED
    BY <1>4, <1>5, <2>1
<1>7. 1..N \subseteq A
  <2> HIDE DEF A
  <2> QED
    BY <1>1, <1>6, Ascend
<1>8. f[N] = g[N]
  <2>1. N = 0 \/ N \in 1..N
    BY <1>1
  <2> QED
    BY <1>4, <1>5, <1>7, <2>1
<1> QED
  BY <1>1, <1>2, <1>3, <1>5, <1>8 DEF t

\* path.Clean of one more part.
LEMMA KeptAppend ==
  ASSUME NEW s \in Seq(Host), NEW c \in Host
  PROVE  KeptParts(Append(s, c)) = AddPart(KeptParts(s), c)
<1> DEFINE t == Append(s, c)
           N == Len(s)
<1>1. /\ t \in Seq(Host) /\ Len(t) = N + 1 /\ (\A i \in 1..N : t[i] = s[i])
      /\ t[N + 1] = c /\ N \in Nat
  BY AppendProperties, LenProperties
<1> HIDE DEF t, N
<1>2. PICK f : KeptFold(f, s) /\ KeptParts(s) = f[N]
  BY KeptDef DEF N
<1>3. PICK g : KeptFold(g, t) /\ KeptParts(t) = g[N + 1]
  BY <1>1, KeptDef
<1>4. f[0] = <<>> /\ (\A i \in 1..N : f[i] = AddPart(f[i - 1], s[i]))
  BY <1>2 DEF KeptFold, N
<1>5. /\ g[0] = <<>> /\ (\A i \in 1..N : g[i] = AddPart(g[i - 1], s[i]))
      /\ g[N + 1] = AddPart(g[N], c)
  <2>1. g[0] = <<>> /\ (\A i \in 1..N + 1 : g[i] = AddPart(g[i - 1], t[i]))
    BY <1>1, <1>3 DEF KeptFold
  <2>2. ASSUME NEW i \in 1..N
        PROVE  g[i] = AddPart(g[i - 1], s[i])
    <3>1. i \in 1..N + 1
      BY <1>1
    <3>2. t[i] = s[i]
      BY <1>1
    <3> QED
      BY <2>1, <3>1, <3>2
  <2>3. N + 1 \in 1..N + 1 /\ N + 1 - 1 = N
    BY <1>1
  <2> DEFINE k == N + 1
  <2>4. k \in 1..N + 1 /\ k - 1 = N
    BY <1>1
  <2> HIDE DEF k
  <2>5. g[k] = AddPart(g[k - 1], t[k])
    BY <2>1, <2>4
  <2>6. g[N + 1] = AddPart(g[N], c)
    BY <1>1, <2>4, <2>5 DEF k
  <2> QED
    BY <2>1, <2>2, <2>6
<1> DEFINE A == {i \in 1..N : f[i] = g[i]}
<1>6. ASSUME NEW n \in 1..N, n = 1 \/ n - 1 \in A
      PROVE  n \in A
  <2>1. f[n - 1] = g[n - 1]
    <3>1. CASE n = 1
      <4>1. n - 1 = 0
        BY <3>1
      <4> QED
        BY <1>4, <1>5, <4>1
    <3>2. CASE n # 1
      BY <1>6, <3>2
    <3> QED
      BY <3>1, <3>2
  <2> QED
    BY <1>4, <1>5, <2>1
<1>7. 1..N \subseteq A
  <2> HIDE DEF A
  <2> QED
    BY <1>1, <1>6, Ascend
<1>8. f[N] = g[N]
  <2>1. N = 0 \/ N \in 1..N
    BY <1>1
  <2> QED
    BY <1>4, <1>5, <1>7, <2>1
<1> QED
  BY <1>1, <1>2, <1>3, <1>5, <1>8 DEF t

\* The empty part.
NoPart == << <<>> >>

\* What is split and kept of nothing.
LEMMA PartsEmpty ==
  /\ Parts(<<>>) = NoPart /\ KeptParts(<<>>) = <<>>
  /\ <<>> \in Host /\ NoPart \in Seq(Host)
<1>1. Len(<<>>) = 0 /\ <<>> \in Str /\ <<>> \in Seq(Host)
  BY EmptySeq DEF Str
<1>2. PICK f : PartsFold(f, <<>>) /\ Parts(<<>>) = f[Len(<<>>)]
  BY <1>1, PartsDef
<1>3. PICK g : KeptFold(g, <<>>) /\ KeptParts(<<>>) = g[Len(<<>>)]
  BY <1>1, KeptDef
<1> DEFINE e == <<>>
<1>4. e \in Host
  BY EmptyStr DEF Host, IsHost, Slashes
<1> HIDE DEF e
<1>5. <<e>> \in Seq(Host)
  BY <1>4
<1> QED
  BY <1>1, <1>2, <1>3, <1>4, <1>5 DEF PartsFold, KeptFold, NoPart, e

\* A character goes to the last part.
LEMMA AddCharCat ==
  ASSUME NEW x \in Seq(Host), NEW y \in HostLists, NEW c \in Chars
  PROVE  AddChar(Cat(x, y), c) = Cat(x, AddChar(y, c))
<1> DEFINE f == Front(y)
           l == Last(y)
           l2 == Append(l, c)
           e == <<>>
<1>1. y \in Seq(Host) /\ y # <<>> /\ f \in Seq(Host) /\ l \in Host /\ y = Append(f, l)
  BY FrontProperties DEF HostLists
<1>2. e \in Host
  BY PartsEmpty
<1> HIDE DEF e
<1>3. CASE c = "/"
  <2>1. Cat(x, Append(y, e)) = Append(Cat(x, y), e)
    BY <1>1, <1>2, CatEnd
  <2> QED
    BY <1>3, <2>1 DEF AddChar, e
<1>4. CASE c # "/"
  <2>1. l2 \in Host
    BY <1>1, <1>4, HostAppend
  <2> HIDE DEF f, l
  <2>2. Front(Cat(x, y)) = Cat(x, f) /\ Last(Cat(x, y)) = l
    BY <1>1, CatEnd
  <2> HIDE DEF l2
  <2>3. Cat(x, Append(f, l2)) = Append(Cat(x, f), l2)
    BY <1>1, <2>1, CatEnd
  <2> QED
    BY <1>4, <2>2, <2>3 DEF AddChar, f, l, l2
<1> QED
  BY <1>3, <1>4

\* strings.Split at a slash.
LEMMA PartsCat ==
  ASSUME NEW a \in Str
  PROVE  \A b \in Str : Parts(Cat(Cat(a, Slash), b)) = Cat(Parts(a), Parts(b))
<1> DEFINE as == Cat(a, Slash)
           A == {b \in Str : Parts(Cat(as, b)) = Cat(Parts(a), Parts(b))}
<1>1. as \in Str /\ Slash \in Str
  BY SlashStr, CatLaws DEF Str
<1>2. Parts(a) \in Seq(Host) /\ Parts(a) # <<>>
  BY PartsType
<1>3. Parts(as) = Cat(Parts(a), NoPart)
  <2> DEFINE c == "/"
             e == <<>>
             x == Parts(a)
  <2>1. c \in Chars
    BY CharsAssumption
  <2>2. e \in Host /\ NoPart = <<e>>
    BY PartsEmpty DEF NoPart
  <2>3. as = Cat(a, <<c>>)
    BY DEF Slash
  <2> HIDE DEF c, as
  <2>4. as = Append(a, c)
    BY <2>1, <2>3, AppendCat DEF Str
  <2>5. Parts(as) = AddChar(Parts(a), c)
    BY <2>1, <2>4, PartsAppend
  <2>6. AddChar(x, c) = Append(x, e)
    BY DEF AddChar, c
  <2> HIDE DEF e, x
  <2>7. Append(x, e) = Cat(x, <<e>>)
    BY <1>2, <2>2, AppendCat DEF x
  <2> QED
    BY <2>2, <2>5, <2>6, <2>7 DEF x
<1> HIDE DEF as
<1>4. <<>> \in A
  <2>1. Cat(as, <<>>) = as /\ <<>> \in Str
    BY <1>1, EmptyStr
  <2> QED
    BY <1>3, <2>1, PartsEmpty
<1>5. ASSUME NEW b \in Seq(Chars), NEW c \in Chars, b \in A
      PROVE  Append(b, c) \in A
  <2> DEFINE ab == Cat(as, b)
             x == Parts(a)
             y == Parts(b)
             bc == Append(b, c)
  <2>1. b \in Str /\ Parts(ab) = Cat(x, y)
    BY <1>5
  <2>2. ab \in Str
    BY <1>1, <2>1, CatLaws DEF Str
  <2>3. Cat(as, bc) = Append(ab, c)
    <3>1. as \in Seq(Chars)
      BY <1>1 DEF Str
    <3> HIDE DEF A, x, y
    <3>2. \A s \in Seq(Chars) : \A t \in Seq(Chars) : \A e \in Chars :
            Cat(s, Append(t, e)) = Append(Cat(s, t), e)
      BY CatEnd
    <3> QED
      BY <3>1, <3>2
  <2>4. bc \in Str /\ Parts(bc) = AddChar(y, c)
    BY <2>1, PartsAppend
  <2> HIDE DEF ab, bc
  <2>5. Parts(Append(ab, c)) = AddChar(Parts(ab), c)
    BY <2>2, PartsAppend
  <2>6. y \in HostLists
    BY <2>1, PartsType DEF HostLists
  <2> HIDE DEF x, y
  <2>7. AddChar(Cat(x, y), c) = Cat(x, AddChar(y, c))
    BY <1>2, <2>6, AddCharCat DEF x
  <2>8. Parts(Cat(as, bc)) = Cat(x, Parts(bc))
    BY <2>1, <2>3, <2>4, <2>5, <2>7
  <2> QED
    BY <2>4, <2>8 DEF x, bc
<1>6. \A b \in Seq(Chars) : b \in A
  <2> HIDE DEF A
  <2> QED
    BY <1>4, <1>5, AppendInduction
<1> QED
  BY <1>6 DEF Str, as

\* A string without slash is one part.
LEMMA PartsHost ==
  \A h \in Host : Parts(h) = <<h>>
<1> DEFINE A == {s \in Str : s \in Host => Parts(s) = <<s>>}
<1>1. <<>> \in A
  BY PartsEmpty, EmptyStr DEF NoPart
<1>2. ASSUME NEW s \in Seq(Chars), NEW c \in Chars, s \in A
      PROVE  Append(s, c) \in A
  <2> DEFINE t == Append(s, c)
  <2>1. s \in Str /\ t \in Str /\ Parts(t) = AddChar(Parts(s), c)
    BY PartsAppend DEF Str
  <2>2. SUFFICES ASSUME t \in Host
                 PROVE  Parts(t) = <<t>>
    BY <2>1
  <2>3. c # "/" /\ s \in Host
    <3>1. /\ Len(t) = Len(s) + 1 /\ t[Len(s) + 1] = c /\ Len(s) \in Nat
          /\ \A i \in 1..Len(s) : t[i] = s[i]
      BY AppendProperties, LenProperties
    <3> HIDE DEF t
    <3>2. \A i \in 1..Len(t) : t[i] # "/"
      BY <2>1, <2>2, SlashesFinite DEF Host, IsHost
    <3>3. Len(s) + 1 \in 1..Len(t) /\ (\A i \in 1..Len(s) : i \in 1..Len(t))
      BY <3>1
    <3>4. c # "/" /\ (\A i \in 1..Len(s) : s[i] # "/")
      BY <3>1, <3>2, <3>3
    <3>5. Slashes(s) = {}
      BY <2>1, <3>4, SlashesFinite
    <3> QED
      BY <2>1, <3>4, <3>5 DEF Host, IsHost
  <2>4. Parts(s) = <<s>>
    BY <1>2, <2>3
  <2> DEFINE e == <<>>
  <2>5. Append(e, s) = <<s>> /\ Append(e, t) = <<t>> /\ e \in Seq(Host)
    <3> HIDE DEF t
    <3> QED
      BY EmptySeq
  <2>6. Front(Append(e, s)) = e /\ Last(Append(e, s)) = s
    <3>1. e \in Seq(Host) /\ s \in Host
      BY <2>3, <2>5
    <3> HIDE DEF e
    <3> QED
      BY <3>1, AppendCat, ZenonT(30)
  <2> HIDE DEF e
  <2>7. AddChar(Parts(s), c) = Append(e, t)
    BY <2>3, <2>4, <2>5, <2>6 DEF AddChar
  <2> QED
    BY <2>1, <2>5, <2>7
<1>3. \A s \in Seq(Chars) : s \in A
  <2> HIDE DEF A
  <2> QED
    BY <1>1, <1>2, AppendInduction
<1> QED
  BY <1>3 DEF Host, Str

\* path.Clean keeps names, and drops an empty part.
LEMMA KeptNames ==
  ASSUME NEW ps \in Seq(Host)
  PROVE  /\ \A ns \in Seq(Name) : KeptParts(Cat(ps, ns)) = Cat(KeptParts(ps), ns)
         /\ KeptParts(Cat(ps, NoPart)) = KeptParts(ps)
<1> DEFINE A == {ns \in Seq(Name) : KeptParts(Cat(ps, ns)) = Cat(KeptParts(ps), ns)}
           ks == KeptParts(ps)
<1>0. ks \in Seq(Name)
  BY PartsType
<1>1. <<>> \in A
  <2>1. Cat(ps, <<>>) = ps
    BY CatLaws
  <2>2. Cat(ks, <<>>) = ks /\ <<>> \in Seq(Name)
    BY <1>0, CatLaws, EmptySeq
  <2> QED
    BY <2>1, <2>2
<1>2. ASSUME NEW ns \in Seq(Name), NEW n \in Name, ns \in A
      PROVE  Append(ns, n) \in A
  <2> DEFINE pn == Cat(ps, ns)
             kn == Cat(ks, ns)
  <2>1. ns \in Seq(Host) /\ n \in Host /\ n \notin {<<>>, <<".">>, <<".", ".">>}
    BY NamesAreHosts DEF Name
  <2>2. pn \in Seq(Host)
    BY <2>1, CatLaws
  <2>3. Cat(ps, Append(ns, n)) = Append(pn, n)
    BY <2>1, CatEnd
  <2>4. Cat(ks, Append(ns, n)) = Append(kn, n)
    BY <1>0, CatEnd
  <2>5. KeptParts(pn) = kn
    BY <1>2
  <2>6. KeptParts(Append(pn, n)) = AddPart(kn, n)
    <3> HIDE DEF pn
    <3> QED
      BY <2>1, <2>2, <2>5, KeptAppend
  <2>7. AddPart(kn, n) = Append(kn, n)
    BY <2>1 DEF AddPart
  <2>8. Append(ns, n) \in Seq(Name)
    BY AppendProperties
  <2> HIDE DEF pn, kn
  <2> QED
    BY <2>3, <2>4, <2>6, <2>7, <2>8
<1>3. \A ns \in Seq(Name) : ns \in A
  <2> HIDE DEF A
  <2> QED
    BY <1>1, <1>2, AppendInduction
<1>4. KeptParts(Cat(ps, NoPart)) = ks
  <2> DEFINE e == <<>>
  <2>1. e \in Host /\ NoPart = <<e>>
    BY PartsEmpty DEF NoPart
  <2>2. AddPart(ks, e) = ks
    BY DEF AddPart
  <2> HIDE DEF e, ks
  <2>3. Cat(ps, NoPart) = Append(ps, e)
    BY <2>1, AppendCat
  <2> QED
    BY <2>1, <2>2, <2>3, KeptAppend DEF ks
<1> QED
  BY <1>3, <1>4

\* The parts, each with its slash, one after the other.
Flat(ps) == FlattenSeq(Slashed(ps))

\* What FromParts puts together.
LEMMA FlatSteps ==
  /\ Flat(<<>>) = <<>>
  /\ \A ps \in Seq(Host) : Flat(ps) \in Str
  /\ \A ps \in Seq(Host) : \A p \in Host :
       Flat(Append(ps, p)) = Cat(Flat(ps), Cat(Slash, p))
  /\ \A ps \in Seq(Host) : FromParts(ps) = IF ps = <<>> THEN Slash ELSE Flat(ps)
<1>1. Flat(<<>>) = <<>>
  <2>1. <<>> \in Seq(Host) /\ Len(<<>>) = 0
    BY EmptySeq
  <2>2. Slashed(<<>>) \in Seq(Str) /\ Len(Slashed(<<>>)) = 0
    BY <2>1, SlashedType
  <2>3. Slashed(<<>>) = <<>>
    BY <2>2, EmptySeq
  <2> QED
    BY <2>1, <2>3 DEF Flat, FlattenSeq
<1>2. ASSUME NEW ps \in Seq(Host)
      PROVE  Flat(ps) \in Str
  BY SlashedType, FlattenSeqType DEF Flat, Str
<1>3. ASSUME NEW ps \in Seq(Host), NEW p \in Host
      PROVE  Flat(Append(ps, p)) = Cat(Flat(ps), Cat(Slash, p))
  <2> DEFINE q == Cat(Slash, p)
             ss == Slashed(ps)
             pp == Append(ps, p)
             s == Slashed(pp)
             t == Append(ss, q)
             N == Len(ps)
  <2>1. q \in Str
    BY SlashCat DEF Host
  <2>2. /\ pp \in Seq(Host) /\ Len(pp) = N + 1 /\ (\A i \in 1..N : pp[i] = ps[i])
        /\ pp[N + 1] = p /\ N \in Nat
    BY AppendProperties, LenProperties
  <2>3. ss \in Seq(Str) /\ Len(ss) = N /\ (\A i \in 1..N : ss[i] = Cat(Slash, ps[i]))
    BY SlashedType
  <2> HIDE DEF pp, ss, N
  <2>4. s \in Seq(Str) /\ Len(s) = N + 1 /\ (\A i \in 1..N + 1 : s[i] = Cat(Slash, pp[i]))
    BY <2>2, SlashedType
  <2> HIDE DEF q, s
  <2>5. /\ t \in Seq(Str) /\ Len(t) = N + 1 /\ (\A i \in 1..N : t[i] = ss[i])
        /\ t[N + 1] = q
    BY <2>1, <2>3, AppendProperties
  <2> HIDE DEF t
  <2>6. ASSUME NEW i \in 1..Len(s)
        PROVE  s[i] = t[i]
    <3>1. i \in 1..N \/ i = N + 1
      BY <2>2, <2>4
    <3>2. CASE i \in 1..N
      <4>1. i \in 1..N + 1
        BY <2>4
      <4> QED
        BY <2>2, <2>3, <2>4, <2>5, <3>2, <4>1
    <3>3. CASE i = N + 1
      <4>1. s[N + 1] = Cat(Slash, pp[N + 1])
        BY <2>4, <3>3
      <4> QED
        BY <2>2, <2>5, <3>3, <4>1 DEF q
    <3> QED
      BY <3>1, <3>2, <3>3
  <2>7. s = t
    BY <2>4, <2>5, <2>6, SameSeq
  <2>8. FlattenSeq(t) = Cat(FlattenSeq(ss), q)
    <3>1. ss \in Seq(Seq(Chars)) /\ q \in Seq(Chars)
      BY <2>1, <2>3 DEF Str
    <3> QED
      BY <3>1, FlattenSeqAppend DEF t
  <2> QED
    BY <2>7, <2>8 DEF Flat, s, ss, pp, q
<1>4. ASSUME NEW ps \in Seq(Host)
      PROVE  FromParts(ps) = IF ps = <<>> THEN Slash ELSE Flat(ps)
  BY DEF FromParts, Flat, Slashed
<1> QED
  BY <1>1, <1>2, <1>3, <1>4

\* Lists of parts one after the other.
LEMMA FlatCat ==
  ASSUME NEW ps \in Seq(Host)
  PROVE  \A qs \in Seq(Host) : Flat(Cat(ps, qs)) = Cat(Flat(ps), Flat(qs))
<1> DEFINE A == {qs \in Seq(Host) : Flat(Cat(ps, qs)) = Cat(Flat(ps), Flat(qs))}
<1>1. Flat(ps) \in Str
  BY FlatSteps
<1>2. <<>> \in A
  <2>1. Cat(ps, <<>>) = ps /\ <<>> \in Seq(Host)
    BY CatLaws, EmptySeq
  <2>2. Cat(Flat(ps), <<>>) = Flat(ps)
    BY <1>1, EmptyStr
  <2> QED
    BY <2>1, <2>2, FlatSteps
<1>3. ASSUME NEW qs \in Seq(Host), NEW q \in Host, qs \in A
      PROVE  Append(qs, q) \in A
  <2> DEFINE pq == Cat(ps, qs)
             sq == Cat(Slash, q)
             fp == Flat(ps)
             fq == Flat(qs)
  <2>1. pq \in Seq(Host) /\ Append(qs, q) \in Seq(Host)
    BY CatLaws, AppendProperties
  <2>2. Cat(ps, Append(qs, q)) = Append(pq, q)
    BY CatEnd
  <2>3. Flat(pq) = Cat(fp, fq)
    BY <1>3
  <2>4. fq \in Str /\ sq \in Str /\ fp \in Str
    BY <1>1, FlatSteps, SlashCat DEF Host
  <2>5. Flat(Append(qs, q)) = Cat(fq, sq)
    BY FlatSteps
  <2> HIDE DEF pq, fp, fq, sq
  <2>6. Flat(Append(pq, q)) = Cat(Flat(pq), sq)
    BY <2>1, FlatSteps DEF sq
  <2>7. Cat(Cat(fp, fq), sq) = Cat(fp, Cat(fq, sq))
    BY <2>4, CatLaws DEF Str
  <2>8. Flat(Cat(ps, Append(qs, q))) = Cat(fp, Flat(Append(qs, q)))
    BY <2>2, <2>3, <2>5, <2>6, <2>7
  <2> QED
    BY <2>1, <2>8 DEF fp
<1>4. \A qs \in Seq(Host) : qs \in A
  <2> HIDE DEF A
  <2> QED
    BY <1>2, <1>3, AppendInduction
<1> QED
  BY <1>4

\* Splitting undoes the putting together.
LEMMA PartsFlat ==
  \A ps \in Seq(Host) : Parts(Flat(ps)) = Cat(NoPart, ps)
<1> DEFINE A == {ps \in Seq(Host) : Parts(Flat(ps)) = Cat(NoPart, ps)}
<1>1. NoPart \in Seq(Host)
  BY PartsEmpty
<1>2. <<>> \in A
  <2>1. Cat(NoPart, <<>>) = NoPart /\ <<>> \in Seq(Host)
    BY <1>1, CatLaws, EmptySeq
  <2> QED
    BY <2>1, FlatSteps, PartsEmpty
<1>3. ASSUME NEW ps \in Seq(Host), NEW p \in Host, ps \in A
      PROVE  Append(ps, p) \in A
  <2> DEFINE f == Flat(ps)
             one == <<p>>
  <2>1. f \in Str /\ Flat(Append(ps, p)) = Cat(f, Cat(Slash, p)) /\ p \in Str
    BY FlatSteps DEF Host
  <2>2. /\ Append(ps, p) \in Seq(Host) /\ Append(ps, p) = Cat(ps, one)
        /\ one \in Seq(Host)
    BY AppendCat
  <2>3. Parts(f) = Cat(NoPart, ps) /\ Parts(p) = one
    BY <1>3, PartsHost
  <2> HIDE DEF f, one
  <2>4. Cat(f, Cat(Slash, p)) = Cat(Cat(f, Slash), p)
    BY <2>1, SlashStr, CatLaws DEF Str
  <2>5. Parts(Cat(Cat(f, Slash), p)) = Cat(Parts(f), Parts(p))
    BY <2>1, PartsCat
  <2>6. Cat(Cat(NoPart, ps), one) = Cat(NoPart, Cat(ps, one))
    BY <1>1, <2>2, CatLaws
  <2>7. Parts(Flat(Append(ps, p))) = Cat(NoPart, Append(ps, p))
    BY <2>1, <2>2, <2>3, <2>4, <2>5, <2>6
  <2> QED
    BY <2>2, <2>7
<1>4. \A ps \in Seq(Host) : ps \in A
  <2> HIDE DEF A
  <2> QED
    BY <1>2, <1>3, AppendInduction
<1> QED
  BY <1>4

\* Names put together begin with one slash.
LEMMA FlatFirst ==
  ASSUME NEW ns \in Seq(Name), ns # <<>>
  PROVE  \E y \in Str : /\ Flat(ns) = Cat(Slash, y) /\ ~IsPrefix(Slash, y)
                        /\ Parts(y) = ns
<1>1. ns \in Seq(Host) /\ NoPart \in Seq(Host)
  BY NamesAreHosts, PartsEmpty
<1> DEFINE f == Flat(ns)
<1>2. f \in Str /\ IsPrefix(Slash, f)
  <2>1. f = FromParts(ns)
    BY <1>1, FlatSteps
  <2> HIDE DEF f
  <2> QED
    BY <1>1, <2>1, FromPartsType
<1> DEFINE y == Tail(f)
<1>3. y \in Str /\ f = Cat(Slash, y)
  BY <1>2, LeadingSlash
<1>4. ASSUME NEW z \in Str
      PROVE  Parts(Cat(Slash, z)) = Cat(NoPart, Parts(z)) /\ Parts(z) \in Seq(Host)
  <2> DEFINE e == <<>>
  <2>1. e \in Str /\ Cat(e, Slash) = Slash /\ Parts(e) = NoPart
    BY EmptyStr, SlashStr, PartsEmpty
  <2> HIDE DEF e
  <2>2. Parts(Cat(Cat(e, Slash), z)) = Cat(Parts(e), Parts(z))
    BY <2>1, PartsCat
  <2> QED
    BY <2>1, <2>2, PartsType
<1>5. Parts(f) = Cat(NoPart, ns)
  BY <1>1, PartsFlat
<1> HIDE DEF f, y
<1>6. Parts(y) = ns
  <2> DEFINE py == Parts(y)
  <2>1. py \in Seq(Host) /\ Cat(NoPart, py) = Cat(NoPart, ns)
    BY <1>3, <1>4, <1>5
  <2> HIDE DEF py
  <2>2. py = ns
    BY <1>1, <2>1, CatCancel
  <2> QED
    BY <2>2 DEF py
<1>7. ~IsPrefix(Slash, y)
  <2> SUFFICES ASSUME IsPrefix(Slash, y)
               PROVE  FALSE
    OBVIOUS
  <2> DEFINE z == Tail(y)
  <2>1. z \in Str /\ y = Cat(Slash, z)
    BY <1>3, LeadingSlash
  <2> HIDE DEF z
  <2>2. ns = Cat(NoPart, Parts(z)) /\ Parts(z) \in Seq(Host)
    BY <1>4, <1>6, <2>1
  <2> DEFINE e == <<>>
             one == <<e>>
             pz == Parts(z)
  <2>3. NoPart = one
    BY DEF NoPart
  <2> HIDE DEF e, pz
  <2>4. Len(one) = 1 /\ one[1] = e
    OBVIOUS
  <2>5. 1 \in 1..Len(one)
    BY <2>4
  <2> HIDE DEF one
  <2>6. Cat(one, pz)[1] = one[1]
    BY <1>1, <2>2, <2>3, <2>5, CatElements DEF pz
  <2>7. ns[1] = e
    BY <2>2, <2>3, <2>4, <2>6 DEF pz
  <2>8. ns[1] \in Name
    <3>1. Len(ns) \in Nat /\ Len(ns) # 0 /\ (\A i \in 1..Len(ns) : ns[i] \in Name)
      BY LenProperties, EmptySeq, ElementOfSeq
    <3> QED
      BY <3>1
  <2> QED
    BY <2>7, <2>8 DEF Name, e
<1> QED
  BY <1>3, <1>6, <1>7 DEF f

\* The parts path.Clean keeps of a path.
Kept(x) == KeptParts(Parts(x))

\* A path is cleaned to the parts kept of it.
LEMMA KeptType ==
  ASSUME NEW x \in Str
  PROVE  /\ Kept(x) \in Seq(Name) /\ Kept(x) \in Seq(Host)
         /\ Clean(x) = FromParts(Kept(x))
  BY PartsType, NamesAreHosts DEF Kept, Clean

\* A slash at the end of a path keeps no part more.
LEMMA KeptSlash ==
  ASSUME NEW x \in Str
  PROVE  Kept(Cat(x, Slash)) = Kept(x)
<1> DEFINE e == <<>>
           xs == Cat(x, Slash)
<1>1. e \in Str /\ Parts(e) = NoPart
  BY EmptyStr, PartsEmpty
<1>2. xs \in Str
  BY SlashStr, CatLaws DEF Str
<1>3. Cat(xs, e) = xs
  BY <1>2, EmptyStr
<1> HIDE DEF e
<1>4. Parts(Cat(xs, e)) = Cat(Parts(x), NoPart)
  BY <1>1, PartsCat
<1>5. Parts(x) \in Seq(Host)
  BY PartsType
<1>6. KeptParts(Cat(Parts(x), NoPart)) = KeptParts(Parts(x))
  BY <1>5, KeptNames
<1> QED
  BY <1>3, <1>4, <1>6 DEF Kept

\* Names after a path are all kept.
LEMMA KeptFrom ==
  ASSUME NEW x \in Str, NEW ms \in Seq(Name)
  PROVE  Kept(Cat(x, FromParts(ms))) = Cat(Kept(x), ms)
<1>1. ms \in Seq(Host) /\ Kept(x) \in Seq(Name)
  BY NamesAreHosts, KeptType
<1>2. CASE ms = <<>>
  <2>1. FromParts(ms) = Slash /\ Cat(Kept(x), ms) = Kept(x)
    BY <1>1, <1>2, CatLaws DEF FromParts
  <2> QED
    BY <2>1, KeptSlash
<1>3. CASE ms # <<>>
  <2>1. FromParts(ms) = Flat(ms)
    BY <1>1, <1>3, FlatSteps
  <2>2. PICK y \in Str : Flat(ms) = Cat(Slash, y) /\ Parts(y) = ms
    BY <1>3, FlatFirst
  <2>3. Cat(x, Cat(Slash, y)) = Cat(Cat(x, Slash), y)
    BY SlashStr, CatLaws DEF Str
  <2>4. Parts(Cat(Cat(x, Slash), y)) = Cat(Parts(x), ms)
    BY <2>2, PartsCat
  <2>5. KeptParts(Cat(Parts(x), ms)) = Cat(KeptParts(Parts(x)), ms)
    BY PartsType, KeptNames
  <2> QED
    BY <2>1, <2>2, <2>3, <2>4, <2>5 DEF Kept
<1> QED
  BY <1>2, <1>3

\* What is cleaned stays clean, and joining with a clean path adds its parts.
LEMMA CleanFrom ==
  ASSUME NEW ms \in Seq(Name)
  PROVE  /\ Kept(FromParts(ms)) = ms
         /\ Clean(FromParts(ms)) = FromParts(ms)
         /\ \A x \in Str : PathJoin(x, FromParts(ms)) = FromParts(Cat(Kept(x), ms))
<1> DEFINE f == FromParts(ms)
           e == <<>>
<1>1. f \in Str
  BY NamesAreHosts, FromPartsType
<1>2. e \in Str /\ Kept(e) = e
  <2>1. Parts(e) = NoPart
    BY PartsEmpty
  <2>2. e \in Seq(Host) /\ NoPart \in Seq(Host) /\ KeptParts(e) = e
    BY EmptySeq, PartsEmpty
  <2>3. Cat(e, NoPart) = NoPart
    BY <2>2, CatLaws
  <2>4. KeptParts(Cat(e, NoPart)) = KeptParts(e)
    BY <2>2, KeptNames
  <2> QED
    BY <2>1, <2>2, <2>3, <2>4, EmptyStr DEF Kept
<1>3. Cat(e, f) = f /\ Cat(e, ms) = ms
  <2>1. Cat(e, f) = f
    BY <1>1, EmptyStr
  <2>2. Cat(e, ms) = ms
    BY CatLaws
  <2> QED
    BY <2>1, <2>2
<1> HIDE DEF e
<1>4. Kept(f) = ms
  BY <1>2, <1>3, KeptFrom
<1>5. Clean(f) = f
  <2> HIDE DEF f
  <2>1. Clean(f) = FromParts(Kept(f))
    BY <1>1, KeptType
  <2> QED
    BY <1>4, <2>1 DEF f
<1>6. ASSUME NEW x \in Str
      PROVE  PathJoin(x, f) = FromParts(Cat(Kept(x), ms))
  <2> DEFINE xs == Cat(x, Slash)
             xf == Cat(xs, f)
  <2>1. xs \in Str
    BY SlashStr, CatLaws DEF Str
  <2>2. xf \in Str
    BY <1>1, <2>1, CatLaws DEF Str
  <2>3. Kept(xs) = Kept(x)
    BY KeptSlash
  <2>4. PathJoin(x, f) = Clean(xf)
    BY DEF PathJoin, Cat
  <2> HIDE DEF xs
  <2>5. Kept(xf) = Cat(Kept(xs), ms)
    BY <2>1, KeptFrom
  <2> HIDE DEF xf
  <2>6. Clean(xf) = FromParts(Kept(xf))
    BY <2>2, KeptType
  <2> QED
    BY <2>3, <2>4, <2>5, <2>6
<1> QED
  BY <1>4, <1>5, <1>6

\* A place below a root, taken relative to the root as in Directory.resolve.
LEMMA FromCat ==
  ASSUME NEW ns \in Seq(Name), NEW ms \in Seq(Name),
         NEW root, root = FromParts(ns), NEW name, name = FromParts(Cat(ns, ms))
  PROVE  /\ IsPrefix(root, name)
         /\ Cat(Slash, TrimPrefix(TrimPrefix(name, root), Slash)) = FromParts(ms)
<1>1. ns \in Seq(Host) /\ ms \in Seq(Host)
  BY NamesAreHosts
<1> DEFINE nm == Cat(ns, ms)
<1>2. nm \in Seq(Host) /\ nm \in Seq(Name)
  BY <1>1, CatLaws
<1>3. root \in Str /\ name \in Str /\ FromParts(ms) \in Str
  <2> HIDE DEF nm
  <2>1. FromParts(nm) \in Str
    BY <1>2, FromPartsType
  <2> QED
    BY <1>1, <2>1, FromPartsType DEF nm
<1>4. CASE ms = <<>>
  <2> DEFINE e == <<>>
  <2>1. name = root /\ FromParts(ms) = Slash
    BY <1>1, <1>4, CatLaws DEF FromParts
  <2>2. Cat(root, e) = root /\ e \in Str /\ ~IsPrefix(Slash, e) /\ Cat(Slash, e) = Slash
    BY <1>3, EmptyStr, SlashStr
  <2> HIDE DEF e
  <2>3. IsPrefix(root, name) /\ TrimPrefix(name, root) = e
    <3>1. IsPrefix(root, Cat(root, e))
      BY <1>3, <2>2, PrefixCat DEF Str
    <3>2. TrimPrefix(Cat(root, e), root) = e
      BY <1>3, <2>2, TrimCat
    <3> QED
      BY <2>1, <2>2, <3>1, <3>2
  <2>4. TrimPrefix(e, Slash) = e
    BY <2>2 DEF TrimPrefix
  <2> QED
    BY <2>1, <2>2, <2>3, <2>4
<1>5. CASE ms # <<>>
  <2>1. FromParts(ms) = Flat(ms)
    BY <1>1, <1>5, FlatSteps
  <2>2. PICK y \in Str : Flat(ms) = Cat(Slash, y) /\ ~IsPrefix(Slash, y)
    BY <1>5, FlatFirst
  <2>3. TrimPrefix(Cat(Slash, y), Slash) = y /\ TrimPrefix(y, Slash) = y
    BY <2>2, SlashStr, TrimCat DEF TrimPrefix
  <2> DEFINE t == Cat(Slash, y)
  <2>4. t \in Str
    BY SlashCat
  <2>5. CASE ns = <<>>
    <3>1. root = Slash /\ nm = ms
      BY <1>1, <2>5, CatLaws DEF FromParts
    <3>2. name = t
      BY <2>1, <2>2, <3>1
    <3>3. IsPrefix(Slash, t)
      BY SlashCat
    <3> QED
      BY <2>1, <2>2, <2>3, <3>1, <3>2, <3>3
  <2>6. CASE ns # <<>>
    <3>1. root = Flat(ns)
      BY <1>1, <2>6, FlatSteps
    <3>2. nm # <<>>
      <4>1. Len(nm) = Len(ns) + Len(ms) /\ Len(ns) \in Nat /\ Len(ms) \in Nat /\ Len(ns) # 0
        BY <1>1, <2>6, CatElements, LenProperties, EmptySeq
      <4>2. Len(nm) # 0
        BY <4>1
      <4> QED
        BY <4>2, EmptySeq
    <3>3. name = Flat(nm)
      <4> HIDE DEF nm
      <4>1. FromParts(nm) = Flat(nm)
        BY <1>2, <3>2, FlatSteps
      <4> QED
        BY <4>1 DEF nm
    <3>4. name = Cat(root, t)
      BY <1>1, <2>2, <3>1, <3>3, FlatCat
    <3> HIDE DEF t
    <3>5. IsPrefix(root, Cat(root, t))
      BY <1>3, <2>4, PrefixCat DEF Str
    <3>6. TrimPrefix(Cat(root, t), root) = t
      BY <1>3, <2>4, TrimCat
    <3> QED
      BY <2>1, <2>2, <2>3, <3>4, <3>5, <3>6 DEF t
  <2> QED
    BY <2>5, <2>6
<1> QED
  BY <1>4, <1>5
-----------------------------------------------------------------------------
(***************************************************************************)
(* What Directory.Open finds.                                              *)
(***************************************************************************)

\* Lstat of two names for one place.
LEMMA LstatSame ==
  ASSUME NEW a, NEW b, IsPrefix(Slash, a), IsPrefix(Slash, b), Clean(a) = Clean(b)
  PROVE  Lstat(a) = Lstat(b)
<1> DEFINE Found(path) ==
             LET at == IF path = Slash THEN Slash ELSE FollowParts(Tail(Parts(path)))
             IN  IF at \in DOMAIN Tree THEN at ELSE NotFound
<1>1. Lstat(a) = Found(Clean(a)) /\ Lstat(b) = Found(Clean(b))
  BY DEF Lstat, Abs, FollowPath, Existing
<1> HIDE DEF Found
<1> QED
  BY <1>1

\* Directory.resolve of a name that is no link takes it as it is.
LEMMA ResolveName ==
  ASSUME NEW root, NEW relPath, NEW name, name = PathJoin(root, relPath),
         ~IsLink(Lstat(name))
  PROVE  Resolve(root, relPath)
           = IF Lstat(name) = NotFound \/ ~IsPrefix(root, name) THEN NotFound
             ELSE Cat(Slash, TrimPrefix(TrimPrefix(name, root), Slash))
<1> DEFINE D == SymlinkMaxDepth
           Next1(n) == IF IsLink(Lstat(n)) THEN Tree[Lstat(n)].to ELSE n
           F(f) == f = [d \in 0..D |-> IF d = 0 THEN PathJoin(root, relPath)
                                       ELSE Next1(f[d - 1])]
           f0 == CHOOSE f : F(f)
           h == [d \in 0..D |-> name]
<1>1. D = 16
  BY DEF SymlinkMaxDepth
<1>2. Next1(name) = name
  OBVIOUS
<1> HIDE DEF D, Next1
<1>3. F(h)
  <2> DEFINE g == [d \in 0..D |-> IF d = 0 THEN PathJoin(root, relPath)
                                  ELSE Next1(h[d - 1])]
  <2>1. ASSUME NEW d \in 0..D
        PROVE  h[d] = g[d]
    <3>1. d = 0 \/ d - 1 \in 0..D
      BY <1>1
    <3>2. h[d] = name
      OBVIOUS
    <3>3. d # 0 => h[d - 1] = name
      BY <3>1
    <3> HIDE DEF h
    <3> QED
      BY <1>2, <3>2, <3>3
  <2> QED
    BY <2>1
<1>4. F(f0)
  <2> HIDE DEF F
  <2> QED
    BY <1>3
<1> HIDE DEF f0, h
<1>5. f0[D] = name
  <2> DEFINE A == {d \in 1..D : f0[d] = name}
  <2>1. f0[0] = name /\ (\A d \in 1..D : f0[d] = Next1(f0[d - 1]))
    <3>1. \A d \in 0..D : f0[d] = IF d = 0 THEN PathJoin(root, relPath)
                                  ELSE Next1(f0[d - 1])
      BY <1>4
    <3>2. 0 \in 0..D /\ (\A d \in 1..D : d \in 0..D /\ d # 0)
      BY <1>1
    <3> HIDE DEF F
    <3> QED
      BY <3>1, <3>2
  <2>2. ASSUME NEW d \in 1..D, d = 1 \/ d - 1 \in A
        PROVE  d \in A
    <3>1. f0[d - 1] = name
      <4>1. CASE d = 1
        <5>1. d - 1 = 0
          BY <4>1
        <5> QED
          BY <2>1, <5>1
      <4>2. CASE d # 1
        BY <2>2, <4>2
      <4> QED
        BY <4>1, <4>2
    <3> QED
      BY <1>2, <2>1, <3>1
  <2>3. 1..D \subseteq A
    <3>1. D \in Nat
      BY <1>1
    <3> HIDE DEF A, F
    <3> QED
      BY <2>2, <3>1, Ascend
  <2>4. D \in 1..D
    BY <1>1
  <2> QED
    BY <2>3, <2>4
<1>6. Resolve(root, relPath)
        = LET last == f0[D]
              found == Lstat(last)
          IN  IF found = NotFound \/ IsLink(found) \/ ~IsPrefix(root, last)
              THEN NotFound
              ELSE Slash \o TrimPrefix(TrimPrefix(last, root), Slash)
  BY DEF Resolve, RelativeTo, Readlink, LinkEnd, f0, D, Next1
<1> HIDE DEF F
<1> QED
  BY <1>5, <1>6 DEF Cat

\* At the end of a name that is no link there is none to follow.
LEMMA StatNoLink ==
  ASSUME NEW name, ~IsLink(Lstat(name))
  PROVE  Stat(name) = Lstat(name)
<1> DEFINE D == Cardinality(DOMAIN Tree)
           To(link) == IF ~IsLink(link) THEN link
                       ELSE Lstat(IF IsPrefix(Slash, Tree[link].to) THEN Tree[link].to
                                  ELSE PathJoin(Dir(link), Tree[link].to))
           F(f) == f = [d \in 0..D |-> IF d = 0 THEN Lstat(name) ELSE To(f[d - 1])]
           f0 == CHOOSE f : F(f)
           h == [d \in 0..D |-> Lstat(name)]
<1>1. D \in Nat
  BY TreeAssumption, FS_CardinalityType
<1>3. To(Lstat(name)) = Lstat(name)
  OBVIOUS
<1> HIDE DEF D, To
<1>4. F(h)
  <2>1. ASSUME NEW d \in 0..D
        PROVE  h[d] = IF d = 0 THEN Lstat(name) ELSE To(h[d - 1])
    <3>1. d = 0 \/ d - 1 \in 0..D
      BY <1>1
    <3> QED
      BY <1>3, <3>1
  <2>2. h = [d \in 0..D |-> h[d]]
    OBVIOUS
  <2> HIDE DEF h
  <2> QED
    BY <2>1, <2>2
<1>5. F(f0)
  <2> HIDE DEF F
  <2> QED
    BY <1>4
<1>6. Stat(name) = IF IsLink(f0[D]) THEN NotFound ELSE f0[D]
  BY DEF Stat, LinkEnd, D, To
<1> HIDE DEF f0, h
<1>7. f0[0] = Lstat(name) /\ (\A d \in 1..D : f0[d] = To(f0[d - 1]))
  <2>1. \A d \in 0..D : f0[d] = IF d = 0 THEN Lstat(name) ELSE To(f0[d - 1])
    BY <1>5
  <2>2. 0 \in 0..D /\ (\A d \in 1..D : d \in 0..D /\ d # 0)
    BY <1>1
  <2> HIDE DEF F
  <2> QED
    BY <2>1, <2>2
<1> DEFINE A == {d \in 1..D : f0[d] = Lstat(name)}
<1>8. ASSUME NEW n \in 1..D, n = 1 \/ n - 1 \in A
      PROVE  n \in A
  <2>1. f0[n - 1] = Lstat(name)
    <3>1. CASE n = 1
      <4>1. n - 1 = 0
        BY <3>1
      <4> QED
        BY <1>7, <4>1
    <3>2. CASE n # 1
      BY <1>8, <3>2
    <3> QED
      BY <3>1, <3>2
  <2> QED
    BY <1>3, <1>7, <2>1
<1>9. 1..D \subseteq A
  <2> HIDE DEF A, F
  <2> QED
    BY <1>1, <1>8, Ascend
<1>10. f0[D] = Lstat(name)
  <2>1. D = 0 \/ D \in 1..D
    BY <1>1
  <2> QED
    BY <1>7, <1>9, <2>1
<1> QED
  BY <1>6, <1>10

\* Directory.Open finds what is at the place below the root.
LEMMA OpenPlace ==
  ASSUME NEW tp, IsPath(tp), NEW place \in Str,
         NEW inTarget,
         inTarget = (IF IsSuffix(Slash, tp) THEN Front(tp) ELSE tp) \o Clean(place),
         ~IsLink(Lstat(inTarget))
  PROVE  /\ Open(Clean(tp), Clean(place)) = Lstat(inTarget)
         /\ Lstat(inTarget) = Lstat(PathJoin(tp, Clean(place)))
<1> DEFINE ns == Kept(tp)
           ms == Kept(place)
           nm == Cat(ns, ms)
           root == Clean(tp)
           rel == Clean(place)
           name == FromParts(nm)
           front == IF IsSuffix(Slash, tp) THEN Front(tp) ELSE tp
<1>1. tp \in Str /\ (tp = <<>> \/ IsPrefix(Slash, tp))
  BY DEF IsPath
<1>2. /\ ns \in Seq(Name) /\ root = FromParts(ns)
      /\ ms \in Seq(Name) /\ rel = FromParts(ms)
  BY <1>1, KeptType
<1>3. nm \in Seq(Name)
  BY <1>2, CatLaws
<1>4. root \in Str /\ rel \in Str /\ IsPrefix(Slash, rel)
  BY <1>1, CleanType
<1>5. front \in Str /\ Kept(front) = ns
  <2>1. CASE IsSuffix(Slash, tp)
    <3>1. Front(tp) \in Str /\ tp = Cat(Front(tp), Slash)
      BY <1>1, <2>1, EndingSlash
    <3>2. Kept(Cat(Front(tp), Slash)) = Kept(Front(tp))
      BY <3>1, KeptSlash
    <3> QED
      BY <2>1, <3>1, <3>2
  <2>2. CASE ~IsSuffix(Slash, tp)
    BY <1>1, <2>2
  <2> QED
    BY <2>1, <2>2
<1> HIDE DEF ns, ms, root, rel
<1>6. IsPrefix(Slash, inTarget) /\ inTarget \in Str
  <2>1. inTarget = Cat(front, rel)
    BY DEF Cat, rel
  <2>2. CASE front = <<>>
    BY <1>4, <2>1, <2>2, EmptyStr
  <2>3. CASE front # <<>>
    <3>1. IsPrefix(Slash, front)
      <4>1. tp # <<>> /\ tp[1] = "/"
        <5>1. tp # <<>>
          <6>1. CASE IsSuffix(Slash, tp)
            BY <1>1, <6>1, EndingSlash
          <6>2. CASE ~IsSuffix(Slash, tp)
            BY <2>3, <6>2
          <6> QED
            BY <6>1, <6>2
        <5> QED
          BY <1>1, <5>1, LeadingSlash
      <4>2. CASE IsSuffix(Slash, tp)
        <5> DEFINE f == Front(tp)
        <5>1. f \in Str /\ tp = Cat(f, Slash) /\ f = front
          BY <1>1, <4>2, EndingSlash
        <5> HIDE DEF f
        <5>2. Len(f) \in Nat /\ Len(f) # 0
          <6>1. f \in Seq(Chars) /\ f # <<>>
            BY <2>3, <5>1 DEF Str
          <6> HIDE DEF front
          <6> QED
            BY <6>1, LenProperties, EmptySeq
        <5>3. 1 \in 1..Len(f)
          BY <5>2
        <5>4. Cat(f, Slash)[1] = f[1]
          <6>1. f \in Seq(Chars) /\ Slash \in Seq(Chars)
            BY <5>1, SlashStr DEF Str
          <6>2. \A i \in 1..Len(f) : Cat(f, Slash)[i] = f[i]
            BY <6>1, CatElements
          <6> QED
            BY <5>3, <6>2
        <5>5. f # <<>> /\ f[1] = "/"
          BY <2>3, <4>1, <5>1, <5>4
        <5>6. IsPrefix(Slash, f)
          BY <5>1, <5>5, LeadingSlash
        <5> QED
          BY <5>1, <5>6
      <4>3. CASE ~IsSuffix(Slash, tp)
        BY <1>1, <4>1, <4>3
      <4> QED
        BY <4>2, <4>3
    <3> HIDE DEF front
    <3>2. Cat(front, rel) \in Str /\ IsPrefix(Slash, Cat(front, rel))
      BY <1>4, <1>5, <3>1, PathCat
    <3> QED
      BY <2>1, <3>2
  <2> QED
    BY <2>2, <2>3
<1>7. Clean(inTarget) = name
  <2>1. inTarget = Cat(front, rel)
    BY DEF Cat, rel
  <2> HIDE DEF front, nm
  <2>2. Kept(Cat(front, FromParts(ms))) = Cat(Kept(front), ms)
    BY <1>2, <1>5, KeptFrom
  <2>3. Clean(inTarget) = FromParts(Kept(inTarget))
    BY <1>6, KeptType
  <2> QED
    BY <1>2, <1>5, <2>1, <2>2, <2>3 DEF nm
<1> HIDE DEF front
<1>8. name \in Str /\ IsPrefix(Slash, name) /\ Clean(name) = name
  <2> HIDE DEF nm
  <2>1. nm \in Seq(Host)
    BY <1>3, NamesAreHosts
  <2> QED
    BY <1>3, <2>1, FromPartsType, CleanFrom
<1>9. Lstat(name) = Lstat(inTarget)
  <2> HIDE DEF name
  <2> QED
    BY <1>6, <1>7, <1>8, LstatSame
<1>10. PathJoin(root, rel) = name
  <2>1. \A x \in Str : PathJoin(x, FromParts(ms)) = FromParts(Cat(Kept(x), ms))
    BY <1>2, CleanFrom
  <2>2. Kept(root) = ns
    BY <1>2, CleanFrom
  <2> QED
    BY <1>2, <1>4, <2>1, <2>2
<1>11. /\ IsPrefix(root, name)
       /\ Cat(Slash, TrimPrefix(TrimPrefix(name, root), Slash)) = rel
  BY <1>2, FromCat
<1> HIDE DEF name
<1>12. Resolve(root, rel) = IF Lstat(name) = NotFound THEN NotFound ELSE rel
  <2>1. ~IsLink(Lstat(name)) /\ name = PathJoin(root, rel)
    BY <1>9, <1>10
  <2>2. Resolve(root, rel)
          = IF Lstat(name) = NotFound \/ ~IsPrefix(root, name) THEN NotFound
            ELSE Cat(Slash, TrimPrefix(TrimPrefix(name, root), Slash))
    BY <2>1, ResolveName
  <2> QED
    BY <1>11, <2>2
<1>13. rel # NotFound
  BY <1>4, EmptyStr DEF NotFound
<1>14. Open(root, rel) = Lstat(name)
  <2>1. Stat(name) = Lstat(name)
    BY <1>9, StatNoLink
  <2> QED
    BY <1>10, <1>12, <1>13, <2>1 DEF Open
<1>15. Lstat(inTarget) = Lstat(PathJoin(tp, rel))
  <2>1. \A x \in Str : PathJoin(x, FromParts(ms)) = FromParts(Cat(Kept(x), ms))
    BY <1>2, CleanFrom
  <2>2. PathJoin(tp, rel) = name
    BY <1>1, <1>2, <2>1 DEF name, ns
  <2> QED
    BY <1>9, <2>2
<1> QED
  BY <1>9, <1>14, <1>15 DEF root, rel

\* The file system has no symbolic links.
NoSymlinks == \A p \in DOMAIN Tree : Tree[p].kind # "link"

\* A name is found where the parts before it lead, if there are no links.
LEMMA FollowName ==
  ASSUME NoSymlinks, NEW ks \in Seq(Name), NEW p \in Name
  PROVE  FollowPart(FromParts(ks), p) = FromParts(Append(ks, p))
<1> DEFINE d == FromParts(ks)
           kp == Append(ks, p)
<1>1. ks \in Seq(Host) /\ p \in Host /\ p \in Str
  BY NamesAreHosts DEF Name, Host
<1>2. kp \in Seq(Host) /\ kp # <<>>
  BY <1>1, AppendCat
<1>3. FromParts(kp) = Cat(Flat(ks), Cat(Slash, p))
  <2>1. Flat(kp) = Cat(Flat(ks), Cat(Slash, p))
    BY <1>1, FlatSteps
  <2> HIDE DEF kp
  <2> QED
    BY <1>2, <2>1, FlatSteps
<1>4. FollowPart(d, p) = IF d = Slash THEN Cat(Slash, p) ELSE Cat(Cat(d, Slash), p)
  BY DEF FollowPart, IsLink, NoSymlinks, Cat
<1> HIDE DEF kp
<1>5. CASE ks = <<>>
  <2>1. d = Slash /\ Flat(ks) = <<>>
    BY <1>5, FlatSteps DEF FromParts
  <2>2. Cat(Slash, p) \in Str
    BY <1>1, SlashCat
  <2>3. Cat(<<>>, Cat(Slash, p)) = Cat(Slash, p)
    BY <2>2, EmptyStr
  <2> QED
    BY <1>3, <1>4, <2>1, <2>3 DEF kp
<1>6. CASE ks # <<>>
  <2>1. d = Flat(ks) /\ d \in Str
    BY <1>1, <1>6, FlatSteps
  <2>2. d # Slash
    <3> DEFINE e == <<>>
    <3>1. e \in Seq(Name) /\ FromParts(e) = Slash
      BY EmptySeq DEF FromParts
    <3> HIDE DEF e
    <3>2. Kept(FromParts(e)) = e /\ Kept(d) = ks
      BY <3>1, CleanFrom
    <3>3. e # ks
      BY <1>6 DEF e
    <3> QED
      BY <3>1, <3>2, <3>3
  <2> HIDE DEF d
  <2>3. Cat(Cat(d, Slash), p) = Cat(d, Cat(Slash, p))
    BY <1>1, <2>1, SlashStr, CatLaws DEF Str
  <2> QED
    BY <1>3, <1>4, <2>1, <2>2, <2>3 DEF kp, d
<1> QED
  BY <1>5, <1>6

\* Without links the operating system finds a path where its parts say.
LEMMA FollowPlain ==
  ASSUME NoSymlinks, NEW ks \in Seq(Name)
  PROVE  FollowParts(ks) = FromParts(ks)
<1> DEFINE N == Len(ks)
           Take(i) == SubSeq(ks, 1, i)
           F(f) == f = [i \in 0..N |-> IF i = 0 THEN Slash
                                       ELSE FollowPart(f[i - 1], ks[i])]
           f0 == CHOOSE f : F(f)
           h == [i \in 0..N |-> FromParts(Take(i))]
<1>1. N \in Nat /\ (\A i \in 1..N : ks[i] \in Name)
  BY LenProperties, ElementOfSeq
<1>2. \A i \in 0..N : Take(i) \in Seq(Name) /\ Len(Take(i)) = i
                      /\ (\A j \in 1..i : Take(i)[j] = ks[j])
  BY TakeProperties
<1>3. Take(0) = <<>> /\ Take(N) = ks
  <2>1. 0 \in 0..N /\ N \in 0..N
    BY <1>1
  <2>2. Take(0) = <<>>
    BY <1>2, <2>1, EmptySeq
  <2>3. Take(N) = ks
    <3> DEFINE t == Take(N)
    <3>1. t \in Seq(Name) /\ Len(t) = Len(ks) /\ (\A j \in 1..Len(t) : t[j] = ks[j])
      BY <1>2, <2>1
    <3> HIDE DEF t
    <3>2. t = ks
      BY <3>1, SameSeq
    <3> QED
      BY <3>2 DEF t
  <2> QED
    BY <2>2, <2>3
<1>4. \A i \in 1..N : Take(i) = Append(Take(i - 1), ks[i])
  <2> TAKE i \in 1..N
  <2> DEFINE s == Take(i)
             t == Take(i - 1)
             a == Append(t, ks[i])
  <2>1. i \in 0..N /\ i - 1 \in 0..N /\ i \in Nat /\ i - 1 \in Nat
    BY <1>1
  <2>2. s \in Seq(Name) /\ Len(s) = i /\ (\A j \in 1..i : s[j] = ks[j])
    BY <1>2, <2>1
  <2>3. t \in Seq(Name) /\ Len(t) = i - 1 /\ (\A j \in 1..i - 1 : t[j] = ks[j])
    BY <1>2, <2>1
  <2> HIDE DEF s, t
  <2>4. /\ a \in Seq(Name) /\ Len(a) = Len(t) + 1 /\ a[Len(t) + 1] = ks[i]
        /\ \A j \in 1..Len(t) : a[j] = t[j]
    BY <1>1, <2>3, AppendProperties
  <2> HIDE DEF a
  <2>5. ASSUME NEW j \in 1..Len(s)
        PROVE  s[j] = a[j]
    <3>1. j = i \/ j \in 1..i - 1
      BY <2>1, <2>2
    <3> QED
      BY <2>1, <2>2, <2>3, <2>4, <3>1
  <2>6. Len(s) = Len(a)
    BY <2>1, <2>2, <2>3, <2>4
  <2>7. s = a
    BY <2>2, <2>4, <2>5, <2>6, SameSeq
  <2> QED
    BY <2>7 DEF s, t, a
<1> HIDE DEF N, Take
<1>5. h[0] = Slash /\ (\A i \in 1..N : h[i] = FollowPart(h[i - 1], ks[i]))
  <2>1. h[0] = Slash
    <3>1. 0 \in 0..N
      BY <1>1
    <3> QED
      BY <1>3, <3>1 DEF FromParts
  <2>2. ASSUME NEW i \in 1..N
        PROVE  h[i] = FollowPart(h[i - 1], ks[i])
    <3>1. i \in 0..N /\ i - 1 \in 0..N
      BY <1>1
    <3>2. h[i] = FromParts(Take(i)) /\ h[i - 1] = FromParts(Take(i - 1))
      BY <3>1
    <3>3. Take(i - 1) \in Seq(Name) /\ ks[i] \in Name
      BY <1>1, <1>2, <3>1
    <3>4. FollowPart(FromParts(Take(i - 1)), ks[i])
            = FromParts(Append(Take(i - 1), ks[i]))
      BY <3>3, FollowName
    <3> QED
      BY <1>4, <3>2, <3>4
  <2> QED
    BY <2>1, <2>2
<1>6. F(h)
  <2> DEFINE g == [i \in 0..N |-> IF i = 0 THEN Slash ELSE FollowPart(h[i - 1], ks[i])]
  <2>1. h = [i \in 0..N |-> h[i]]
    OBVIOUS
  <2> HIDE DEF h
  <2>2. ASSUME NEW i \in 0..N
        PROVE  h[i] = IF i = 0 THEN Slash ELSE FollowPart(h[i - 1], ks[i])
    <3>1. i = 0 \/ i \in 1..N
      BY <1>1
    <3> QED
      BY <1>1, <1>5, <3>1
  <2> QED
    BY <2>1, <2>2
<1>7. F(f0)
  <2> HIDE DEF F
  <2> QED
    BY <1>6
<1>8. FollowParts(ks) = f0[N]
  BY DEF FollowParts, N
<1> HIDE DEF f0
<1>9. f0[0] = Slash /\ (\A i \in 1..N : f0[i] = FollowPart(f0[i - 1], ks[i]))
  <2>1. \A i \in 0..N : f0[i] = IF i = 0 THEN Slash ELSE FollowPart(f0[i - 1], ks[i])
    BY <1>7
  <2>2. 0 \in 0..N /\ (\A i \in 1..N : i \in 0..N /\ i # 0)
    BY <1>1
  <2> HIDE DEF F
  <2> QED
    BY <2>1, <2>2
<1>10. h[N] = FromParts(ks)
  <2>1. N \in 0..N
    BY <1>1
  <2> QED
    BY <1>3, <2>1
<1> HIDE DEF h
<1> DEFINE A == {i \in 1..N : f0[i] = h[i]}
<1>11. ASSUME NEW n \in 1..N, n = 1 \/ n - 1 \in A
       PROVE  n \in A
  <2>1. f0[n - 1] = h[n - 1]
    <3>1. CASE n = 1
      <4>1. n - 1 = 0
        BY <3>1
      <4> QED
        BY <1>5, <1>9, <4>1
    <3>2. CASE n # 1
      BY <1>11, <3>2
    <3> QED
      BY <3>1, <3>2
  <2> QED
    BY <1>5, <1>9, <2>1
<1>12. 1..N \subseteq A
  <2> HIDE DEF A, F
  <2> QED
    BY <1>1, <1>11, Ascend
<1>13. f0[N] = h[N]
  <2>1. N = 0 \/ N \in 1..N
    BY <1>1
  <2> QED
    BY <1>5, <1>9, <1>12, <2>1
<1> QED
  BY <1>8, <1>10, <1>13

\* What follows the empty part.
LEMMA NoPartTail ==
  ASSUME NEW ks \in Seq(Name)
  PROVE  Tail(Parts(FromParts(ks))) = IF ks = <<>> THEN NoPart ELSE ks
<1>1. ks \in Seq(Host) /\ NoPart \in Seq(Host)
  BY NamesAreHosts, PartsEmpty
<1>2. ASSUME NEW ps \in Seq(Host)
      PROVE  Tail(Cat(NoPart, ps)) = ps
  <2> DEFINE e == <<>>
             one == <<e>>
             c == Cat(one, ps)
  <2>1. NoPart = one
    BY DEF NoPart
  <2>2. one \in Seq(Host) /\ Len(one) = 1
    BY <1>1, <2>1
  <2> HIDE DEF one, e
  <2>3. SubSeq(c, Len(one) + 1, Len(c)) = ps
    BY <1>2, <2>2, CatParts
  <2>4. SubSeq(c, 2, Len(c)) = ps
    BY <2>2, <2>3
  <2>5. c \in Seq(Host) /\ Len(c) = 1 + Len(ps)
    <3>1. c \in Seq(Host)
      BY <1>2, <2>2, CatLaws
    <3>2. Len(c) = Len(one) + Len(ps)
      BY <1>2, <2>2, CatElements
    <3> QED
      BY <2>2, <3>1, <3>2
  <2> HIDE DEF c
  <2>6. Tail(c) = SubSeq(c, 2, Len(c))
    <3>1. Len(ps) \in Nat /\ Len(c) \in Nat
      BY <1>2, <2>5, LenProperties
    <3> QED
      BY <2>5, <3>1
  <2> QED
    BY <2>1, <2>4, <2>6 DEF c
<1>3. CASE ks # <<>>
  <2>1. Parts(FromParts(ks)) = Cat(NoPart, ks)
    BY <1>1, <1>3, FlatSteps, PartsFlat
  <2> QED
    BY <1>1, <1>2, <1>3, <2>1
<1>4. CASE ks = <<>>
  <2> DEFINE e == <<>>
             s == Cat(e, Slash)
  <2>1. e \in Str /\ s = Slash /\ s \in Str /\ Cat(s, e) = s
    BY EmptyStr, SlashStr
  <2>2. Parts(e) = NoPart /\ FromParts(ks) = Slash
    BY <1>4, PartsEmpty DEF FromParts
  <2> HIDE DEF e
  <2>3. Parts(Cat(s, e)) = Cat(NoPart, NoPart)
    BY <2>1, <2>2, PartsCat
  <2> QED
    BY <1>1, <1>2, <1>4, <2>1, <2>2, <2>3
<1> QED
  BY <1>3, <1>4

\* Without links, what is at a clean path is what the tree has there.
LEMMA LstatPlain ==
  ASSUME NoSymlinks, NEW ks \in Seq(Name), NEW name, name = FromParts(ks)
  PROVE  Lstat(name) = IF name \in DOMAIN Tree THEN name ELSE NotFound
<1>1. IsPrefix(Slash, name) /\ Clean(name) = name
  BY NamesAreHosts, FromPartsType, CleanFrom
<1>2. CASE name = Slash
  BY <1>1, <1>2 DEF Lstat, Abs, FollowPath, Existing
<1>3. CASE name # Slash
  <2>1. ks # <<>>
    BY <1>3 DEF FromParts
  <2>2. Tail(Parts(name)) = ks
    BY <2>1, NoPartTail
  <2>3. FollowParts(ks) = name
    BY FollowPlain
  <2> QED
    BY <1>1, <1>3, <2>2, <2>3 DEF Lstat, Abs, FollowPath, Existing
<1> QED
  BY <1>2, <1>3

\* Without links there is none to follow at the end of a name.
LEMMA StatPlain ==
  ASSUME NoSymlinks, NEW name
  PROVE  Stat(name) = Lstat(name)
BY StatNoLink DEF IsLink, NoSymlinks

\* The names of a directory are names.
LEMMA ReadName ==
  ASSUME NEW dir, NEW n \in Readdir(dir)
  PROVE  n \in Name
<1>1. PICK p \in DOMAIN Tree \ {Slash} : n = Last(Parts(p))
  BY DEF Readdir
<1> DEFINE ks == Kept(p)
<1>2. p \in Str /\ p = Clean(p) /\ p # Slash
  BY <1>1, TreeAssumption
<1>3. ks \in Seq(Name) /\ ks \in Seq(Host) /\ p = FromParts(ks)
  BY <1>2, KeptType
<1> HIDE DEF ks
<1>4. ks # <<>>
  BY <1>2, <1>3 DEF FromParts
<1>5. Parts(p) = Cat(NoPart, ks) /\ NoPart \in Seq(Host)
  BY <1>3, <1>4, FlatSteps, PartsFlat, PartsEmpty
<1> DEFINE f == Front(ks)
           l == Last(ks)
<1>6. f \in Seq(Name) /\ l \in Name /\ ks = Append(f, l)
  BY <1>3, <1>4, FrontProperties
<1> HIDE DEF f, l
<1>7. f \in Seq(Host) /\ l \in Host
  BY <1>6, NamesAreHosts DEF Name
<1>8. Last(Cat(NoPart, Append(f, l))) = l
  BY <1>5, <1>7, CatEnd
<1> QED
  BY <1>1, <1>5, <1>6, <1>8

\* path.Join with one name.
LEMMA JoinName ==
  ASSUME NEW ks \in Seq(Name), NEW n \in Name
  PROVE  /\ PathJoin(FromParts(ks), n) = FromParts(Append(ks, n))
         /\ Last(Parts(FromParts(Append(ks, n)))) = n
         /\ Append(ks, n) \in Seq(Name)
<1> DEFINE x == FromParts(ks)
           xs == Cat(x, Slash)
           xn == Cat(xs, n)
           kn == Append(ks, n)
           one == <<n>>
<1>1. ks \in Seq(Host) /\ n \in Host /\ n \in Str /\ NoPart \in Seq(Host)
  BY NamesAreHosts, PartsEmpty DEF Name, Host
<1>2. x \in Str
  BY <1>1, FromPartsType
<1>3. kn \in Seq(Name) /\ kn = Cat(ks, one) /\ one \in Seq(Name) /\ kn # <<>>
  BY AppendCat
<1>4. Kept(x) = ks
  BY CleanFrom
<1> HIDE DEF x
<1>5. xs \in Str /\ xn \in Str
  <2>1. xs \in Str
    BY <1>2, SlashStr, CatLaws DEF Str
  <2> HIDE DEF xs
  <2> QED
    BY <1>1, <2>1, CatLaws DEF Str
<1>6. PathJoin(x, n) = Clean(xn)
  BY DEF PathJoin, Cat
<1>7. Parts(xn) = Cat(Parts(x), one) /\ Parts(x) \in Seq(Host)
  BY <1>1, <1>2, PartsCat, PartsHost, PartsType
<1> HIDE DEF xs, xn, one
<1>8. Kept(xn) = Cat(ks, one)
  <2>1. KeptParts(Cat(Parts(x), one)) = Cat(KeptParts(Parts(x)), one)
    BY <1>3, <1>7, KeptNames
  <2> QED
    BY <1>4, <1>7, <2>1 DEF Kept
<1>9. Clean(xn) = FromParts(Kept(xn))
  BY <1>5, KeptType
<1>10. Last(Parts(FromParts(kn))) = n
  <2>1. Last(Cat(NoPart, Append(ks, n))) = n
    BY <1>1, CatEnd
  <2>2. kn \in Seq(Host)
    BY <1>3, NamesAreHosts
  <2> HIDE DEF kn
  <2>3. Parts(FromParts(kn)) = Cat(NoPart, kn)
    BY <1>3, <2>2, FlatSteps, PartsFlat
  <2> QED
    BY <2>1, <2>3 DEF kn
<1> QED
  BY <1>3, <1>6, <1>8, <1>9, <1>10 DEF x

\* Without links Directory.Open finds what is at the joined path.
LEMMA OpenPlain ==
  ASSUME NoSymlinks, NEW tp, IsPath(tp), NEW ms \in Seq(Name)
  PROVE  Open(Clean(tp), FromParts(ms)) = Stat(PathJoin(tp, FromParts(ms)))
<1> DEFINE q == FromParts(ms)
           inTarget == (IF IsSuffix(Slash, tp) THEN Front(tp) ELSE tp) \o Clean(q)
<1>1. q \in Str /\ Clean(q) = q
  BY NamesAreHosts, FromPartsType, CleanFrom
<1>2. ~IsLink(Lstat(inTarget))
  BY DEF IsLink, NoSymlinks
<1> HIDE DEF inTarget, q
<1>3. /\ Open(Clean(tp), Clean(q)) = Lstat(inTarget)
      /\ Lstat(inTarget) = Lstat(PathJoin(tp, Clean(q)))
  BY <1>1, <1>2, OpenPlace DEF inTarget
<1> QED
  BY <1>1, <1>3, StatPlain DEF q

\* An entry that is listed, below a base directory without links: its location
\* is a clean path, and the base joined with that is the directory joined with
\* the last part of it, unless it is the entry above.
LEMMA EntryPath ==
  ASSUME NoSymlinks, NEW base \in Str, NEW ms \in Seq(Name),
         NEW uri, uri = FromParts(ms),
         NEW dir, dir = Stat(PathJoin(base, uri)), dir \in DOMAIN Tree,
         NEW q \in Listing(dir, uri)
  PROVE  /\ \E ks \in Seq(Name) : q = FromParts(ks)
         /\ q = Dir(uri) \/ PathJoin(dir, Last(Parts(q))) = PathJoin(base, q)
<1> DEFINE bs == Kept(base)
           bm == Cat(bs, ms)
<1>1. bs \in Seq(Name) /\ uri \in Str
  BY KeptType, NamesAreHosts, FromPartsType
<1>2. bm \in Seq(Name)
  BY <1>1, CatLaws
<1>3. dir = FromParts(bm)
  <2> DEFINE name == FromParts(bm)
  <2>1. PathJoin(base, uri) = name
    BY CleanFrom
  <2>2. dir = Lstat(name)
    BY <2>1, StatPlain
  <2> HIDE DEF bm
  <2>3. Lstat(name) = IF name \in DOMAIN Tree THEN name ELSE NotFound
    BY <1>2, LstatPlain
  <2>4. dir # NotFound
    <3>1. dir \in Str /\ dir = Clean(dir)
      BY TreeAssumption
    <3>2. IsPrefix(Slash, Clean(dir))
      BY <3>1, CleanType
    <3> QED
      BY <3>1, <3>2, EmptyStr DEF NotFound
  <2> QED
    BY <2>2, <2>3, <2>4 DEF bm
<1>4. CASE q = Dir(uri)
  <2>1. q = Clean(Cat(Cat(uri, Slash), <<".", ".">>))
    BY <1>4 DEF Dir, PathJoin, Cat
  <2> DEFINE dots == <<".", ".">>
             us == Cat(uri, Slash)
             x == Cat(us, dots)
  <2>2. dots \in Str
    BY CharsAssumption DEF Str
  <2> HIDE DEF dots
  <2>3. us \in Str
    BY <1>1, SlashStr, CatLaws DEF Str
  <2> HIDE DEF us
  <2>4. x \in Str
    BY <2>2, <2>3, CatLaws DEF Str
  <2>5. q = Clean(x)
    BY <2>1 DEF us, dots
  <2> HIDE DEF x
  <2>6. q = FromParts(Kept(x)) /\ Kept(x) \in Seq(Name)
    BY <2>4, <2>5, KeptType
  <2> QED
    BY <1>4, <2>6
<1>5. CASE q # Dir(uri)
  <2>1. PICK n \in Readdir(dir) : q = PathJoin(uri, n)
    BY <1>5 DEF Listing
  <2>2. n \in Name
    BY ReadName
  <2> DEFINE mn == Append(ms, n)
  <2>3. mn \in Seq(Name) /\ q = FromParts(mn) /\ Last(Parts(q)) = n
    BY <2>1, <2>2, JoinName
  <2>4. PathJoin(dir, n) = FromParts(Append(bm, n))
    <3> HIDE DEF bm
    <3> QED
      BY <1>2, <1>3, <2>2, JoinName
  <2>5. Cat(bs, mn) = Append(bm, n)
    <3> HIDE DEF bs
    <3> QED
      BY <1>1, <2>2, CatEnd
  <2> HIDE DEF mn, bm, bs
  <2>6. PathJoin(base, FromParts(mn)) = FromParts(Cat(Kept(base), mn))
    BY <2>3, CleanFrom
  <2>7. PathJoin(dir, Last(Parts(q))) = PathJoin(base, q)
    BY <2>3, <2>4, <2>5, <2>6 DEF bs
  <2> QED
    BY <2>3, <2>7
<1> QED
  BY <1>4, <1>5
=============================================================================
