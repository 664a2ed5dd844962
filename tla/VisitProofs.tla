---------------------------- MODULE VisitProofs ----------------------------
(***************************************************************************)
(* Proofs about Visit: the pages that pass the HTMLStreamer, the types of  *)
(* the state, and what requests and links reach.                           *)
(***************************************************************************)
EXTENDS PathLemmas

-----------------------------------------------------------------------------
(***************************************************************************)
(* The page.  The tokenizer knows the element it is in, the streamer only  *)
(* counts.  Elements without end and ends without start make it count too  *)
(* low, never too high: outside of the counted elements noEscape is at     *)
(* most 0, and while they come in pairs the two agree.                     *)
(***************************************************************************)
NestInv ==
  /\ rawTag \in {"", "script", "noscript", "textarea"}
  /\ noEscape \in Int
  /\ page \in {"regular", "odd", "torn"}
  /\ noEscape <= IF rawTag \in CountedElement THEN 1 ELSE 0
  /\ page = "regular" => noEscape = IF rawTag \in CountedElement THEN 1 ELSE 0

\* What the reader got and what the buffer holds make up the token, and it got
\* all of those before.
PieceInv ==
  /\ buffer \in Seq(1..PieceCount)
  /\ out \in Seq(1..PieceCount)
  /\ token.type = "none" => buffer = <<>>
  /\ token.type # "none" => out \o buffer = Rendering
  /\ whole = TRUE

\* The invariant of the page.
StreamInv == NestInv /\ TextIntact /\ PieceInv

\* The fields of a text.
LEMMA TextFields ==
  ASSUME NEW what, NEW level
  PROVE  /\ Text(what, level).type = "text"
         /\ Text(what, level).what = what
         /\ Text(what, level).level = level
BY DEF Text

\* Only a literal "<" makes markup.
LEMMA Inert ==
  ASSUME NEW what, NEW level \in Int, level # 1
  PROVE  ~Alive(Text(what, level))
<1>1. Text(what, level).level # 1
  BY TextFields
<1> QED
  BY <1>1 DEF Alive

\* The tokens of a page, by type.
LEMMA TokenShape ==
  ASSUME NEW t \in Tokens
  PROVE  \/ /\ t.type \in {"start", "end", "self"}
            /\ t.name \in {"script", "noscript", "textarea", "a"}
            /\ t.type = "end" => t.link = NoLink
            /\ \A link : [t EXCEPT !.link = link].type = t.type
         \/ \E what \in Spelling, level \in 0..3 : t = Text(what, level)
<1>1. "sign" \in Spelling /\ 0 \in 0..3 /\ 1..3 \subseteq 0..3
  BY DEF Spelling
<1>2. CASE t = Text("sign", 0)
  BY <1>1, <1>2
<1>3. ASSUME NEW what \in Spelling, NEW level \in 1..3, t = Text(what, level)
      PROVE  \E w \in Spelling, l \in 0..3 : t = Text(w, l)
  BY <1>1, <1>3
<1>4. CASE t \in {Tag(type, "a", l) : type \in {"start", "self"}, l \in PageLinks}
  BY <1>4 DEF Tag
<1>5. CASE t \in {Tag(type, name, NoLink) :
                   type \in {"start", "end", "self"}, name \in ElementName}
  BY <1>5 DEF Tag, ElementName, RawElement
<1> QED
  BY <1>2, <1>3, <1>4, <1>5 DEF Tokens

\* One token changes element and count together.
LEMMA NestToken ==
  ASSUME NestInv, NEW t \in Tokens, NEW link, NEW layers,
         ReadToken(t, link, layers)
  PROVE  NestInv'
<1>a. /\ CanFollow(t) /\ rawTag' = RawTagAfter(t)
      /\ noEscape' = NoEscapeAfter(t) /\ page' = PageAfter(t)
  BY DEF ReadToken, NextToken
<1>b. noEscape \in Int /\ page \in {"regular", "odd", "torn"}
  BY DEF NestInv
<1>c. page' \in {"regular", "odd", "torn"}
  BY <1>a, <1>b DEF PageAfter
<1>1. CASE t.type \in {"start", "end", "self"}
           /\ t.name \in {"script", "noscript", "textarea", "a"}
  <2>1. rawTag # "" => t.type = "end" /\ t.name = rawTag
    BY <1>1, <1>a DEF CanFollow
  <2>2. page' = "regular" => page = "regular" /\ ~Unpaired(t)
    BY <1>a, <1>b DEF PageAfter
  <2>3. rawTag' \in {"", "script", "noscript", "textarea"}
    BY <1>1, <1>a DEF RawTagAfter, NestInv
  <2>4. /\ t.type = "start" /\ t.name \in CountedElement
             => noEscape' = noEscape + 1
        /\ t.type = "end" /\ t.name \in CountedElement
             => noEscape' = noEscape - 1
        /\ t.type = "self" \/ t.name \notin CountedElement
             => noEscape' = noEscape
    BY <1>1, <1>a DEF NoEscapeAfter
  <2> DEFINE Due(tag) == IF tag \in CountedElement THEN 1 ELSE 0
  <2>5. /\ noEscape <= Due(rawTag)
        /\ page' = "regular" => noEscape = Due(rawTag) /\ ~Unpaired(t)
    BY <2>2 DEF NestInv
  <2>6. /\ noEscape' \in Int
        /\ noEscape' <= Due(rawTag')
        /\ page' = "regular" => noEscape' = Due(rawTag')
    <3>1. CASE t.type \in {"start", "self"}
      <4>1. rawTag = "" /\ rawTag' = IF t.name = "a" THEN "" ELSE t.name
        BY <1>1, <1>a, <2>1, <3>1 DEF RawTagAfter
      <4>2. Due(rawTag) = 0
        BY <4>1 DEF CountedElement
      <4>3. CASE t.name \in CountedElement
        <5>1. Due(rawTag') = 1
          BY <4>1, <4>3 DEF CountedElement
        <5>2. t.type = "self" => Unpaired(t)
          BY <4>3 DEF Unpaired
        <5> HIDE DEF Due
        <5> QED
          BY <1>b, <2>4, <2>5, <3>1, <4>2, <4>3, <5>1, <5>2
      <4>4. CASE t.name \notin CountedElement
        <5>1. Due(rawTag') = 0
          BY <4>1, <4>4 DEF CountedElement
        <5> HIDE DEF Due
        <5> QED
          BY <1>b, <2>4, <2>5, <4>2, <4>4, <5>1
      <4> QED
        BY <4>3, <4>4
    <3>2. CASE t.type = "end"
      <4>1. rawTag' = "" /\ Due(rawTag') = 0
        BY <1>a, <3>2 DEF RawTagAfter, CountedElement
      <4>2. CASE t.name \in CountedElement
        <5>1. noEscape' = noEscape - 1
          BY <2>4, <3>2, <4>2
        <5>2. rawTag = "" => Unpaired(t) /\ Due(rawTag) = 0
          BY <3>2, <4>2 DEF Unpaired, CountedElement
        <5>3. rawTag # "" => Due(rawTag) = 1
          BY <2>1, <4>2
        <5>4. CASE rawTag = ""
          <6>1. noEscape <= 0 /\ page' # "regular"
            BY <2>5, <5>2, <5>4
          <6>2. noEscape' \in Int /\ noEscape' <= 0
            BY <1>b, <5>1, <6>1
          <6> QED
            BY <4>1, <6>1, <6>2
        <5>5. CASE rawTag # ""
          <6>1. noEscape <= 1 /\ (page' = "regular" => noEscape = 1)
            BY <2>5, <5>3, <5>5
          <6>2. /\ noEscape' \in Int /\ noEscape' <= 0
                /\ page' = "regular" => noEscape' = 0
            BY <1>b, <5>1, <6>1
          <6> QED
            BY <4>1, <6>2
        <5> QED
          BY <5>4, <5>5
      <4>3. CASE t.name \notin CountedElement
        <5>1. Due(rawTag) = 0
          BY <2>1, <4>3 DEF CountedElement
        <5> HIDE DEF Due
        <5> QED
          BY <1>b, <2>4, <2>5, <4>1, <4>3, <5>1
      <4> QED
        BY <4>2, <4>3
    <3> QED
      BY <1>1, <3>1, <3>2
  <2> QED
    BY <1>c, <2>3, <2>6 DEF NestInv
<1>2. ASSUME NEW what, NEW level, t = Text(what, level)
      PROVE  NestInv'
  <2>1. t.type = "text"
    BY <1>2, TextFields
  <2>2. rawTag' = rawTag /\ noEscape' = noEscape
    BY <1>a, <2>1 DEF RawTagAfter, NoEscapeAfter
  <2>3. page' = "regular" => page = "regular"
    BY <1>a, <2>1 DEF PageAfter, Unpaired
  <2> QED
    BY <1>c, <2>2, <2>3 DEF NestInv
<1> QED
  BY <1>1, <1>2, TokenShape

\* A text is escaped where nothing is counted, and so read as it was.
LEMMA EscapedText ==
  ASSUME rawTag \notin RawElement, noEscape \in Int, noEscape <= 0,
         NEW what, NEW level \in 0..3, ~Alive(Text(what, level))
  PROVE  \E l \in 0..3 : /\ Rewrite(Text(what, level)) = Text(what, l)
                          /\ ~Alive(Text(what, l))
                          /\ Decode(l) = Decode(level)
<1> DEFINE l == Escape(Unescape(level))
<1>1. l \in {0, 2, 3} /\ Unescape(l) = Unescape(level)
  BY DEF Escape, Unescape
<1>2. Decode(level) = Unescape(level) /\ Decode(l) = Unescape(l)
  BY DEF Decode
<1>3. Rewritten(level) = l
  BY <1>2 DEF Rewritten
<1>4. Rewrite(Text(what, level)) = Text(what, Rewritten(level))
  BY TextFields DEF Rewrite
<1> HIDE DEF l
<1>5. ~Alive(Text(what, l))
  BY <1>1, Inert
<1>6. l \in 0..3
  BY <1>1
<1> QED
  BY <1>1, <1>2, <1>3, <1>4, <1>5, <1>6

\* A text of script is written as it is.
LEMMA ScriptText ==
  ASSUME rawTag = "script", noEscape = 1, NEW what, NEW level,
         ~Alive(Text(what, level))
  PROVE  Rewrite(Text(what, level)) = Text(what, level)
<1>1. Decode(level) = level
  BY DEF Decode, RawElement
<1>2. ~(noEscape <= 0)
  BY noEscape = 1
<1>3. Rewritten(level) = level
  BY <1>1, <1>2 DEF Rewritten
<1> QED
  BY <1>3, TextFields DEF Rewrite

\* A text of a textarea is written unescaped, which changes nothing as long as
\* it spells neither entities nor the end of the textarea.
LEMMA AreaText ==
  ASSUME rawTag = "textarea", noEscape = 1, NEW what, NEW level \in 0..3,
         Decode(level) <= 1, ~(what = "end" /\ level \in {1, 2})
  PROVE  LET l == Decode(level) IN
         /\ Rewrite(Text(what, level)) = Text(what, l)
         /\ ~Alive(Text(what, level)) /\ ~Alive(Text(what, l))
         /\ l \in {0, 1} /\ Decode(l) = l
         /\ ~(what = "end" /\ l \in {1, 2})
<1> DEFINE l == Decode(level)
<1>1. l = Unescape(level) /\ Decode(l) = Unescape(l)
  BY DEF Decode, RawElement
<1>2. /\ l \in {0, 1} /\ level \in {0, 1, 2} /\ Unescape(l) = l
      /\ l = 1 => level \in {1, 2}
  BY <1>1 DEF Unescape
<1>3. ~(noEscape <= 0)
  BY noEscape = 1
<1>4. Rewritten(level) = l
  BY <1>3 DEF Rewritten
<1> HIDE DEF l
<1>5. /\ ~Alive(Text(what, level)) /\ ~Alive(Text(what, l))
      /\ ~(what = "end" /\ l \in {1, 2})
  BY <1>2, TextFields DEF Alive
<1>6. Rewrite(Text(what, level)) = Text(what, Rewritten(level))
  BY <1>5, TextFields DEF Rewrite
<1>7. Decode(l) = l
  BY <1>1, <1>2
<1> QED
  BY <1>2, <1>4, <1>5, <1>6, <1>7 DEF l

\* A text is written so that it is read as it was.
LEMMA TextToken ==
  ASSUME NestInv, NEW t \in Tokens, NEW link, NEW layers \in {1, 2},
         ReadToken(t, link, layers)
  PROVE  TextIntact'
<1>1. CASE /\ t.type \in {"start", "end", "self"}
           /\ [t EXCEPT !.link = link].type = t.type
  BY <1>1 DEF ReadToken, NextToken, TextIntact
<1>2. ASSUME NEW what \in Spelling, NEW level \in 0..3, t = Text(what, level)
      PROVE  TextIntact'
  <2>1. t.type = "text" /\ t.level = level /\ t.what = what
    BY <1>2, TextFields
  <2>2. /\ rawTag' = rawTag /\ page' = PageAfter(t)
        /\ token' = RewriteBy(layers, t) /\ original' = Sees(t)
        /\ CanFollow(t)
    BY <2>1 DEF ReadToken, NextToken, RawTagAfter
  <2>3. ~Alive(t) /\ Sees(t) = Decode(level)
    BY <2>1, <2>2 DEF CanFollow, Sees
  <2>4. page' # "torn" => ~Tears(t) /\ page' = page
    BY <2>1, <2>2 DEF PageAfter, Unpaired
  <2>5. \A text : Sees(text)' = Sees(text')
    BY <2>2 DEF Sees, Alive, Decode
  <2>6. Sees(token)' = Sees(RewriteBy(layers, t))
    BY <2>2, <2>5 DEF Sees, Alive, Decode
  <2>a. SUFFICES ASSUME /\ ~Tears(t)
                        /\ rawTag = "script" => page = "regular"
                        /\ rawTag = "noscript" => Decode(level) = 0
                        /\ rawTag = "textarea" => Decode(level) <= 1
                 PROVE  Sees(RewriteBy(layers, t)) = Decode(level)
    BY <2>2, <2>3, <2>4, <2>6 DEF TextIntact
  <2>7. SUFFICES \E l : /\ RewriteBy(layers, t) = Text(what, l)
                        /\ ~Alive(Text(what, l)) /\ Decode(l) = Decode(level)
    BY TextFields DEF Sees
  <2>8. RewriteBy(layers, t) \in {Rewrite(t), Rewrite(Rewrite(t))}
    BY DEF RewriteBy
  <2>9. /\ noEscape \in Int
        /\ rawTag \in {"", "script", "noscript", "textarea"}
        /\ noEscape <= IF rawTag \in CountedElement THEN 1 ELSE 0
        /\ page = "regular" => noEscape = IF rawTag \in CountedElement THEN 1 ELSE 0
    BY DEF NestInv
  <2>10. CASE rawTag \notin RawElement /\ noEscape <= 0
    <3>1. PICK l \in 0..3 : /\ Rewrite(t) = Text(what, l)
                            /\ ~Alive(Text(what, l))
                            /\ Decode(l) = Decode(level)
      BY <1>2, <2>3, <2>9, <2>10, EscapedText
    <3>2. PICK m \in 0..3 : /\ Rewrite(Text(what, l)) = Text(what, m)
                            /\ ~Alive(Text(what, m))
                            /\ Decode(m) = Decode(l)
      BY <2>9, <2>10, <3>1, EscapedText
    <3> QED
      BY <2>8, <3>1, <3>2
  <2>11. CASE rawTag = "noscript"
    <3>1. noEscape <= 0 /\ level = 0
      BY <2>9, <2>11, <2>a DEF CountedElement, Decode, RawElement
    <3>2. Rewritten(0) = 0
      BY <2>11, <3>1 DEF Rewritten, Escape, Decode, RawElement
    <3>3. ~Alive(Text(what, 0))
      BY Inert
    <3>4. Rewrite(Text(what, 0)) = Text(what, 0)
      BY <3>2, <3>3, TextFields DEF Rewrite
    <3> QED
      BY <1>2, <2>8, <3>1, <3>3, <3>4
  <2>12. CASE rawTag = "script"
    <3>1. noEscape = 1
      BY <2>9, <2>12, <2>a DEF CountedElement
    <3>2. Rewrite(t) = t
      BY <1>2, <2>3, <2>12, <3>1, ScriptText
    <3> QED
      BY <1>2, <2>3, <2>8, <3>2
  <2>13. CASE rawTag = "textarea" /\ ~(noEscape <= 0)
    <3>1. noEscape = 1 /\ Decode(level) <= 1
      BY <2>9, <2>13, <2>a DEF CountedElement
    <3>2. ~(what = "end" /\ level \in {1, 2})
      BY <2>1, <2>3, <2>13, <2>a DEF Tears, Alive
    <3> DEFINE l == Decode(level)
    <3>3. /\ Rewrite(t) = Text(what, l) /\ ~Alive(Text(what, l))
          /\ l \in {0, 1} /\ Decode(l) = l
          /\ ~(what = "end" /\ l \in {1, 2})
      BY <1>2, <2>13, <3>1, <3>2, AreaText
    <3> HIDE DEF l
    <3>4. l \in 0..3 /\ Decode(l) <= 1
      BY <3>3
    <3>5. Rewrite(Text(what, l)) = Text(what, l)
      BY <2>13, <3>1, <3>3, <3>4, AreaText
    <3> QED
      BY <2>8, <3>3, <3>5 DEF l
  <2> QED
    BY <2>9, <2>10, <2>11, <2>12, <2>13 DEF RawElement, CountedElement
<1> QED
  BY <1>1, <1>2, TokenShape

\* Writing a text leaves a text.
LEMMA RewriteText ==
  ASSUME NEW text, text.type = "text"
  PROVE  Rewrite(text).type = "text"
BY TextFields DEF Rewrite

\* What is written is a token.
LEMMA TokenType ==
  ASSUME NEW t \in Tokens, NEW link, NEW layers, ReadToken(t, link, layers)
  PROVE  token'.type = t.type /\ token'.type # "none"
<1>1. CASE /\ t.type \in {"start", "end", "self"}
           /\ [t EXCEPT !.link = link].type = t.type
  BY <1>1 DEF ReadToken, NextToken
<1>2. CASE t.type = "text"
  <2>1. token' = RewriteBy(layers, t)
    BY <1>2 DEF ReadToken, NextToken
  <2>2. Rewrite(t).type = "text"
    BY <1>2, RewriteText
  <2>3. Rewrite(Rewrite(t)).type = "text"
    BY <2>2, RewriteText
  <2> QED
    BY <1>2, <2>1, <2>2, <2>3 DEF RewriteBy
<1> QED
  BY <1>1, <1>2, TokenShape, TextFields

\* A token fills the buffer; nothing of the one before is left.
LEMMA PieceToken ==
  ASSUME PieceInv, NEW t \in Tokens, NEW link, NEW layers,
         ReadToken(t, link, layers)
  PROVE  PieceInv'
<1>1. Rendering \in Seq(1..PieceCount)
  BY StreamAssumption, IsASeq DEF Rendering
<1>2. buffer' = Rendering /\ out' = <<>>
  BY DEF ReadToken, NextToken
<1>3. <<>> \o Rendering = Rendering
  BY <1>1, ConcatEmptySeq
<1>4. token'.type # "none"
  BY TokenType
<1>5. whole' = TRUE
  <2>1. token.type # "none" => out = Rendering
    <3>1. buffer = <<>> /\ out \in Seq(1..PieceCount)
      BY DEF ReadToken, PieceInv
    <3>2. out \o <<>> = out
      BY <3>1, ConcatEmptySeq
    <3> QED
      BY <3>1, <3>2 DEF PieceInv
  <2> QED
    BY <2>1 DEF ReadToken, NextToken, PieceInv
<1> QED
  BY <1>1, <1>2, <1>3, <1>4, <1>5, EmptySeq DEF PieceInv, Rendering

\* A read of n pieces moves them from the buffer to the reader.
LEMMA PieceCopy ==
  ASSUME PieceInv, NEW n \in 1..PieceCount, Copy(n)
  PROVE  PieceInv'
<1>1. /\ out' = out \o SubSeq(buffer, 1, n)
      /\ buffer' = SubSeq(buffer, n + 1, Len(buffer))
      /\ token' = token /\ n \in 1..Len(buffer) /\ buffer # <<>>
      /\ whole' = whole
  BY DEF Copy
<1>2. buffer \in Seq(1..PieceCount) /\ out \in Seq(1..PieceCount)
  BY DEF PieceInv
<1>3. /\ out' \in Seq(1..PieceCount) /\ buffer' \in Seq(1..PieceCount)
      /\ out' \o buffer' = out \o buffer
  BY <1>1, <1>2, CopyProperties, ZenonT(40)
<1>4. token.type # "none" /\ out \o buffer = Rendering
  BY <1>1 DEF PieceInv
<1> QED
  BY <1>1, <1>3, <1>4 DEF PieceInv, Rendering

\* A new request starts with a streamer of its own.
LEMMA StreamAsk ==
  ASSUME NEW url, NEW meaning, Ask(url, meaning)
  PROVE  StreamInv'
<1>1. /\ rawTag' = "" /\ noEscape' = 0 /\ token' = NoToken
      /\ buffer' = <<>> /\ out' = <<>>
      /\ page' = "regular" /\ whole' = TRUE
  BY DEF Ask
<1>2. token'.type = "none"
  BY <1>1 DEF NoToken
<1>3. NestInv'
  <2>1. noEscape' = IF rawTag' \in CountedElement THEN 1 ELSE 0
    BY <1>1 DEF CountedElement
  <2>2. noEscape' \in Int
    <3>1. noEscape' = 0
      BY <1>1
    <3> QED
      BY <3>1
  <2>3. noEscape' <= IF rawTag' \in CountedElement THEN 1 ELSE 0
    <3>1. noEscape' = 0
      BY <1>1
    <3>2. rawTag' \notin CountedElement
      BY <1>1 DEF CountedElement
    <3> QED
      BY <3>1, <3>2
  <2> QED
    BY <1>1, <2>1, <2>2, <2>3 DEF NestInv
<1>4. TextIntact'
  BY <1>2 DEF TextIntact
<1>5. PieceInv'
  BY <1>1, <1>2, EmptySeq DEF PieceInv
<1> QED
  BY <1>3, <1>4, <1>5 DEF StreamInv

\* Steps that leave the streamer alone.
LEMMA StreamUnchanged ==
  ASSUME StreamInv, UNCHANGED streamVars
  PROVE  StreamInv'
BY DEF StreamInv, NestInv, TextIntact, PieceInv, Sees, Alive, Decode, streamVars

\* Every step preserves the invariant of the page.
LEMMA StreamStep ==
  ASSUME StreamInv, [Next]_vars
  PROVE  StreamInv'
<1>1. CASE TypeURL
  BY <1>1, StreamAsk DEF TypeURL
<1>2. CASE FollowLink
  BY <1>2, StreamAsk DEF FollowLink
<1>3. CASE FollowRedirect
  BY <1>3, StreamAsk DEF FollowRedirect
<1>4. CASE ReadPage
  <2>1. PICK t \in Tokens :
          ReadToken(t, ModifyToken(t), IF request.via = "debug" THEN 2 ELSE 1)
    BY <1>4 DEF ReadPage
  <2> QED
    BY <2>1, NestToken, TextToken, PieceToken DEF StreamInv
<1>5. CASE ReadPieces
  <2>1. PICK n \in 1..PieceCount : Copy(n)
    BY <1>5 DEF ReadPieces
  <2>2. UNCHANGED <<rawTag, noEscape, token, original, page>>
    BY <2>1 DEF Copy
  <2>3. NestInv' /\ TextIntact'
    BY <2>2 DEF StreamInv, NestInv, TextIntact, Sees, Alive, Decode
  <2> QED
    BY <2>1, <2>3, PieceCopy DEF StreamInv
<1>6. CASE Serve
  <2>1. UNCHANGED streamVars
    BY <1>6 DEF Serve, ServeForbidden, ServeProxy, ServeRedirect, ServeFile,
         ServePHP, ServeWasm, SftpNoClient, SftpError, SftpOpenDir,
         SftpOpenFile, Answer
  <2> QED
    BY <2>1, StreamUnchanged
<1>7. CASE UNCHANGED vars
  BY <1>7, StreamUnchanged DEF vars
<1> QED
  BY <1>1, <1>2, <1>3, <1>4, <1>5, <1>6, <1>7 DEF Next

\* The first request starts with a streamer of its own.
LEMMA StreamStart == Init => StreamInv
<1> SUFFICES ASSUME Init
             PROVE  StreamInv
  OBVIOUS
<1>1. /\ rawTag = "" /\ noEscape = 0 /\ token = NoToken
      /\ buffer = <<>> /\ out = <<>>
      /\ page = "regular" /\ whole = TRUE
  BY DEF Init, StreamInit
<1>2. token.type = "none"
  BY <1>1 DEF NoToken
<1>3. NestInv
  <2>1. noEscape = IF rawTag \in CountedElement THEN 1 ELSE 0
    BY <1>1 DEF CountedElement
  <2>2. noEscape \in Int
    <3>1. noEscape = 0
      BY <1>1
    <3> QED
      BY <3>1
  <2>3. noEscape <= IF rawTag \in CountedElement THEN 1 ELSE 0
    <3>1. noEscape = 0
      BY <1>1
    <3>2. rawTag \notin CountedElement
      BY <1>1 DEF CountedElement
    <3> QED
      BY <3>1, <3>2
  <2> QED
    BY <1>1, <2>1, <2>2, <2>3 DEF NestInv
<1>4. TextIntact
  BY <1>2 DEF TextIntact
<1>5. PieceInv
  BY <1>1, <1>2, EmptySeq DEF PieceInv
<1> QED
  BY <1>3, <1>4, <1>5 DEF StreamInv

\* The invariant of the page holds from the first request on.
LEMMA StreamInvariant == Spec => []StreamInv
BY StreamStart, StreamStep, PTL DEF Spec

\* Whatever the sizes of the reads, HTMLStreamer.Read gives out every token
\* complete and in order, and all of it before it reads the next.
THEOREM StreamKeepsPieces == Spec => []StreamExact
<1>1. StreamInv => StreamExact
  BY DEF StreamInv, PieceInv, StreamExact
<1> QED
  BY <1>1, StreamInvariant, PTL

\* A text means to the browser what the target meant, and never becomes
\* markup, through one streamer and through two, with the exceptions that
\* TextIntact names.
THEOREM StreamKeepsText == Spec => []TextIntact
<1>1. StreamInv => TextIntact
  BY DEF StreamInv
<1> QED
  BY <1>1, StreamInvariant, PTL

-----------------------------------------------------------------------------
(***************************************************************************)
(* Types.  Hosts stay free of slashes and paths begin with one, from the   *)
(* config file and the client's URLs through every rewriting of a page.    *)
(***************************************************************************)

\* What a client can ask for.
URLs == {u \in [via : {"direct", "debug"}, host : Str, path : Str] :
           IsHost(u.host) /\ IsPath(u.path)}

\* What url.Parse makes of a location.
IsLocation(loc) == IsHost(loc.host) /\ IsPath(loc.path)

\* What Server.ServeHTTP makes of a URL.
AtOf(url) == IF url.via = "debug" THEN DebugRequest(url.path)
             ELSE Location(url.host, url.path)

\* Whatever the client asks for, a host and a path reach Server.ServeHTTP.
LEMMA AtOfType ==
  ASSUME NEW url \in URLs
  PROVE  IsLocation(AtOf(url))
<1>1. /\ url.via \in {"direct", "debug"} /\ IsHost(url.host) /\ IsPath(url.path)
      /\ url.path \in Str
  BY DEF URLs
<1>2. CASE url.via # "debug"
  BY <1>1, <1>2 DEF AtOf, IsLocation, Location
<1>3. CASE url.via = "debug" /\ url.path = <<>>
  <2>1. AtOf(url) = Location(NoHost, <<>>)
    BY <1>3, DebugEmpty DEF AtOf
  <2>2. IsHost(NoHost) /\ IsPath(<<>>)
    BY EmptyStr DEF IsHost, IsPath, NoHost, Slashes
  <2> QED
    BY <2>1, <2>2 DEF IsLocation, Location
<1>4. CASE url.via = "debug" /\ url.path # <<>>
  <2>1. Tail(url.path) \in Str /\ url.path = Cat(Slash, Tail(url.path))
    BY <1>1, <1>4, LeadingSlash DEF IsPath
  <2>2. PICK h \in Str, p \in Str :
          IsHost(h) /\ IsPath(p) /\ Tail(url.path) = Cat(h, p)
    BY <2>1, SplitExists
  <2>3. DebugRequest(url.path) = Location(h, p)
    BY <2>1, <2>2, DebugSplit
  <2> QED
    BY <1>4, <2>2, <2>3 DEF AtOf, IsLocation, Location
<1> QED
  BY <1>2, <1>3, <1>4

\* The path of a route.
LEMMA RouteSplit ==
  ASSUME NEW r \in Routes
  PROVE  /\ r.name \in Str /\ IsPath(r.target.path) /\ r.target.path \in Str
         /\ IsHost(HostOf(r)) /\ HostOf(r) \in Str
         /\ IsPath(PathOf(r)) /\ PathOf(r) \in Str
         /\ r.name = Cat(HostOf(r), PathOf(r))
BY VisitAssumption, SplitName DEF HostOf, PathOf, IsHost, IsPath

\* The root of a file target and the endpoint of PHP.
LEMMA FileRootType ==
  ASSUME NEW r \in Routes
  PROVE  /\ FileRoot(r) \in Str /\ IsPath(FileRoot(r))
         /\ Clean(FileRoot(r)) = FileRoot(r)
<1> DEFINE name == Cat(r.target.host, r.target.path)
           joined == Cat(Cat(Cwd, Slash), name)
<1>1. r.target.host \in Str /\ r.target.path \in Str
  BY VisitAssumption DEF IsHost, IsPath
<1>2. name \in Str
  BY <1>1, CatLaws DEF Str
<1> HIDE DEF name
<1>3. joined \in Str
  <2> DEFINE dir == Cat(Cwd, Slash)
  <2>1. dir \in Str
    BY TreeAssumption, SlashStr, CatLaws DEF Str
  <2> HIDE DEF dir
  <2> QED
    BY <1>2, <2>1, CatLaws DEF Str, dir
<1>4. FileRoot(r) = Clean(name) \/ FileRoot(r) = Clean(joined)
  BY DEF FileRoot, Abs, PathJoin, Cat, name
<1> HIDE DEF joined
<1>5. ASSUME NEW x \in Str
      PROVE  /\ Clean(x) \in Str /\ IsPrefix(Slash, Clean(x))
             /\ Clean(Clean(x)) = Clean(x)
  <2>1. Kept(x) \in Seq(Name) /\ Clean(x) = FromParts(Kept(x))
    BY KeptType
  <2>2. Clean(FromParts(Kept(x))) = FromParts(Kept(x))
    BY <2>1, CleanFrom
  <2> QED
    BY <2>1, <2>2, CleanType
<1> QED
  BY <1>2, <1>3, <1>4, <1>5 DEF IsPath

\* The path of a target, as the handlers give it to the response writer.
LEMMA TargetPathType ==
  ASSUME NEW r \in Routes
  PROVE  TargetPath(r) \in Str
<1>1. r.target.path \in Str
  BY RouteSplit
<1>2. CASE r.kind = "proxy"
  BY <1>1, <1>2 DEF TargetPath
<1>3. CASE r.kind = "php"
  BY <1>3, FileRootType, CleanType DEF TargetPath
<1>4. CASE r.kind \notin {"proxy", "php"}
  BY <1>4, EmptyStr DEF TargetPath
<1> QED
  BY <1>2, <1>3, <1>4

\* updateLocation leaves a location a location.
LEMMA UpdateType ==
  ASSUME NEW loc, IsLocation(loc), NEW hostname, NEW hp, IsPath(hp),
         NEW tp \in Str
  PROVE  IsLocation(UpdateLocation(loc, hostname, hp, tp))
<1> DEFINE uri == RequestURI(loc)
           trimmed == TrimPrefix(uri, tp)
           new == IF IsPrefix(Slash, uri) THEN SingleJoiningSlash(hp, trimmed) ELSE uri
<1>1. IsPath(uri)
  <2>1. IsPath(Slash)
    BY SlashStr, LeadingSlash DEF IsPath
  <2> QED
    BY <2>1 DEF RequestURI, IsLocation
<1> HIDE DEF uri
<1>2. trimmed \in Str
  BY <1>1, TrimStr DEF IsPath
<1> HIDE DEF trimmed
<1>3. IsPath(new)
  BY <1>1, <1>2, JoinPath
<1>4. IsHost(NoHost)
  BY EmptyStr DEF IsHost, NoHost, Slashes
<1> HIDE DEF new
<1>5. UpdateLocation(loc, hostname, hp, tp) \in {loc, Location(NoHost, new)}
  BY DEF UpdateLocation, new, uri, trimmed
<1> QED
  BY <1>3, <1>4, <1>5 DEF IsLocation, Location

\* updateLocation without a target path puts the path of the route in front.
LEMMA Prefixed ==
  ASSUME NEW loc, loc.path \in Str, IsPrefix(Slash, loc.path), NEW hp
  PROVE  UpdateLocation(loc, NoHost, hp, <<>>).path
           \in {loc.path, SingleJoiningSlash(hp, loc.path)}
<1>1. TrimPrefix(loc.path, <<>>) = loc.path
  BY EmptyStr
<1>2. loc.path # <<>>
  BY LeadingSlash
<1> QED
  BY <1>1, <1>2 DEF UpdateLocation, RequestURI, Location

\* The types that TypeOK leaves out: the request is a URL, and a page that is
\* read has a route.
TypeInv ==
  /\ step \in {"idle", "asked", "reads", "moved", "aborted"}
  /\ request \in URLs
  /\ route \in Routes \cup {NoRoute}
  /\ step = "reads" => route \in Routes
  /\ step = "moved" => route \in Routes /\ AtServer.path = WasmBase(route)
  /\ route.kind \in {"proxy", "redirect"} => IsPrefix(Slash, reached.path)

\* The link of a token is a location.
LinkInv ==
  /\ token.type \in {"none", "start", "self", "end", "text"}
  /\ token.type \in {"start", "self"} /\ token.link # NoLink
       => IsLocation(token.link)

\* The locations on a page.
LEMMA PageLinksType ==
  ASSUME TypeInv, route \in Routes, NEW loc \in PageLinks
  PROVE  IsLocation(loc)
<1>1. IsHost(NoHost)
  BY EmptyStr DEF IsHost, NoHost, Slashes
<1>2. CASE route.kind \in {"proxy", "php"}
  <2>1. loc \in ProxyLinks
    BY <1>2 DEF PageLinks, IsDirectory
  <2> QED
    BY <2>1, VisitAssumption DEF IsLocation
<1>3. CASE IsDirectory
  <2> DEFINE uri == Clean(Stripped(route))
  <2>1. uri \in Str
    <3>1. IsLocation(AtOf(request)) /\ AtServer = AtOf(request)
      BY AtOfType DEF TypeInv, AtServer, AtOf
    <3>2. AtServer.path \in Str /\ PathOf(route) \in Str
      BY <3>1, RouteSplit DEF IsLocation, IsPath
    <3>3. Stripped(route) \in Str
      BY <3>2, StripPath DEF Stripped
    <3> QED
      BY <3>3, CleanType
  <2>2. PICK p \in Listing(reached.path, uri) : loc = Location(NoHost, p)
    BY <1>3 DEF PageLinks, IsDirectory
  <2> HIDE DEF uri
  <2>3. p \in Str /\ IsPrefix(Slash, p)
    <3>1. CASE p = Dir(uri)
      BY <2>1, <3>1, CleanType
    <3>2. ASSUME NEW n \in Readdir(reached.path), p = PathJoin(uri, n)
          PROVE  p \in Str /\ IsPrefix(Slash, p)
      <4>1. PICK q \in DOMAIN Tree : n = Last(Parts(q))
        BY DEF Readdir
      <4>2. Parts(q) \in Seq(Host) /\ Parts(q) # <<>>
        BY TreeAssumption, PartsType
      <4>3. n \in Str
        BY <4>1, <4>2, FrontProperties DEF Host
      <4> QED
        BY <2>1, <3>2, <4>3, CleanType
    <3> QED
      BY <3>1, <3>2 DEF Listing
  <2> QED
    BY <1>1, <2>2, <2>3 DEF IsLocation, Location, IsPath
<1>4. CASE route.kind \notin {"proxy", "php"} /\ ~IsDirectory
  BY <1>4 DEF PageLinks
<1> QED
  BY <1>2, <1>3, <1>4

\* Both writers leave a location a location.
LEMMA ListenerType ==
  ASSUME request \in URLs, NEW loc, IsLocation(loc)
  PROVE  IsLocation(ByListener(loc))
<1>1. AtServer = AtOf(request) /\ IsLocation(AtServer)
  BY AtOfType DEF AtServer, AtOf
<1>2. AtServer.host \in Str
  BY <1>1 DEF IsLocation, IsHost
<1> DEFINE hp == Cat(Slash, AtServer.host)
<1>3. IsPath(hp)
  BY <1>2, SlashCat DEF IsPath
<1>4. ByListener(loc) = loc \/ ByListener(loc) = UpdateLocation(loc, NoHost, hp, <<>>)
  BY DEF ByListener, Cat
<1> HIDE DEF hp
<1>5. IsLocation(UpdateLocation(loc, NoHost, hp, <<>>))
  BY <1>3, EmptyStr, UpdateType
<1> QED
  BY <1>4, <1>5

\* modifyToken leaves the location of a token a location.
LEMMA ModifyType ==
  ASSUME request \in URLs, route \in Routes, NEW t, t.type # "text",
         t.link # NoLink, IsLocation(t.link)
  PROVE  IsLocation(ModifyToken(t))
<1> DEFINE new == UpdateLocation(t.link, HostOf(route), PathOf(route),
                                 TargetPath(route))
<1>1. IsLocation(new)
  BY RouteSplit, TargetPathType, UpdateType
<1> HIDE DEF new
<1>2. ModifyToken(t) = ByListener(new)
  BY DEF ModifyToken, new
<1> QED
  BY <1>1, <1>2, ListenerType

\* A request for a typed URL, for a link and after a redirection.
LEMMA TypeAsk ==
  ASSUME TypeInv, NEW url \in URLs, NEW meaning, Ask(url, meaning)
  PROVE  TypeInv' /\ LinkInv'
<1>1. /\ step' = "asked" /\ request' = url /\ token' = NoToken
      /\ route' = route /\ reached' = reached
  BY DEF Ask, targetVars
<1>2. token'.type = "none"
  BY <1>1 DEF NoToken
<1> QED
  BY <1>1, <1>2 DEF TypeInv, LinkInv

\* A link that is followed and a redirection make a URL.
LEMMA TypeFollow ==
  ASSUME TypeInv, LinkInv, FollowLink \/ FollowRedirect
  PROVE  TypeInv' /\ LinkInv'
<1>0. /\ request \in URLs
      /\ request \in [via : {"direct", "debug"}, host : Str, path : Str]
      /\ IsHost(request.host) /\ request.via \in {"direct", "debug"}
  BY DEF TypeInv, URLs
<1>1. ASSUME NEW p, IsPath(p)
      PROVE  [request EXCEPT !.path = p] \in URLs
  <2>1. p \in Str
    BY <1>1 DEF IsPath
  <2> DEFINE u == [request EXCEPT !.path = p]
  <2>2. /\ u \in [via : {"direct", "debug"}, host : Str, path : Str]
        /\ u.host = request.host /\ u.path = p
    BY <1>0, <2>1
  <2> HIDE DEF u
  <2>3. u \in URLs
    BY <1>0, <1>1, <2>2 DEF URLs
  <2> QED
    BY <2>3 DEF u
<1>2. CASE FollowLink
  <2>1. /\ token.type \in {"start", "self"} /\ token.link # NoLink
        /\ Ask(IF token.link.host = NoHost
               THEN [request EXCEPT !.path = token.link.path]
               ELSE [via |-> "direct", host |-> token.link.host,
                     path |-> token.link.path], leads)
    BY <1>2 DEF FollowLink
  <2>2. IsHost(token.link.host) /\ IsPath(token.link.path)
    BY <2>1 DEF LinkInv, IsLocation
  <2>3. CASE token.link.host = NoHost
    BY <1>1, <2>1, <2>2, <2>3, TypeAsk
  <2>4. CASE token.link.host # NoHost
    <3> DEFINE u == [via |-> "direct", host |-> token.link.host,
                     path |-> token.link.path]
    <3>1. u \in URLs
      BY <2>2 DEF URLs, IsHost, IsPath
    <3>2. Ask(u, leads)
      BY <2>1, <2>4
    <3> HIDE DEF u
    <3> QED
      BY <3>1, <3>2, TypeAsk
  <2> QED
    BY <2>3, <2>4
<1>3. CASE FollowRedirect
  <2> DEFINE w == Cat(WasmBase(route), Slash)
             loc == ByListener(Location(NoHost, w))
  <2>1. step = "moved" /\ Ask([request EXCEPT !.path = loc.path], At(route, WasmPage))
    BY <1>3 DEF FollowRedirect, Cat
  <2>2. AtServer = AtOf(request) /\ IsLocation(AtServer) /\ AtServer.path = WasmBase(route)
    BY <1>0, <2>1, AtOfType DEF AtServer, AtOf, TypeInv
  <2>3. IsPath(w)
    <3>1. IsPath(AtServer.path) /\ AtServer.path \in Str
      BY <2>2 DEF IsLocation, IsPath
    <3>2. CASE AtServer.path = <<>>
      BY <2>2, <3>2, EmptyStr, SlashStr, LeadingSlash DEF IsPath
    <3>3. CASE IsPrefix(Slash, AtServer.path)
      BY <2>2, <3>1, <3>3, PathCat, SlashStr DEF IsPath
    <3> QED
      BY <3>1, <3>2, <3>3 DEF IsPath
  <2> HIDE DEF w
  <2>4. IsLocation(Location(NoHost, w))
    BY <2>3, EmptyStr DEF IsLocation, Location, IsHost, NoHost, Slashes
  <2>5. IsPath(loc.path)
    BY <1>0, <2>4, ListenerType DEF IsLocation
  <2> HIDE DEF loc
  <2> QED
    BY <1>1, <2>1, <2>5, TypeAsk
<1> QED
  BY <1>2, <1>3

\* A token of the page.
LEMMA TypeToken ==
  ASSUME TypeInv, LinkInv, ReadPage
  PROVE  TypeInv' /\ LinkInv'
<1>1. PICK t \in Tokens :
        ReadToken(t, ModifyToken(t), IF request.via = "debug" THEN 2 ELSE 1)
  BY DEF ReadPage
<1>2. route \in Routes /\ request \in URLs
  BY DEF ReadPage, TypeInv
<1>3. /\ step' = step /\ request' = request /\ route' = route
      /\ reached' = reached
  BY DEF ReadPage, clientVars, targetVars
<1>4. TypeInv'
  BY <1>3 DEF TypeInv, AtServer
<1>5. \/ \E type \in {"start", "self"}, l \in PageLinks : t = Tag(type, "a", l)
      \/ \E type \in {"start", "end", "self"}, name \in ElementName :
           t = Tag(type, name, NoLink)
      \/ t.type = "text"
  BY TextFields DEF Tokens
<1>6. ASSUME NEW type \in {"start", "self"}, NEW l \in PageLinks, t = Tag(type, "a", l)
      PROVE  LinkInv'
  <2>1. t.type = type /\ t.link = l /\ t.type # "text"
    BY <1>6 DEF Tag
  <2> DEFINE new == ModifyToken(t)
  <2>2. token' = [t EXCEPT !.link = new]
    BY <1>1, <2>1 DEF ReadToken, NextToken
  <2>3. token'.type = type /\ token'.link = new
    BY <1>6, <2>2 DEF Tag
  <2>4. l = NoLink \/ IsLocation(new)
    BY <1>2, <2>1, PageLinksType, ModifyType
  <2>5. l = NoLink => new = NoLink
    BY <2>1 DEF ModifyToken
  <2> HIDE DEF new
  <2> QED
    BY <2>3, <2>4, <2>5 DEF LinkInv
<1>7. ASSUME NEW type \in {"start", "end", "self"}, NEW name \in ElementName,
             t = Tag(type, name, NoLink)
      PROVE  LinkInv'
  <2>1. t.type = type /\ t.link = NoLink /\ t.type # "text"
    BY <1>7 DEF Tag
  <2>2. ModifyToken(t) = NoLink
    BY <2>1 DEF ModifyToken
  <2>3. token' = [t EXCEPT !.link = NoLink]
    BY <1>1, <2>1, <2>2 DEF ReadToken, NextToken
  <2>4. token'.type = type /\ token'.link = NoLink
    BY <1>7, <2>3 DEF Tag
  <2> QED
    BY <2>4 DEF LinkInv
<1>8. ASSUME t.type = "text"
      PROVE  LinkInv'
  BY <1>1, <1>8, TokenType DEF LinkInv
<1> QED
  BY <1>4, <1>5, <1>6, <1>7, <1>8

\* An answer by any handler.
LEMMA TypeAnswer ==
  ASSUME TypeInv, LinkInv, NEW r \in Routes, NEW what,
         NEW next \in {"idle", "reads", "moved", "aborted"},
         Answer(r, what, next),
         r.kind \in {"proxy", "redirect"} => IsPrefix(Slash, what.path),
         next = "moved" => AtServer.path = WasmBase(r)
  PROVE  TypeInv' /\ LinkInv'
<1>1. /\ step' = next /\ route' = r /\ reached' = what /\ request' = request
      /\ token' = token
  BY DEF Answer, streamVars
<1>2. AtServer' = AtServer
  BY <1>1 DEF AtServer
<1>3. next = "moved" => AtServer'.path = WasmBase(r)
  BY <1>2
<1> QED
  BY <1>1, <1>3 DEF TypeInv, LinkInv, AtServer, WasmBase, PathOf

\* The proxy and the redirection ask for a path.
LEMMA TypeServe ==
  ASSUME TypeInv, LinkInv, Serve
  PROVE  TypeInv' /\ LinkInv'
<1>0. IsLocation(AtServer) /\ AtServer.path \in Str
  BY AtOfType DEF TypeInv, AtServer, AtOf, IsLocation, IsPath
<1>1. CASE ServeForbidden
  <2>1. Answer(NoRoute, At(NoRoute, NotFound), "idle")
    BY <1>1 DEF ServeForbidden
  <2>2. /\ step' = "idle" /\ route' = NoRoute /\ request' = request
        /\ token' = token
    BY <2>1 DEF Answer, streamVars
  <2>3. NoRoute.kind = "none"
    BY DEF NoRoute
  <2> QED
    BY <2>2, <2>3 DEF TypeInv, LinkInv
<1>2. \A r \in Answering : r \in Routes
  BY DEF Answering, Matching
<1>3. ASSUME NEW r \in Answering
      PROVE  /\ r \in Routes /\ IsPath(r.target.path) /\ IsPath(PathOf(r))
             /\ Stripped(r) \in Str
  BY <1>0, <1>2, <1>3, RouteSplit, StripPath DEF Stripped
<1>4. ASSUME NEW r \in Answering, ServeProxy(r)
      PROVE  TypeInv' /\ LinkInv'
  <2> DEFINE what == At(r, SingleJoiningSlash(r.target.path, Stripped(r)))
  <2>1. IsPrefix(Slash, what.path)
    BY <1>3, JoinPath DEF At
  <2>2. Answer(r, what, "reads")
    BY <1>4 DEF ServeProxy
  <2> HIDE DEF what
  <2> QED
    BY <1>3, <2>1, <2>2, TypeAnswer
<1>5. ASSUME NEW r \in Answering, ServeRedirect(r)
      PROVE  TypeInv' /\ LinkInv'
  <2> DEFINE asked == Redirection(AtServer.path, PathOf(r), r.target)
             loc == HttpRedirect(asked)
             new == UpdateLocation(loc, NoHost, PathOf(r), <<>>)
             sent == ByListener(new)
             what == At(r, sent.path)
  <2>1. asked.path \in Str /\ IsPrefix(Slash, asked.path)
    <3>1. asked.path = SingleJoiningSlash(r.target.path, Stripped(r))
      BY DEF Redirection, Location, Stripped
    <3> HIDE DEF asked
    <3> QED
      BY <1>3, <3>1, JoinPath
  <2> HIDE DEF asked
  <2>a. loc.path \in Str /\ IsPrefix(Slash, loc.path)
    <3> DEFINE cleaned == Clean(asked.path)
    <3>1. cleaned \in Str /\ IsPrefix(Slash, cleaned)
      BY <2>1, CleanType
    <3> HIDE DEF cleaned
    <3>2. Cat(cleaned, Slash) \in Str /\ IsPrefix(Slash, Cat(cleaned, Slash))
      BY <3>1, SlashStr, PathCat
    <3>3. loc.path \in {asked.path, cleaned, Cat(cleaned, Slash)}
      BY DEF HttpRedirect, Location, Cat, cleaned
    <3> HIDE DEF loc
    <3> QED
      BY <2>1, <3>1, <3>2, <3>3
  <2> HIDE DEF loc
  <2>b. new.path \in Str /\ IsPrefix(Slash, new.path)
    <3> DEFINE hp == PathOf(r)
    <3>1. IsPath(hp)
      BY <1>3
    <3> HIDE DEF hp
    <3>2. new.path \in {loc.path, SingleJoiningSlash(hp, loc.path)}
      BY <2>a, Prefixed DEF hp
    <3> HIDE DEF new
    <3> QED
      BY <2>a, <3>1, <3>2, JoinPath
  <2> HIDE DEF new
  <2>2. IsPrefix(Slash, sent.path)
    <3> DEFINE hp == Cat(Slash, AtServer.host)
    <3>1. IsPath(hp)
      <4>1. AtServer = AtOf(request) /\ IsLocation(AtServer)
        BY AtOfType DEF AtServer, AtOf, TypeInv
      <4>2. AtServer.host \in Str
        BY <4>1 DEF IsLocation, IsHost
      <4> QED
        BY <4>2, SlashCat DEF IsPath
    <3>2. sent = new \/ sent = UpdateLocation(new, NoHost, hp, <<>>)
      BY DEF ByListener, Cat
    <3> HIDE DEF hp, sent
    <3>3. UpdateLocation(new, NoHost, hp, <<>>).path
            \in {new.path, SingleJoiningSlash(hp, new.path)}
      BY <2>b, Prefixed
    <3>4. IsPrefix(Slash, SingleJoiningSlash(hp, new.path))
      BY <2>b, <3>1, JoinPath
    <3> QED
      BY <2>b, <3>2, <3>3, <3>4
  <2> HIDE DEF sent
  <2>3. IsPrefix(Slash, what.path)
    BY <2>2 DEF At
  <2>4. Answer(r, what, "idle")
    BY <1>5 DEF ServeRedirect, sent, new, loc, asked
  <2> HIDE DEF what
  <2> QED
    BY <1>3, <2>3, <2>4, TypeAnswer
<1>6. ASSUME NEW r \in Answering, ServeFile(r) \/ ServePHP(r)
      PROVE  TypeInv' /\ LinkInv'
  <2>1. r.kind \notin {"proxy", "redirect"} /\ (\E what : Answer(r, what, "reads") \/ Answer(r, what, "idle"))
    BY <1>6 DEF ServeFile, ServePHP
  <2> QED
    BY <1>3, <2>1, TypeAnswer
<1>7. ASSUME NEW r \in Answering, ServeWasm(r)
      PROVE  TypeInv' /\ LinkInv'
  <2>1. \A name : AssetSent(name) \in {"idle", "aborted"}
    BY DEF AssetSent
  <2>3. r.kind \notin {"proxy", "redirect"}
    BY <1>7 DEF ServeWasm
  <2>4. PICK what, next : /\ next \in {"idle", "moved", "aborted"}
                          /\ next = "moved" => AtServer.path = WasmBase(r)
                          /\ Answer(r, what, next)
    BY <1>7, <2>1 DEF ServeWasm
  <2> QED
    BY <1>3, <2>3, <2>4, TypeAnswer
<1>8. ASSUME NEW r \in Answering, SftpNoClient(r) \/ SftpError(r)
      PROVE  TypeInv' /\ LinkInv'
  <2>1. r.kind \notin {"proxy", "redirect"} /\ Answer(r, Failed, "idle")
    BY <1>8 DEF SftpNoClient, SftpError, SftpConnect
  <2> QED
    BY <1>3, <2>1, TypeAnswer
<1>9. ASSUME NEW r \in Answering, SftpOpenDir(r) \/ SftpOpenFile(r)
      PROVE  TypeInv' /\ LinkInv'
  <2>1. r.kind \notin {"proxy", "redirect"} /\ (\E what : Answer(r, what, "reads"))
    BY <1>9 DEF SftpOpenDir, SftpOpenFile, SftpConnect
  <2> QED
    BY <1>3, <2>1, TypeAnswer
<1> QED
  BY <1>1, <1>4, <1>5, <1>6, <1>7, <1>8, <1>9 DEF Serve

\* Every step preserves the types.
LEMMA TypeStep ==
  ASSUME TypeInv, LinkInv, [Next]_vars
  PROVE  TypeInv' /\ LinkInv'
<1>1. CASE TypeURL
  <2>1. PICK url \in TypedURLs : Ask(url, Anything)
    BY <1>1 DEF TypeURL
  <2>2. url \in URLs
    BY VisitAssumption DEF URLs
  <2> QED
    BY <2>1, <2>2, TypeAsk
<1>2. CASE FollowLink \/ FollowRedirect
  BY <1>2, TypeFollow
<1>3. CASE ReadPage
  BY <1>3, TypeToken
<1>4. CASE ReadPieces
  <2>1. PICK n \in 1..PieceCount : Copy(n)
    BY <1>4 DEF ReadPieces
  <2>2. /\ step' = step /\ request' = request /\ route' = route
        /\ reached' = reached /\ token' = token
    BY <1>4, <2>1 DEF ReadPieces, Copy, clientVars, targetVars
  <2> QED
    BY <2>2 DEF TypeInv, LinkInv, AtServer
<1>5. CASE Serve
  BY <1>5, TypeServe
<1>6. CASE UNCHANGED vars
  <2>1. /\ step' = step /\ request' = request /\ route' = route
        /\ reached' = reached /\ token' = token
    BY <1>6 DEF vars, clientVars, targetVars, streamVars
  <2> QED
    BY <2>1 DEF TypeInv, LinkInv, AtServer
<1> QED
  BY <1>1, <1>2, <1>3, <1>4, <1>5, <1>6 DEF Next

\* The bounds of the numbers.
Bounds ==
  /\ noEscape \in -MaxNest..MaxNest
  /\ original \in 0..3
  /\ token.type = "none" => out = <<>>
  /\ conns \in Nat /\ conns <= MaxConns

\* What a browser reads has at most the level that was written.
LEMMA DecodeBound ==
  ASSUME NEW level \in 0..3
  PROVE  Decode(level) \in 0..3
<1>1. Unescape(level) \in 0..3
  BY DEF Unescape
<1> QED
  BY <1>1 DEF Decode

\* A token of a page stays within the bounds.
LEMMA BoundToken ==
  ASSUME NEW t \in Tokens, NEW link, NEW layers, ReadToken(t, link, layers)
  PROVE  /\ noEscape' \in -MaxNest..MaxNest /\ original' \in 0..3
         /\ token'.type # "none"
<1>1. noEscape' \in -MaxNest..MaxNest
  BY DEF ReadToken, NextToken
<1>2. CASE /\ t.type \in {"start", "end", "self"}
           /\ [t EXCEPT !.link = link].type = t.type
  <2>1. original' = 0
    BY <1>2 DEF ReadToken, NextToken
  <2>2. token' = [t EXCEPT !.link = link]
    BY <1>2 DEF ReadToken, NextToken
  <2> QED
    BY <1>1, <1>2, <2>1, <2>2
<1>3. ASSUME NEW what, NEW level \in 0..3, t = Text(what, level)
      PROVE  original' \in 0..3
  <2>1. t.type = "text" /\ t.level = level
    BY <1>3, TextFields
  <2>2. original' = Decode(level)
    BY <2>1 DEF ReadToken, NextToken, CanFollow, Sees
  <2> QED
    BY <2>2, DecodeBound
<1> QED
  BY <1>1, <1>2, <1>3, TokenShape, TokenType

\* A new request starts within the bounds.
LEMMA BoundAsk ==
  ASSUME Bounds, NEW url, NEW meaning, Ask(url, meaning)
  PROVE  Bounds'
<1>1. noEscape' = 0 /\ original' = 0
  BY DEF Ask
<1>2. noEscape' \in -MaxNest..MaxNest /\ original' \in 0..3
  BY <1>1, StreamAssumption
<1>3. out' = <<>>
  BY DEF Ask
<1>4. conns' = conns
  BY DEF Ask
<1> QED
  BY <1>2, <1>3, <1>4 DEF Bounds

\* An answer changes nothing of the page.
LEMMA BoundServe ==
  ASSUME Bounds, Serve
  PROVE  Bounds'
<1>1. UNCHANGED streamVars
  BY DEF Serve, ServeForbidden, ServeProxy, ServeRedirect, ServeFile,
       ServePHP, ServeWasm, SftpNoClient, SftpError, SftpOpenDir,
       SftpOpenFile, Answer
<1>2. conns' = conns \/ (conns < MaxConns /\ conns' = conns + 1)
  BY DEF Serve, ServeForbidden, ServeProxy, ServeRedirect, ServeFile,
       ServePHP, ServeWasm, SftpNoClient, SftpError, SftpOpenDir,
       SftpOpenFile, SftpConnect
<1>3. conns \in Nat /\ conns <= MaxConns /\ MaxConns \in Nat
  BY VisitAssumption DEF Bounds
<1>4. conns' \in Nat /\ conns' <= MaxConns
  BY <1>2, <1>3
<1>5. /\ noEscape' = noEscape /\ original' = original /\ token' = token
      /\ out' = out
  BY <1>1 DEF streamVars
<1> QED
  BY <1>4, <1>5 DEF Bounds

\* Every step stays within the bounds.
LEMMA BoundStep ==
  ASSUME PieceInv, Bounds, [Next]_vars
  PROVE  Bounds'
<1>1. CASE TypeURL
  BY <1>1, BoundAsk DEF TypeURL
<1>2. CASE FollowLink
  BY <1>2, BoundAsk DEF FollowLink
<1>3. CASE FollowRedirect
  BY <1>3, BoundAsk DEF FollowRedirect
<1>4. CASE ReadPage
  <2>1. PICK t \in Tokens :
          ReadToken(t, ModifyToken(t), IF request.via = "debug" THEN 2 ELSE 1)
    BY <1>4 DEF ReadPage
  <2>2. conns' = conns
    BY <1>4 DEF ReadPage
  <2>3. conns' \in Nat /\ conns' <= MaxConns
    BY <2>2 DEF Bounds
  <2> QED
    BY <2>1, <2>3, BoundToken DEF Bounds
<1>5. CASE ReadPieces
  <2>1. PICK n \in 1..PieceCount : Copy(n)
    BY <1>5 DEF ReadPieces
  <2>2. /\ noEscape' = noEscape /\ original' = original /\ token' = token
        /\ buffer # <<>>
    BY <2>1 DEF Copy
  <2>3. conns' = conns
    BY <1>5 DEF ReadPieces
  <2>4. token.type # "none"
    BY <2>2 DEF PieceInv
  <2> QED
    BY <2>2, <2>3, <2>4 DEF Bounds
<1>6. CASE Serve
  BY <1>6, BoundServe
<1>7. CASE UNCHANGED vars
  BY <1>7 DEF Bounds, vars, streamVars
<1> QED
  BY <1>1, <1>2, <1>3, <1>4, <1>5, <1>6, <1>7 DEF Next

\* What is known of the pieces bounds their number.
LEMMA OutBound ==
  ASSUME PieceInv, Bounds
  PROVE  Len(out) <= PieceCount
<1>1. /\ Rendering \in Seq(1..PieceCount) /\ Len(Rendering) = PieceCount
      /\ PieceCount \in Nat
  BY StreamAssumption, IsASeq, LenProperties DEF Rendering
<1>2. /\ buffer \in Seq(1..PieceCount) /\ out \in Seq(1..PieceCount)
      /\ Len(buffer) \in Nat /\ Len(out) \in Nat
  BY LenProperties DEF PieceInv
<1>3. CASE token.type = "none"
  <2>1. Len(out) = 0
    BY <1>3, EmptySeq DEF Bounds
  <2> QED
    BY <1>1, <2>1
<1>4. CASE token.type # "none"
  <2>1. Cat(out, buffer) = Rendering
    BY <1>4 DEF PieceInv, Cat
  <2>2. Len(Cat(out, buffer)) = Len(out) + Len(buffer)
    BY <1>2, CatElements
  <2>3. Len(out) + Len(buffer) = PieceCount
    BY <1>1, <2>1, <2>2
  <2> QED
    BY <1>1, <1>2, <2>3
<1> QED
  BY <1>3, <1>4

\* The inductive invariant behind TypeOK.
VisitInv == TypeInv /\ LinkInv /\ StreamInv /\ Bounds

\* The type invariant and what it rests on hold from the first request on.
LEMMA VisitInvariant == Spec => []VisitInv
<1>1. Init => VisitInv
  <2> SUFFICES ASSUME Init
               PROVE  VisitInv
    OBVIOUS
  <2>1. StreamInv
    BY StreamStart
  <2>2. request \in URLs
    BY VisitAssumption DEF Init, URLs
  <2>3. TypeInv
    BY <2>2 DEF Init, TypeInv, NoRoute
  <2>4. token.type = "none"
    BY DEF Init, StreamInit, NoToken
  <2>5. LinkInv
    BY <2>4 DEF LinkInv
  <2>6. Bounds
    <3>1. noEscape = 0 /\ original = 0 /\ conns = 0
      BY DEF Init, StreamInit
    <3>2. noEscape \in -MaxNest..MaxNest /\ original \in 0..3
          /\ conns \in Nat /\ conns <= MaxConns
      BY <3>1, StreamAssumption, VisitAssumption
    <3>3. out = <<>>
      BY DEF Init, StreamInit
    <3> QED
      BY <3>2, <3>3 DEF Bounds
  <2> QED
    BY <2>1, <2>3, <2>5, <2>6 DEF VisitInv
<1>2. VisitInv /\ [Next]_vars => VisitInv'
  BY TypeStep, StreamStep, BoundStep DEF VisitInv, StreamInv
<1> QED
  BY <1>1, <1>2, PTL DEF Spec

\* The type invariant: locations stay locations through every rewriting, so
\* that the proxy and the redirection ask for a path that begins with a slash;
\* the counters stay within their bounds.
THEOREM VisitTypeOK == Spec => []TypeOK
<1>1. VisitInv => TypeOK
  <2> SUFFICES ASSUME VisitInv
               PROVE  TypeOK
    OBVIOUS
  <2>1. conns \in 0..MaxConns
    BY VisitAssumption DEF VisitInv, Bounds
  <2>3. /\ step \in {"idle", "asked", "reads", "moved", "aborted"}
        /\ request.via \in {"direct", "debug"}
        /\ route \in Routes \cup {NoRoute}
        /\ route.kind \in {"proxy", "redirect"} => IsPrefix(Slash, reached.path)
    BY DEF VisitInv, TypeInv, URLs
  <2>4. Len(out) <= PieceCount
    BY OutBound DEF VisitInv, StreamInv
  <2>5. StreamTypeOK
    BY <2>4 DEF VisitInv, StreamTypeOK, StreamInv, NestInv, PieceInv, LinkInv,
                Bounds
  <2> QED
    BY <2>1, <2>3, <2>5 DEF TypeOK
<1> QED
  BY <1>1, VisitInvariant, PTL

-----------------------------------------------------------------------------
(***************************************************************************)
(* Requests to proxies and redirections.                                   *)
(***************************************************************************)

\* No route of the config file has wildcards.
PlainNames == \A r \in Routes : ~IsWildcard(r.name)

\* Every redirection leads to a host: a Location without host is taken for one
\* of the route itself and gets the route's path (updateLocation).
RedirectsElsewhere ==
  \A r \in Routes : r.kind = "redirect" => r.target.host # NoHost

\* A host has no slash at its end.
LEMMA HostEnd ==
  ASSUME NEW h, IsHost(h)
  PROVE  ~IsSuffix(Slash, h)
<1>1. h \in Str /\ Slashes(h) = {}
  BY DEF IsHost
<1>2. SUFFICES ASSUME h # <<>>, h[Len(h)] = "/"
               PROVE  FALSE
  BY <1>1, EndingSlash
<1>3. Len(h) \in Nat /\ Len(h) # 0
  BY <1>1, <1>2, LenProperties, EmptySeq DEF Str
<1>4. Len(h) \in 1..Len(h)
  BY <1>3
<1> QED
  BY <1>1, <1>2, <1>4, SlashesFinite

\* A request at or below a route is for the host of the route, and its path
\* continues the path of the route.
LEMMA RouteRest ==
  ASSUME NEW r \in Routes, NEW loc, IsLocation(loc), NEW rest \in Str,
         Cat(loc.host, loc.path) = Cat(r.name, rest),
         rest = <<>> \/ IsPrefix(Slash, rest) \/ IsSuffix(Slash, r.name)
  PROVE  loc.host = HostOf(r) /\ loc.path = Cat(PathOf(r), rest)
<1>1. /\ IsHost(HostOf(r)) /\ HostOf(r) \in Str
      /\ IsPath(PathOf(r)) /\ PathOf(r) \in Str
      /\ r.name = Cat(HostOf(r), PathOf(r))
  BY RouteSplit
<1>2. IsHost(loc.host) /\ IsPath(loc.path)
  BY DEF IsLocation
<1>3. Cat(r.name, rest) = Cat(HostOf(r), Cat(PathOf(r), rest))
  BY <1>1, CatLaws DEF Str
<1>4. IsPath(Cat(PathOf(r), rest))
  <2>1. CASE PathOf(r) = <<>>
    <3>1. r.name = HostOf(r)
      BY <1>1, <2>1, EmptyStr
    <3>2. ~IsSuffix(Slash, r.name)
      BY <1>1, <3>1, HostEnd
    <3>3. Cat(PathOf(r), rest) = rest
      BY <2>1, EmptyStr
    <3> QED
      BY <3>2, <3>3 DEF IsPath
  <2>2. CASE PathOf(r) # <<>>
    BY <1>1, <2>2, PathCat DEF IsPath
  <2> QED
    BY <2>1, <2>2
<1> DEFINE p == Cat(PathOf(r), rest)
<1>5. Cat(loc.host, loc.path) = Cat(HostOf(r), p)
  BY <1>3
<1>6. IsPath(p)
  BY <1>4
<1> HIDE DEF p
<1>7. loc.host = HostOf(r) /\ loc.path = p
  BY <1>1, <1>2, <1>5, <1>6, SplitUnique
<1> QED
  BY <1>7 DEF p

\* A place in a target is the target's path joined with the place.
LEMMA JoinTarget ==
  ASSUME NEW target \in Str, NEW place \in Str, IsPrefix(Slash, place)
  PROVE  SingleJoiningSlash(target, place)
           = (IF IsSuffix(Slash, target) THEN Front(target) ELSE target) \o place
<1>1. Tail(place) \in Str /\ place = Cat(Slash, Tail(place))
  BY LeadingSlash
<1> DEFINE z == Tail(place)
<1>2. SingleJoiningSlash(target, place) = Cat(WithSlash(target), z)
  BY <1>1, JoinSlash
<1> HIDE DEF z
<1>3. CASE IsSuffix(Slash, target)
  <2>1. /\ Front(target) \in Str /\ target = Cat(Front(target), Slash)
        /\ WithSlash(target) = target
    BY <1>3, EndingSlash, WithSlashCases
  <2>2. Cat(Cat(Front(target), Slash), z) = Cat(Front(target), Cat(Slash, z))
    BY <1>1, <2>1, SlashStr, CatLaws, ZenonT(40) DEF Str, z
  <2> QED
    BY <1>1, <1>2, <1>3, <2>1, <2>2 DEF z, Cat
<1>4. CASE ~IsSuffix(Slash, target)
  <2>1. WithSlash(target) = Cat(target, Slash)
    BY <1>4, WithSlashCases
  <2>2. Cat(Cat(target, Slash), z) = Cat(target, Cat(Slash, z))
    BY <1>1, SlashStr, CatLaws, ZenonT(40) DEF Str, z
  <2> QED
    BY <1>1, <1>2, <1>4, <2>1, <2>2 DEF z, Cat
<1> QED
  BY <1>3, <1>4

\* What the handler of a route makes of a request below it.
LEMMA StrippedPlace ==
  ASSUME NEW r \in Routes, NEW loc, IsLocation(loc),
         NEW full, full = Cat(loc.host, loc.path), IsPrefix(r.name, full),
         NEW rest, rest = TrimPrefix(full, r.name),
         rest = <<>> \/ IsPrefix(Slash, rest) \/ IsSuffix(Slash, r.name)
  PROVE  /\ rest \in Str
         /\ full = Cat(r.name, rest)
         /\ loc.host = HostOf(r) /\ loc.path = Cat(PathOf(r), rest)
         /\ Strip(loc.path, PathOf(r))
              = IF IsPrefix(Slash, rest) THEN rest ELSE Cat(Slash, rest)
<1>1. loc.host \in Str /\ loc.path \in Str
  BY DEF IsLocation, IsPath, IsHost
<1>2. full \in Str
  BY <1>1, CatLaws DEF Str
<1>3. /\ r.name \in Str /\ PathOf(r) \in Str
  BY RouteSplit
<1>4. rest \in Str /\ full = Cat(r.name, rest)
  BY <1>2, <1>3, PrefixRest DEF TrimPrefix, Str
<1>5. loc.host = HostOf(r) /\ loc.path = Cat(PathOf(r), rest)
  BY <1>4, RouteRest
<1>6. Strip(loc.path, PathOf(r))
        = IF IsPrefix(Slash, rest) THEN rest ELSE Cat(Slash, rest)
  BY <1>3, <1>4, <1>5, StripRest
<1> QED
  BY <1>4, <1>5, <1>6

\* The proxy and the redirection reach that place in the target.
LEMMA StrippedServe ==
  ASSUME PlainNames, RedirectsElsewhere, TypeInv, Serve
  PROVE  RouteStripped'
<1>1. CASE ServeForbidden
  <2>1. route' = NoRoute
    BY <1>1 DEF ServeForbidden, Answer
  <2> QED
    BY <2>1 DEF RouteStripped, Served
<1>2. ASSUME NEW r \in Answering,
             ServeFile(r) \/ ServePHP(r) \/ ServeWasm(r) \/ SftpNoClient(r)
               \/ SftpError(r) \/ SftpOpenDir(r) \/ SftpOpenFile(r)
      PROVE  RouteStripped'
  <2>1. route' = r /\ r.kind \notin {"proxy", "redirect"}
    BY <1>2 DEF ServeFile, ServePHP, ServeWasm, SftpNoClient, SftpError,
         SftpOpenDir, SftpOpenFile, SftpConnect, Answer
  <2> QED
    BY <2>1 DEF RouteStripped
<1>3. ASSUME NEW r \in Answering, ServeProxy(r) \/ ServeRedirect(r)
      PROVE  RouteStripped'
  <2> DEFINE joined == SingleJoiningSlash(r.target.path, Stripped(r))
  <2>1. r \in Routes /\ Match(r.name, FullPath)
    BY DEF Answering, Matching
  <2>2. r.target.path \in Str
    BY <2>1, RouteSplit
  <2>3. request' = request /\ route' = r
    BY <1>3 DEF ServeProxy, ServeRedirect, Answer
  <2>4. /\ FullPath' = FullPath /\ Stripped(r)' = Stripped(r)
        /\ request' \in URLs
    BY <2>3 DEF FullPath, Stripped, AtServer, PathOf, TypeInv
  <2>5. reached' = At(r, joined)
    <3>1. CASE ServeProxy(r)
      BY <3>1 DEF ServeProxy, Answer
    <3>2. CASE ServeRedirect(r)
      <4> DEFINE loc == Redirection(AtServer.path, PathOf(r), r.target)
                 sent == ByListener(UpdateLocation(HttpRedirect(loc), NoHost,
                                                   PathOf(r), <<>>))
      <4>1. reached' = At(r, sent.path) /\ r.kind = "redirect"
        BY <3>2 DEF ServeRedirect, Answer
      <4>2. loc.host # NoHost /\ loc.path = joined
        BY <2>1, <4>1 DEF RedirectsElsewhere, Redirection, Location, Stripped
      <4> HIDE DEF loc
      <4>3. sent = loc
        BY <4>2 DEF HttpRedirect, UpdateLocation, ByListener
      <4> QED
        BY <4>1, <4>2, <4>3
    <3> QED
      BY <1>3, <3>1, <3>2
  <2>6. reached'.path = joined
    BY <2>5 DEF At
  <2>7. ASSUME AsksBelow'
        PROVE  joined = Below(r.target.path, PlaceBelow')
    <3> DEFINE full == FullPath
               rest == TrimPrefix(full, r.name)
               place == IF IsPrefix(Slash, rest) THEN rest ELSE Cat(Slash, rest)
    <3>1. ~IsWildcard(r.name) /\ IsPrefix(r.name, full)
      BY <2>1 DEF PlainNames, Match
    <3>2. full = Cat(AtServer.host, AtServer.path)
      BY DEF FullPath, Cat
    <3>3. BelowRoute' = rest
      BY <2>3, <2>4, <3>1 DEF BelowRoute
    <3>4. PlaceBelow' = place
      BY <3>3 DEF PlaceBelow, Cat
    <3>5. rest = <<>> \/ IsPrefix(Slash, rest) \/ IsSuffix(Slash, r.name)
      BY <2>3, <2>7, <3>3 DEF AsksBelow
    <3>6. IsLocation(AtServer) /\ AtServer.path \in Str
      BY AtOfType DEF TypeInv, AtServer, AtOf, IsLocation, IsPath
    <3> HIDE DEF full, rest
    <3>7. Strip(AtServer.path, PathOf(r)) = place
      BY <2>1, <3>1, <3>2, <3>5, <3>6, StrippedPlace DEF rest
    <3> HIDE DEF place
    <3>8. Stripped(r) = place /\ place \in Str /\ IsPrefix(Slash, place)
      BY <2>1, <3>6, <3>7, RouteSplit, StripPath DEF Stripped
    <3>9. joined = (IF IsSuffix(Slash, r.target.path) THEN Front(r.target.path)
                    ELSE r.target.path) \o place
      BY <2>2, <3>8, JoinTarget
    <3> QED
      BY <3>4, <3>9 DEF Below
  <2> QED
    BY <2>3, <2>6, <2>7 DEF RouteStripped
<1> QED
  BY <1>1, <1>2, <1>3 DEF Serve

\* Every step keeps requests in their place.
LEMMA StrippedStep ==
  ASSUME PlainNames, RedirectsElsewhere, TypeInv, RouteStripped, [Next]_vars
  PROVE  RouteStripped'
<1>1. ASSUME NEW url, NEW meaning, Ask(url, meaning)
      PROVE  RouteStripped'
  BY <1>1 DEF Ask, RouteStripped, Served
<1>2. CASE TypeURL \/ FollowLink \/ FollowRedirect
  BY <1>1, <1>2 DEF TypeURL, FollowLink, FollowRedirect
<1>3. CASE ReadPage \/ ReadPieces \/ UNCHANGED vars
  <2>1. /\ step' = step /\ request' = request /\ route' = route
        /\ reached' = reached
    BY <1>3 DEF ReadPage, ReadPieces, vars, clientVars, targetVars
  <2>2. AtServer' = AtServer
    BY <2>1 DEF AtServer
  <2>3. FullPath' = FullPath
    BY <2>2 DEF FullPath
  <2>4. BelowRoute' = BelowRoute
    BY <2>1, <2>3 DEF BelowRoute
  <2>5. PlaceBelow' = PlaceBelow /\ AsksBelow' = AsksBelow
    BY <2>1, <2>4 DEF PlaceBelow, AsksBelow
  <2> QED
    BY <2>1, <2>5 DEF RouteStripped, Served
<1>4. CASE Serve
  BY <1>4, StrippedServe
<1> QED
  BY <1>2, <1>3, <1>4 DEF Next

\* Routes and target paths combine (handlePathCombinations, joinURLPath): what
\* is asked for below a route without wildcards is asked for at the same place
\* below its target.
THEOREM RoutesCombine ==
  ASSUME PlainNames, RedirectsElsewhere
  PROVE  Spec => []RouteStripped
<1>1. Init => RouteStripped
  BY DEF Init, RouteStripped, Served
<1>2. VisitInv /\ RouteStripped /\ [Next]_vars => RouteStripped'
  BY StrippedStep DEF VisitInv
<1> QED
  BY <1>1, <1>2, VisitInvariant, PTL DEF Spec

-----------------------------------------------------------------------------
(***************************************************************************)
(* Requests for files.                                                     *)
(***************************************************************************)

\* A file is sent from the place the request asks for.
LEMMA FileServe ==
  ASSUME PlainNames, TypeInv, Serve
  PROVE  FileInPlace'
<1>1. CASE ServeForbidden
  <2>1. route' = NoRoute
    BY <1>1 DEF ServeForbidden, Answer
  <2> QED
    BY <2>1 DEF FileInPlace, Served
<1>2. ASSUME NEW r \in Answering,
             ServeProxy(r) \/ ServeRedirect(r) \/ ServePHP(r) \/ ServeWasm(r)
               \/ SftpNoClient(r) \/ SftpError(r) \/ SftpOpenDir(r) \/ SftpOpenFile(r)
      PROVE  FileInPlace'
  <2>1. route' = r /\ r.kind # "file"
    BY <1>2 DEF ServeProxy, ServeRedirect, ServePHP, ServeWasm, SftpNoClient, SftpError,
         SftpOpenDir, SftpOpenFile, SftpConnect, Answer
  <2> QED
    BY <2>1 DEF FileInPlace
<1>3. ASSUME NEW r \in Answering, ServeFile(r)
      PROVE  FileInPlace'
  <2> DEFINE tp == FileRoot(r)
             asked == Clean(Stripped(r))
             found == IF SendsFile(r) THEN Stat(tp) ELSE Open(tp, asked)
  <2>1. r \in Routes /\ Match(r.name, FullPath)
    BY DEF Answering, Matching
  <2>2. tp \in Str /\ IsPath(tp) /\ Clean(tp) = tp
    BY <2>1, FileRootType
  <2>3. request' = request /\ route' = r /\ reached' \in {At(r, found), Failed}
    BY <1>3 DEF ServeFile, Answer
  <2>4. FullPath' = FullPath
    BY <2>3 DEF FullPath, AtServer
  <2> HIDE DEF found
  <2>5. reached' # Failed => reached'.path = found
    BY <2>3 DEF At
  <2>6. ASSUME AsksBelow', ~IsLink(Lstat(Below(tp, Clean(PlaceBelow'))))
        PROVE  Open(tp, asked) = Lstat(Below(tp, Clean(PlaceBelow')))
    <3> DEFINE full == FullPath
               rest == TrimPrefix(full, r.name)
               place == IF IsPrefix(Slash, rest) THEN rest ELSE Cat(Slash, rest)
               inTarget == (IF IsSuffix(Slash, tp) THEN Front(tp) ELSE tp) \o Clean(place)
    <3>1. ~IsWildcard(r.name) /\ IsPrefix(r.name, full)
      BY <2>1 DEF PlainNames, Match
    <3>2. full = Cat(AtServer.host, AtServer.path)
      BY DEF FullPath, Cat
    <3>3. BelowRoute' = rest
      BY <2>3, <2>4, <3>1 DEF BelowRoute
    <3>4. PlaceBelow' = place
      BY <3>3 DEF PlaceBelow, Cat
    <3>5. rest = <<>> \/ IsPrefix(Slash, rest) \/ IsSuffix(Slash, r.name)
      BY <2>3, <2>6, <3>3 DEF AsksBelow
    <3>6. IsLocation(AtServer) /\ AtServer.path \in Str
      BY AtOfType DEF TypeInv, AtServer, AtOf, IsLocation, IsPath
    <3> HIDE DEF full, rest
    <3>7. Strip(AtServer.path, PathOf(r)) = place
      BY <2>1, <3>1, <3>2, <3>5, <3>6, StrippedPlace DEF rest
    <3> HIDE DEF place
    <3>8. Stripped(r) = place /\ place \in Str
      BY <2>1, <3>6, <3>7, RouteSplit, StripPath DEF Stripped
    <3>9. Below(tp, Clean(PlaceBelow')) = inTarget
      BY <3>4 DEF Below
    <3> HIDE DEF inTarget
    <3>10. ~IsLink(Lstat(inTarget))
      BY <2>6, <3>9
    <3>11. Open(tp, Clean(place)) = Lstat(inTarget)
      BY <2>2, <3>8, <3>10, OpenPlace DEF inTarget
    <3> QED
      BY <3>8, <3>9, <3>11
  <2> QED
    BY <2>3, <2>5, <2>6 DEF FileInPlace, Served, found
<1> QED
  BY <1>1, <1>2, <1>3 DEF Serve

\* Every step keeps the file sent in its place.
LEMMA FileStep ==
  ASSUME PlainNames, TypeInv, FileInPlace, [Next]_vars
  PROVE  FileInPlace'
<1>1. ASSUME NEW url, NEW meaning, Ask(url, meaning)
      PROVE  FileInPlace'
  BY <1>1 DEF Ask, FileInPlace, Served
<1>2. CASE TypeURL \/ FollowLink \/ FollowRedirect
  BY <1>1, <1>2 DEF TypeURL, FollowLink, FollowRedirect
<1>3. CASE ReadPage \/ ReadPieces \/ UNCHANGED vars
  <2>1. /\ step' = step /\ request' = request /\ route' = route
        /\ reached' = reached
    BY <1>3 DEF ReadPage, ReadPieces, vars, clientVars, targetVars
  <2>2. AtServer' = AtServer
    BY <2>1 DEF AtServer
  <2>3. FullPath' = FullPath
    BY <2>2 DEF FullPath
  <2>4. BelowRoute' = BelowRoute
    BY <2>1, <2>3 DEF BelowRoute
  <2>5. PlaceBelow' = PlaceBelow /\ AsksBelow' = AsksBelow
    BY <2>1, <2>4 DEF PlaceBelow, AsksBelow
  <2> QED
    BY <2>1, <2>5 DEF FileInPlace, Served
<1>4. CASE Serve
  BY <1>4, FileServe
<1> QED
  BY <1>2, <1>3, <1>4 DEF Next

\* What a file target without wildcards in its name sends is the file at the
\* place below its root that the request asks for below the route, or nothing
\* when there is none (newFileServer, Directory.Open): ".." in the request
\* stays below the root, and Directory.resolve loses no part of the name.
THEOREM FilesInPlace ==
  ASSUME PlainNames
  PROVE  Spec => []FileInPlace
<1>1. Init => FileInPlace
  BY DEF Init, FileInPlace, Served
<1>2. VisitInv /\ FileInPlace /\ [Next]_vars => FileInPlace'
  BY FileStep DEF VisitInv
<1> QED
  BY <1>1, <1>2, VisitInvariant, PTL DEF Spec

-----------------------------------------------------------------------------
(***************************************************************************)
(* Links.  A location of a page is rewritten by the handler's writer and,  *)
(* behind the debug listener, by that one's; the request for it is undone  *)
(* by Server.Debug and by handlePathCombinations.                          *)
(***************************************************************************)

\* Every route names a host, which the debug listener puts into its paths.
NamedHosts == \A r \in Routes : HostOf(r) # <<>>

\* A path without an empty part, except at its ends.
NoDoubleSlash(s) == \A i \in 1..Len(s) - 1 : s[i] # "/" \/ s[i + 1] # "/"

\* The targets write no double slash: joining loses one of them.
SingleSlashes == \A loc \in ProxyLinks : NoDoubleSlash(loc.path)

\* Neither of two routes is below the other, and none has several targets.
Apart == \A r, o \in Routes : IsPrefix(r.name, o.name) => r = o

\* What is asked of the target when route r answers a request at loc.
Reaches(r, loc, what) ==
  LET path == Strip(loc.path, PathOf(r)) IN
  \/ /\ r.kind = "proxy"
     /\ what = At(r, SingleJoiningSlash(r.target.path, path))
  \/ /\ r.kind = "php"
     /\ what = At(r, IF EndpointIsDir(r) THEN path ELSE FileRoot(r))
  \/ /\ r.kind = "file"
     /\ what = At(r, IF SendsFile(r) THEN Stat(FileRoot(r))
                     ELSE Open(FileRoot(r), Clean(path)))
  \/ /\ r.kind = "sftp"
     /\ what = At(r, Stat(PathJoin(SftpDir(r), Clean(path))))
  \/ /\ r.kind = "go-wasm"
     /\ loc.path = Cat(WasmBase(r), Slash) /\ loc.path # WasmBase(r)
     /\ what = At(r, WasmPage)

\* A request for url is one of the route that was meant, which reaches what
\* was meant.
Arrives(url, what) ==
  \E r \in Routes : /\ IsPrefix(r.name, Cat(AtOf(url).host, AtOf(url).path))
                    /\ Reaches(r, AtOf(url), what)

\* Another route below the one that was meant answered, or another target of
\* the same name.
Nested ==
  /\ route \in Routes
  /\ \E r \in Routes \ {route} :
       r.name = meant.route /\ IsPrefix(r.name, route.name)

\* An entry of a listing is followed only in a file system without links.
Covered(what) == Listed(what) => NoSymlinks

\* A link leads where it meant, or to another route below that one.
LinksKept == Arrived /\ Covered(meant) => reached = meant \/ Nested

\* The inductive invariant behind LinksLead: the request that is on its way,
\* and the one that following the link of the token would make, is for the
\* route that was meant and makes it ask its target for what was meant.
LeadInv ==
  /\ step \in {"reads", "moved"} =>
       /\ route \in Routes
       /\ IsPrefix(route.name, Cat(AtOf(request).host, AtOf(request).path))
  /\ step = "moved" => route.kind = "go-wasm"
  /\ step = "asked" => token.type = "none"
  /\ step = "reads" /\ route.kind \in {"file", "sftp"}
       => Reaches(route, AtOf(request), reached)
  /\ step = "asked" /\ meant # Anything /\ Covered(meant)
       => Arrives(request, meant)
  /\ step = "reads" /\ token.type \in {"start", "self"} /\ token.link # NoLink
       /\ leads # Anything /\ Covered(leads)
       => /\ token.link.host = NoHost
          /\ Arrives([request EXCEPT !.path = token.link.path], leads)
  /\ LinksKept

-----------------------------------------------------------------------------
\* Where two strings meet.
LEMMA Seam ==
  ASSUME NEW s \in Str, NEW t \in Str, t # <<>>
  PROVE  /\ Len(s) \in Nat /\ Len(t) \in Nat /\ Len(t) # 0
         /\ Len(Cat(s, t)) = Len(s) + Len(t)
         /\ Cat(s, t)[Len(s) + 1] = t[1]
         /\ Cat(s, t)[Len(s) + Len(t)] = t[Len(t)]
         /\ s # <<>> => Len(s) # 0 /\ Cat(s, t)[Len(s)] = s[Len(s)]
         /\ s # <<>> => Cat(s, t)[1] = s[1]
         /\ Cat(s, t) \in Str /\ Cat(s, t) # <<>>
<1>1. Len(s) \in Nat /\ Len(t) \in Nat
  BY LenProperties DEF Str
<1>2. Len(t) # 0 /\ (s # <<>> => Len(s) # 0)
  BY EmptySeq DEF Str
<1> DEFINE c == Cat(s, t)
<1>3. /\ Len(c) = Len(s) + Len(t)
      /\ \A i \in 1..Len(s) : c[i] = s[i]
      /\ \A i \in 1..Len(t) : c[Len(s) + i] = t[i]
  BY CatElements DEF Str
<1>4. c \in Str
  BY CatLaws DEF Str
<1> HIDE DEF c
<1>5. /\ 1 \in 1..Len(t) /\ Len(t) \in 1..Len(t)
      /\ (s # <<>> => Len(s) \in 1..Len(s) /\ 1 \in 1..Len(s))
  BY <1>1, <1>2
<1>6. Len(c) # 0
  BY <1>1, <1>2, <1>3
<1>7. c # <<>>
  BY <1>6, EmptySeq
<1> QED
  BY <1>1, <1>2, <1>3, <1>4, <1>5, <1>7 DEF c

\* A string and its prefix.
LEMMA RestOf ==
  ASSUME NEW s \in Str, NEW t \in Str, IsPrefix(s, t)
  PROVE  \E rest \in Str : t = Cat(s, rest)
BY PrefixRest, ZenonT(40) DEF Str

\* A prefix ends before a longer one.
LEMMA PrefixLonger ==
  ASSUME NEW a \in Str, NEW c \in Str, NEW w \in Str,
         IsPrefix(a, w), IsPrefix(c, w), Len(a) <= Len(c)
  PROVE  IsPrefix(a, c)
<1>1. PICK b \in Str : w = Cat(a, b)
  BY PrefixRest, ZenonT(40) DEF Str
<1>2. PICK d \in Str : w = Cat(c, d)
  BY PrefixRest, ZenonT(40) DEF Str
<1>3. Cat(a, b) = Cat(c, d)
  BY <1>1, <1>2
<1>4. PICK x \in Str : c = Cat(a, x)
  BY <1>3, PrefixLevi DEF Str
<1> QED
  BY <1>4, PrefixCat DEF Str

\* A name without slash that begins host and path begins the host.
LEMMA HostBegins ==
  ASSUME NEW name, IsHost(name), NEW h, IsHost(h), NEW p, IsPath(p),
         IsPrefix(name, Cat(h, p))
  PROVE  \E x \in Str : h = Cat(name, x)
<1>1. name \in Str /\ h \in Str /\ p \in Str
  BY DEF IsHost, IsPath
<1> DEFINE full == Cat(h, p)
<1>2. full \in Str
  BY <1>1, CatLaws DEF Str
<1>3. PICK rest \in Str : full = Cat(name, rest)
  BY <1>1, <1>2, PrefixRest DEF Str
<1>4. Len(name) \in Nat /\ Len(h) \in Nat
  BY <1>1, LenProperties DEF Str
<1>5. CASE Len(name) <= Len(h)
  BY <1>1, <1>3, <1>5, PrefixLevi DEF Str
<1>6. CASE Len(h) <= Len(name)
  <2>1. PICK x \in Str : name = Cat(h, x) /\ p = Cat(x, rest)
    <3>1. Cat(h, p) = Cat(name, rest)
      BY <1>3
    <3> HIDE DEF full
    <3> QED
      BY <1>1, <1>3, <1>6, <3>1, PrefixLevi DEF Str
  <2>2. CASE x = <<>>
    <3>1. name = h /\ h = Cat(name, <<>>)
      BY <1>1, <2>1, <2>2, EmptyStr
    <3> QED
      BY <3>1, EmptyStr
  <2>3. CASE x # <<>>
    <3>1. Len(x) \in Nat /\ Len(x) # 0
      BY <2>3, LenProperties, EmptySeq DEF Str
    <3>2. 1 \in 1..Len(x)
      BY <3>1
    <3>3. p # <<>> /\ p[1] = x[1]
      <4>1. Len(p) = Len(x) + Len(rest) /\ p[1] = x[1]
        BY <2>1, <3>2, CatElements DEF Str
      <4>2. Len(rest) \in Nat
        BY LenProperties DEF Str
      <4>3. Len(p) # 0
        BY <3>1, <4>1, <4>2
      <4> QED
        BY <4>1, <4>3, EmptySeq
    <3>4. x[1] = "/"
      BY <1>1, <3>3, LeadingSlash DEF IsPath
    <3>5. Len(name) = Len(h) + Len(x) /\ name[Len(h) + 1] = x[1]
      BY <1>1, <2>1, <2>3, Seam
    <3>6. Len(h) + 1 \in 1..Len(name)
      BY <1>4, <3>1, <3>5
    <3>7. Len(h) + 1 \in Slashes(name)
      BY <1>1, <3>4, <3>5, <3>6, SlashesFinite
    <3> QED
      BY <3>7 DEF IsHost
  <2> QED
    BY <2>2, <2>3
<1> QED
  BY <1>4, <1>5, <1>6

\* On the host of a request of route r, every path that continues the path of
\* the route is the route's too.
LEMMA SameHost ==
  ASSUME NEW r \in Routes, NEW loc, IsLocation(loc),
         IsPrefix(r.name, Cat(loc.host, loc.path)), NEW w \in Str
  PROVE  /\ IsPrefix(r.name, Cat(loc.host, Cat(PathOf(r), w)))
         /\ \E rest \in Str : loc.path = Cat(PathOf(r), rest)
         /\ HostOf(r) # <<>> => loc.host # <<>>
<1>1. /\ IsHost(HostOf(r)) /\ HostOf(r) \in Str /\ r.name \in Str
      /\ IsPath(PathOf(r)) /\ PathOf(r) \in Str
      /\ r.name = Cat(HostOf(r), PathOf(r))
  BY RouteSplit
<1>2. /\ IsHost(loc.host) /\ loc.host \in Str
      /\ IsPath(loc.path) /\ loc.path \in Str
  BY DEF IsLocation, IsHost, IsPath
<1> DEFINE full == Cat(loc.host, loc.path)
           hp == PathOf(r)
           name == r.name
           h == HostOf(r)
<1>3. full \in Str
  BY <1>2, CatLaws DEF Str
<1>4. PICK rest \in Str : full = Cat(name, rest)
  BY <1>1, <1>3, RestOf
<1>5. CASE hp # <<>>
  <2>1. Cat(name, rest) = Cat(h, Cat(hp, rest)) /\ Cat(name, w) = Cat(h, Cat(hp, w))
    BY <1>1, CatLaws DEF Str
  <2>2. IsPath(Cat(hp, rest))
    BY <1>1, <1>5, PathCat DEF IsPath
  <2> DEFINE q == Cat(hp, rest)
  <2>3. IsPath(q) /\ Cat(loc.host, loc.path) = Cat(h, q)
    BY <1>4, <2>1, <2>2
  <2> HIDE DEF q
  <2>4. loc.host = h /\ loc.path = q
    BY <1>1, <1>2, <2>3, SplitUnique
  <2>5. IsPrefix(name, Cat(name, w))
    BY <1>1, PrefixCat DEF Str
  <2> QED
    BY <2>1, <2>4, <2>5 DEF q
<1>6. CASE hp = <<>>
  <2>1. name = h /\ Cat(hp, w) = w /\ loc.path = Cat(hp, loc.path)
    BY <1>1, <1>2, <1>6, EmptyStr
  <2>2. PICK x \in Str : loc.host = Cat(name, x)
    BY <1>1, <1>2, <2>1, HostBegins
  <2>3. Cat(loc.host, w) = Cat(name, Cat(x, w)) /\ Cat(x, w) \in Str
    BY <1>1, <2>2, CatLaws DEF Str
  <2>4. IsPrefix(name, Cat(loc.host, w))
    BY <1>1, <2>3, PrefixCat DEF Str
  <2>5. h # <<>> => loc.host # <<>>
    <3>1. Len(loc.host) = Len(name) + Len(x)
      BY <1>1, <2>2, CatElements DEF Str
    <3>2. Len(name) \in Nat /\ Len(x) \in Nat /\ (name # <<>> => Len(name) # 0)
      BY <1>1, LenProperties, EmptySeq DEF Str
    <3>3. name # <<>> => Len(loc.host) # 0
      BY <3>1, <3>2
    <3> QED
      BY <2>1, <3>3, EmptySeq
  <2> QED
    BY <1>2, <2>1, <2>4, <2>5
<1> QED
  BY <1>5, <1>6

\* handlePathCombinations takes off what the rewriting put in front.
LEMMA StripBack ==
  ASSUME NEW hp \in Str, NEW z \in Str, ~IsPrefix(Slash, z)
  PROVE  Strip(Cat(WithSlash(hp), z), hp) = Cat(Slash, z)
<1>1. CASE IsSuffix(Slash, hp)
  <2>1. WithSlash(hp) = hp
    BY <1>1, WithSlashCases
  <2> QED
    BY <2>1, StripRest
<1>2. CASE ~IsSuffix(Slash, hp)
  <2>1. WithSlash(hp) = Cat(hp, Slash)
    BY <1>2, WithSlashCases
  <2>2. Cat(Cat(hp, Slash), z) = Cat(hp, Cat(Slash, z))
    BY SlashStr, CatLaws DEF Str
  <2> DEFINE y == Cat(Slash, z)
  <2>3. y \in Str /\ IsPrefix(Slash, y)
    BY SlashCat
  <2> HIDE DEF y
  <2>4. Strip(Cat(hp, y), hp) = y
    BY <2>3, StripRest
  <2> QED
    BY <2>1, <2>2, <2>4 DEF y
<1> QED
  BY <1>1, <1>2

\* A path with a slash at its end is followed by another part.
LEMMA NextPart ==
  ASSUME NEW a \in Str, NEW z \in Str, NoDoubleSlash(Cat(WithSlash(a), z))
  PROVE  ~IsPrefix(Slash, z)
<1> DEFINE b == WithSlash(a)
           s == Cat(b, z)
<1>1. b \in Str /\ b # <<>> /\ b[Len(b)] = "/"
  <2>1. CASE IsSuffix(Slash, a)
    BY <2>1, WithSlashCases, EndingSlash
  <2>2. CASE ~IsSuffix(Slash, a)
    <3>1. b = Cat(a, Slash)
      BY <2>2, WithSlashCases
    <3> HIDE DEF b
    <3>2. Slash \in Str /\ Slash # <<>> /\ Len(Slash) = 1 /\ Slash[1] = "/"
      BY SlashStr
    <3>3. /\ Len(b) = Len(a) + Len(Slash) /\ b[Len(a) + 1] = Slash[1]
          /\ b \in Str /\ b # <<>>
      BY <3>1, <3>2, Seam
    <3> QED
      BY <3>2, <3>3
  <2> QED
    BY <2>1, <2>2
<1> HIDE DEF b
<1>2. SUFFICES ASSUME z # <<>>, z[1] = "/"
               PROVE  FALSE
  BY LeadingSlash
<1>3. /\ Len(z) \in Nat /\ Len(z) # 0 /\ Len(b) \in Nat /\ Len(b) # 0
      /\ Len(s) = Len(b) + Len(z) /\ s[Len(b)] = b[Len(b)]
      /\ s[Len(b) + 1] = z[1]
  BY <1>1, <1>2, Seam
<1>6. NoDoubleSlash(s)
  BY DEF b
<1> HIDE DEF s
<1>7. Len(b) \in 1..Len(s) - 1
  BY <1>3
<1> QED
  BY <1>1, <1>2, <1>3, <1>6, <1>7 DEF NoDoubleSlash

\* Server.Debug undoes what the debug listener's writer did to a path.
LEMMA Relocate ==
  ASSUME request \in URLs, AtServer.host # <<>>, NEW p \in Str, IsPrefix(Slash, p)
  PROVE  /\ ByListener(Location(NoHost, p)).host = NoHost
         /\ AtOf([request EXCEPT !.path = ByListener(Location(NoHost, p)).path])
              = Location(AtServer.host, p)
<1>1. /\ request \in [via : {"direct", "debug"}, host : Str, path : Str]
      /\ request.via \in {"direct", "debug"}
  BY DEF URLs
<1>2. \A q : /\ [request EXCEPT !.path = q].via = request.via
             /\ [request EXCEPT !.path = q].host = request.host
             /\ [request EXCEPT !.path = q].path = q
  BY <1>1
<1>3. CASE request.via # "debug"
  <2>1. ByListener(Location(NoHost, p)) = Location(NoHost, p)
    BY <1>3 DEF ByListener
  <2>2. AtServer.host = request.host
    BY <1>3 DEF AtServer, Location
  <2> QED
    BY <1>2, <1>3, <2>1, <2>2 DEF AtOf, Location
<1>4. CASE request.via = "debug"
  <2> DEFINE h == AtServer.host
             sh == Cat(Slash, h)
             z == Tail(p)
             loc == Location(NoHost, p)
  <2>1. IsHost(h) /\ h \in Str /\ h # <<>>
    BY AtOfType DEF AtServer, AtOf, IsLocation, IsHost
  <2>2. z \in Str /\ p = Cat(Slash, z) /\ IsPath(p)
    BY LeadingSlash DEF IsPath
  <2>3. sh \in Str /\ ~IsSuffix(Slash, sh)
    <3> HIDE DEF h
    <3>1. ~IsSuffix(Slash, h)
      BY <2>1, HostEnd
    <3>2. h[Len(h)] # "/"
      BY <2>1, <3>1, EndingSlash
    <3>3. Slash \in Str /\ Slash # <<>>
      BY SlashStr
    <3>4. /\ Len(sh) = Len(Slash) + Len(h) /\ sh \in Str /\ sh # <<>>
          /\ sh[Len(Slash) + Len(h)] = h[Len(h)]
      BY <2>1, <3>3, Seam
    <3> HIDE DEF sh
    <3>5. sh[Len(sh)] # "/"
      BY <3>2, <3>4
    <3> QED
      BY <3>4, <3>5, EndingSlash
  <2>4. ByListener(loc) = UpdateLocation(loc, NoHost, sh, <<>>)
    BY <1>4 DEF ByListener, Cat
  <2>5. UpdateLocation(loc, NoHost, sh, <<>>)
          = Location(NoHost, SingleJoiningSlash(sh, p))
    <3>1. TrimPrefix(p, <<>>) = p
      BY EmptyStr
    <3>2. RequestURI(loc) = p
      BY DEF RequestURI, Location
    <3> HIDE DEF sh
    <3> QED
      BY <3>1, <3>2 DEF UpdateLocation, Location
  <2>6. SingleJoiningSlash(sh, p) = Cat(Slash, Cat(h, p))
    <3>1. WithSlash(sh) = Cat(sh, Slash)
      BY <2>3, WithSlashCases
    <3>2. SingleJoiningSlash(sh, p) = Cat(WithSlash(sh), z)
      <4> HIDE DEF sh, z
      <4> QED
        BY <2>2, <2>3, JoinSlash
    <3>3. Cat(Cat(sh, Slash), z) = Cat(sh, Cat(Slash, z))
      <4> HIDE DEF sh, z
      <4> QED
        BY <2>2, <2>3, SlashStr, CatLaws DEF Str
    <3>4. Cat(sh, p) = Cat(Slash, Cat(h, p))
      <4> HIDE DEF h
      <4> QED
        BY <2>1, SlashStr, CatLaws DEF Str
    <3> HIDE DEF sh, z, h
    <3> QED
      BY <2>2, <3>1, <3>2, <3>3, <3>4
  <2> DEFINE q == Cat(Slash, Cat(h, p))
  <2>7. ByListener(loc) = Location(NoHost, q)
    <3> HIDE DEF q, loc
    <3> QED
      BY <2>4, <2>5, <2>6 DEF q
  <2>8. DebugRequest(q) = Location(h, p)
    BY <2>1, <2>2, DebugSplit
  <2> HIDE DEF h, q
  <2> QED
    BY <1>2, <1>4, <2>7, <2>8 DEF AtOf, Location, h
<1> QED
  BY <1>3, <1>4

\* A location with one slash where others have two.
LEMMA LinkURI ==
  ASSUME SingleSlashes, NEW loc \in ProxyLinks
  PROVE  /\ RequestURI(loc) \in Str /\ IsPrefix(Slash, RequestURI(loc))
         /\ NoDoubleSlash(RequestURI(loc))
<1>1. IsPath(loc.path) /\ (loc.host # NoHost \/ loc.path # <<>>)
  BY VisitAssumption
<1>2. CASE RequestURI(loc) = Slash
  <2>1. Slash \in Str /\ IsPrefix(Slash, Slash)
    BY SlashStr, LeadingSlash
  <2>2. NoDoubleSlash(Slash)
    <3>1. Len(Slash) = 1
      BY SlashStr
    <3>2. 1..Len(Slash) - 1 = {}
      BY <3>1
    <3> QED
      BY <3>2 DEF NoDoubleSlash
  <2> QED
    BY <1>2, <2>1, <2>2
<1>3. CASE RequestURI(loc) = loc.path /\ loc.path # <<>>
  BY <1>1, <1>3 DEF IsPath, SingleSlashes
<1> QED
  BY <1>1, <1>2, <1>3 DEF RequestURI

\* What a location of a page means, if it is one of the route's target.
Means(r, loc) ==
  /\ loc.host \in {NoHost, HostOf(r)}
  /\ \/ r.kind = "proxy" /\ IsPrefix(WithSlash(r.target.path), RequestURI(loc))
     \/ /\ r.kind = "php" /\ EndpointIsDir(r)
        /\ ~IsPrefix(TargetPath(r), RequestURI(loc))

\* The handler's writer puts the path of the route in front of such a location,
\* and the handler, asked for that, asks the target for the location.
LEMMA HandlerBack ==
  ASSUME SingleSlashes, NEW r \in Routes, NEW loc \in ProxyLinks, Means(r, loc)
  PROVE  \E w \in Str :
           LET p == Cat(PathOf(r), w) IN
           /\ p \in Str /\ IsPrefix(Slash, p)
           /\ UpdateLocation(loc, HostOf(r), PathOf(r), TargetPath(r))
                = Location(NoHost, p)
           /\ \A host : Reaches(r, Location(host, p), At(r, RequestURI(loc)))
<1> DEFINE uri == RequestURI(loc)
           hp == PathOf(r)
           tp == r.target.path
           trimmed == TrimPrefix(uri, TargetPath(r))
<1>1. uri \in Str /\ IsPrefix(Slash, uri) /\ NoDoubleSlash(uri)
  BY LinkURI
<1>2. IsPath(hp) /\ hp \in Str /\ tp \in Str
  BY RouteSplit
<1>3. UpdateLocation(loc, HostOf(r), hp, TargetPath(r))
        = Location(NoHost, SingleJoiningSlash(hp, trimmed))
  BY <1>1 DEF UpdateLocation, Means
<1>4. PICK z \in Str : /\ ~IsPrefix(Slash, z)
                       /\ SingleJoiningSlash(hp, trimmed) = Cat(WithSlash(hp), z)
                       /\ r.kind = "proxy" => uri = Cat(WithSlash(tp), z)
                       /\ r.kind = "php" => uri = Cat(Slash, z)
  <2>1. CASE r.kind = "proxy"
    <3>1. TargetPath(r) = tp
      BY <2>1 DEF TargetPath
    <3>2. WithSlash(tp) \in Str
      BY <1>2, WithSlashCases
    <3>3. IsPrefix(WithSlash(tp), uri)
      BY <2>1 DEF Means
    <3> HIDE DEF uri, tp, hp
    <3>4. PICK z \in Str : uri = Cat(WithSlash(tp), z)
      BY <1>1, <3>2, <3>3, RestOf
    <3>5. ~IsPrefix(Slash, z)
      BY <1>1, <1>2, <3>4, NextPart
    <3>6. trimmed = z \/ trimmed = Cat(Slash, z)
      <4>1. CASE IsSuffix(Slash, tp)
        <5>1. uri = Cat(tp, z)
          BY <1>2, <3>4, <4>1, WithSlashCases
        <5> QED
          BY <1>2, <3>1, <5>1, TrimCat
      <4>2. CASE ~IsSuffix(Slash, tp)
        <5>1. uri = Cat(Cat(tp, Slash), z)
          BY <1>2, <3>4, <4>2, WithSlashCases
        <5>2. Cat(Cat(tp, Slash), z) = Cat(tp, Cat(Slash, z))
          BY <1>2, SlashStr, CatLaws DEF Str
        <5> DEFINE y == Cat(Slash, z)
        <5>3. y \in Str
          BY SlashCat
        <5>4. uri = Cat(tp, y)
          BY <5>1, <5>2
        <5> HIDE DEF y
        <5>5. trimmed = y
          BY <1>2, <3>1, <5>3, <5>4, TrimCat
        <5> QED
          BY <5>5 DEF y
      <4> QED
        BY <4>1, <4>2
    <3>7. SingleJoiningSlash(hp, trimmed) = Cat(WithSlash(hp), z)
      <4> HIDE DEF trimmed
      <4> QED
        BY <1>2, <3>5, <3>6, JoinSlash, JoinBare
    <3> QED
      BY <2>1, <3>4, <3>5, <3>7
  <2>2. CASE r.kind = "php"
    <3>1. trimmed = uri
      BY <2>2 DEF Means, TrimPrefix
    <3>2. Tail(uri) \in Str /\ uri = Cat(Slash, Tail(uri))
      BY <1>1, LeadingSlash
    <3> DEFINE z == Tail(uri)
    <3>3. ~IsPrefix(Slash, z)
      <4>1. WithSlash(Slash) = Slash
        <5>1. IsSuffix(Slash, Slash)
          BY SlashStr, EndingSlash
        <5> QED
          BY <5>1 DEF WithSlash
      <4> HIDE DEF z, uri
      <4> QED
        BY <1>1, <3>2, <4>1, SlashStr, NextPart DEF z
    <3> HIDE DEF z, uri, trimmed, hp
    <3>4. SingleJoiningSlash(hp, trimmed) = Cat(WithSlash(hp), z)
      BY <1>2, <3>1, <3>2, JoinSlash DEF z
    <3> QED
      BY <2>2, <3>2, <3>3, <3>4 DEF z
  <2> QED
    BY <2>1, <2>2 DEF Means
<1> DEFINE w == IF IsSuffix(Slash, hp) THEN z ELSE Cat(Slash, z)
           p == Cat(WithSlash(hp), z)
<1> HIDE DEF uri, hp, tp, trimmed
<1>5. w \in Str /\ p = Cat(hp, w)
  <2>1. CASE IsSuffix(Slash, hp)
    BY <1>2, <2>1, WithSlashCases
  <2>2. CASE ~IsSuffix(Slash, hp)
    <3>1. WithSlash(hp) = Cat(hp, Slash)
      BY <1>2, <2>2, WithSlashCases
    <3>2. Cat(Cat(hp, Slash), z) = Cat(hp, Cat(Slash, z)) /\ Cat(Slash, z) \in Str
      BY <1>2, SlashStr, CatLaws DEF Str
    <3> QED
      BY <2>2, <3>1, <3>2
  <2> QED
    BY <2>1, <2>2
<1>6. p \in Str /\ IsPrefix(Slash, p)
  BY <1>2, WithSlashPath, PathCat
<1>7. Strip(p, hp) = Cat(Slash, z)
  BY <1>2, <1>4, StripBack
<1>8. SingleJoiningSlash(tp, Cat(Slash, z)) = Cat(WithSlash(tp), z)
  BY <1>2, JoinSlash
<1> HIDE DEF p
<1>9. \A host : Reaches(r, Location(host, p), At(r, uri))
  <2> TAKE host
  <2> DEFINE at == Location(host, p)
  <2>1. at.path = p
    BY DEF Location
  <2> HIDE DEF at
  <2>2. ASSUME r.kind = "proxy"
        PROVE  Reaches(r, at, At(r, uri))
    <3>1. uri = SingleJoiningSlash(r.target.path, Strip(at.path, PathOf(r)))
      BY <1>4, <1>7, <1>8, <2>1, <2>2 DEF hp, tp
    <3> QED
      BY <2>2, <3>1 DEF Reaches
  <2>3. ASSUME r.kind = "php", EndpointIsDir(r)
        PROVE  Reaches(r, at, At(r, uri))
    <3>1. uri = Strip(at.path, PathOf(r))
      BY <1>4, <1>7, <2>1, <2>3 DEF hp
    <3> QED
      BY <2>3, <3>1 DEF Reaches
  <2>4. Reaches(r, at, At(r, uri))
    BY <2>2, <2>3 DEF Means
  <2> QED
    BY <2>4 DEF at
<1>10. UpdateLocation(loc, HostOf(r), hp, TargetPath(r)) = Location(NoHost, p)
  BY <1>3, <1>4 DEF p
<1> HIDE DEF w
<1> QED
  BY <1>5, <1>6, <1>9, <1>10 DEF hp, uri

\* A request for a path that continues the route's, on the same listener and
\* host, is answered as the route does.
LEMMA ArrivesBack ==
  ASSUME NamedHosts, TypeInv, route \in Routes, NEW what,
         IsPrefix(route.name, Cat(AtOf(request).host, AtOf(request).path)),
         NEW w \in Str, NEW p \in Str, p = Cat(PathOf(route), w), IsPrefix(Slash, p),
         \A host : Reaches(route, Location(host, p), what)
  PROVE  /\ ByListener(Location(NoHost, p)).host = NoHost
         /\ Arrives([request EXCEPT !.path = ByListener(Location(NoHost, p)).path],
                    what)
<1>1. request \in URLs /\ AtServer = AtOf(request) /\ IsLocation(AtOf(request))
  BY AtOfType DEF TypeInv, AtServer, AtOf
<1>2. HostOf(route) # <<>>
  BY DEF NamedHosts
<1>3. AtServer.host # <<>> /\ IsPrefix(route.name, Cat(AtServer.host, p))
  BY <1>1, <1>2, SameHost
<1> DEFINE url == [request EXCEPT !.path = ByListener(Location(NoHost, p)).path]
<1>4. /\ ByListener(Location(NoHost, p)).host = NoHost
      /\ AtOf(url) = Location(AtServer.host, p)
  BY <1>1, <1>3, Relocate
<1> HIDE DEF url
<1>5. AtOf(url).host = AtServer.host /\ AtOf(url).path = p
  BY <1>4 DEF Location
<1>6. Reaches(route, AtOf(url), what)
  BY <1>4
<1>7. Arrives(url, what)
  BY <1>3, <1>5, <1>6 DEF Arrives
<1> QED
  BY <1>4, <1>7 DEF url

\* A request that is about to be sent.
LEMMA LeadAsk ==
  ASSUME NEW url, NEW meaning, Ask(url, meaning),
         meaning # Anything /\ Covered(meaning) => Arrives(url, meaning)
  PROVE  LeadInv'
<1>1. step' = "asked" /\ request' = url /\ meant' = meaning /\ token' = NoToken
  BY DEF Ask
<1>2. token'.type = "none"
  BY <1>1 DEF NoToken
<1>3. Covered(meant)' = Covered(meaning)
  BY <1>1 DEF Covered, Listed
<1>4. LinksKept'
  BY <1>1 DEF LinksKept, Arrived
<1>5. Arrives(request, meant)' = Arrives(url, meaning)
  BY <1>1 DEF Arrives
<1> QED
  BY <1>1, <1>2, <1>3, <1>4, <1>5 DEF LeadInv

\* The redirection of newGoWasmHandler leads to its page.
LEMMA LeadRedirect ==
  ASSUME NamedHosts, TypeInv, LeadInv, FollowRedirect
  PROVE  LeadInv'
<1> DEFINE w == Cat(WasmBase(route), Slash)
           loc == ByListener(Location(NoHost, w))
           url == [request EXCEPT !.path = loc.path]
           what == At(route, WasmPage)
<1>1. step = "moved" /\ Ask(url, what)
  BY DEF FollowRedirect, Cat
<1>2. /\ route \in Routes /\ route.kind = "go-wasm"
      /\ IsPrefix(route.name, Cat(AtOf(request).host, AtOf(request).path))
      /\ request \in URLs /\ AtServer = AtOf(request)
      /\ AtServer.path = WasmBase(route)
  BY <1>1 DEF LeadInv, TypeInv, AtServer, AtOf
<1> DEFINE q == WasmBase(route)
<1>3. IsLocation(AtOf(request)) /\ IsPath(q) /\ q \in Str
  BY <1>2, AtOfType DEF IsLocation, IsPath
<1> HIDE DEF q
<1>4. PICK rest \in Str : q = Cat(PathOf(route), rest)
  BY <1>2, <1>3, EmptyStr, SameHost DEF q
<1> DEFINE v == Cat(rest, Slash)
<1>5. w \in Str /\ v \in Str /\ w = Cat(PathOf(route), v)
  <2>1. PathOf(route) \in Str
    BY <1>2, RouteSplit
  <2>2. Cat(Cat(PathOf(route), rest), Slash) = Cat(PathOf(route), v) /\ v \in Str
    BY <2>1, SlashStr, CatLaws DEF Str
  <2>3. Cat(q, Slash) \in Str
    BY <1>3, SlashStr, CatLaws DEF Str
  <2> QED
    BY <1>4, <2>2, <2>3 DEF q
<1>6. IsPrefix(Slash, w) /\ w # q
  <2>1. Cat(q, Slash) # q
    <3>1. Slash \in Str /\ Slash # <<>>
      BY SlashStr
    <3>2. Len(Cat(q, Slash)) # Len(q)
      <4>1. /\ Len(q) \in Nat /\ Len(Slash) \in Nat /\ Len(Slash) # 0
            /\ Len(Cat(q, Slash)) = Len(q) + Len(Slash)
        BY <1>3, <3>1, Seam
      <4> QED
        BY <4>1
    <3> QED
      BY <3>2
  <2>2. IsPrefix(Slash, Cat(q, Slash))
    <3>1. CASE q = <<>>
      BY <3>1, EmptyStr, SlashStr, LeadingSlash
    <3>2. CASE IsPrefix(Slash, q)
      BY <1>3, <3>2, PathCat, SlashStr
    <3> QED
      BY <1>3, <3>1, <3>2 DEF IsPath
  <2> QED
    BY <2>1, <2>2 DEF q
<1>7. \A host : Reaches(route, Location(host, w), what)
  BY <1>2, <1>6 DEF Reaches, Location, q
<1> HIDE DEF w, v, what
<1>8. Arrives(url, what)
  BY <1>2, <1>5, <1>6, <1>7, ArrivesBack
<1> HIDE DEF url
<1> QED
  BY <1>1, <1>8, LeadAsk

\* A link the client follows.
LEMMA LeadFollow ==
  ASSUME LeadInv, FollowLink
  PROVE  LeadInv'
<1>1. /\ step = "reads" /\ token.type \in {"start", "self"} /\ token.link # NoLink
      /\ Ask(IF token.link.host = NoHost
             THEN [request EXCEPT !.path = token.link.path]
             ELSE [via |-> "direct", host |-> token.link.host,
                   path |-> token.link.path], leads)
  BY DEF FollowLink
<1>2. leads # Anything /\ Covered(leads)
        => /\ token.link.host = NoHost
           /\ Arrives([request EXCEPT !.path = token.link.path], leads)
  BY <1>1 DEF LeadInv
<1> QED
  BY <1>1, <1>2, LeadAsk

\* What a location on a page of a proxy or of PHP means.
LEMMA MeaningCases ==
  ASSUME TypeInv, route \in Routes, NEW loc \in PageLinks,
         Meaning(loc) # Anything, route.kind \in {"proxy", "php"}
  PROVE  /\ loc \in ProxyLinks
         /\ Means(route, loc)
         /\ Meaning(loc) = At(route, RequestURI(loc))
<1>1. CASE route.kind = "proxy"
  <2>1. loc \in ProxyLinks
    BY <1>1 DEF PageLinks, IsDirectory
  <2>2. Meaning(loc) = IF loc.host \in {NoHost, HostOf(route)}
              /\ IsPrefix(WithSlash(route.target.path), RequestURI(loc))
         THEN At(route, RequestURI(loc)) ELSE Anything
    BY <1>1 DEF Meaning
  <2> QED
    BY <1>1, <2>1, <2>2 DEF Means
<1>2. CASE route.kind = "php"
  <2>1. loc \in ProxyLinks
    BY <1>2 DEF PageLinks, IsDirectory
  <2>2. Meaning(loc) = IF loc.host \in {NoHost, HostOf(route)}
              /\ EndpointIsDir(route)
              /\ ~IsPrefix(TargetPath(route), RequestURI(loc))
         THEN At(route, RequestURI(loc)) ELSE Anything
    BY <1>2 DEF Meaning
  <2> QED
    BY <1>2, <2>1, <2>2 DEF Means
<1> QED
  BY <1>1, <1>2

\* The handler's writer puts the path of the route in front of the location of
\* an entry, and the handler, asked for that, finds the entry.
LEMMA EntryBack ==
  ASSUME NoSymlinks, NEW r \in Routes, r.kind \in {"file", "sftp"},
         r.kind = "file" => ~SendsFile(r),
         NEW ks \in Seq(Name), NEW q, q = FromParts(ks)
  PROVE  \E w \in Str :
           LET p == Cat(PathOf(r), w) IN
           /\ p \in Str /\ IsPrefix(Slash, p)
           /\ UpdateLocation(Location(NoHost, q), HostOf(r), PathOf(r), TargetPath(r))
                = Location(NoHost, p)
           /\ \A host : Reaches(r, Location(host, p),
                                At(r, Stat(PathJoin(RootOf(r), q))))
<1> DEFINE hp == PathOf(r)
           tp == FileRoot(r)
           what == At(r, Stat(PathJoin(RootOf(r), q)))
<1>1. IsPath(hp) /\ hp \in Str /\ IsPath(tp) /\ Clean(tp) = tp
  BY RouteSplit, FileRootType
<1>2. q \in Str /\ IsPrefix(Slash, q) /\ Clean(q) = q
  BY NamesAreHosts, FromPartsType, CleanFrom
<1>3. PICK z \in Str : q = Cat(Slash, z) /\ ~IsPrefix(Slash, z)
  <2>1. CASE ks = <<>>
    <3> DEFINE e == <<>>
    <3>1. e \in Str /\ ~IsPrefix(Slash, e) /\ Cat(Slash, e) = Slash
      BY EmptyStr, SlashStr
    <3>2. q = Slash
      BY <2>1 DEF FromParts
    <3> HIDE DEF e
    <3> QED
      BY <3>1, <3>2
  <2>2. CASE ks # <<>>
    <3>1. q = Flat(ks)
      BY <2>2, NamesAreHosts, FlatSteps
    <3> QED
      BY <2>2, <3>1, FlatFirst
  <2> QED
    BY <2>1, <2>2
<1>4. UpdateLocation(Location(NoHost, q), HostOf(r), hp, TargetPath(r))
        = Location(NoHost, SingleJoiningSlash(hp, q))
  <2>1. TargetPath(r) = <<>>
    BY DEF TargetPath
  <2>2. TrimPrefix(q, <<>>) = q
    BY <1>2, EmptyStr
  <2>3. RequestURI(Location(NoHost, q)) = q /\ Location(NoHost, q).host = NoHost
    BY DEF RequestURI, Location
  <2> HIDE DEF hp
  <2> QED
    BY <1>2, <2>1, <2>2, <2>3 DEF UpdateLocation
<1> DEFINE w == IF IsSuffix(Slash, hp) THEN z ELSE Cat(Slash, z)
           p == Cat(WithSlash(hp), z)
<1> HIDE DEF hp, tp
<1>5. SingleJoiningSlash(hp, q) = p
  BY <1>1, <1>3, JoinSlash
<1>6. w \in Str /\ p = Cat(hp, w)
  <2>1. CASE IsSuffix(Slash, hp)
    BY <1>1, <2>1, WithSlashCases
  <2>2. CASE ~IsSuffix(Slash, hp)
    <3>1. WithSlash(hp) = Cat(hp, Slash)
      BY <1>1, <2>2, WithSlashCases
    <3>2. Cat(Cat(hp, Slash), z) = Cat(hp, Cat(Slash, z)) /\ Cat(Slash, z) \in Str
      BY <1>1, SlashStr, CatLaws DEF Str
    <3> QED
      BY <2>2, <3>1, <3>2
  <2> QED
    BY <2>1, <2>2
<1>7. p \in Str /\ IsPrefix(Slash, p)
  BY <1>1, WithSlashPath, PathCat
<1>8. Strip(p, hp) = q
  BY <1>1, <1>3, StripBack
<1> HIDE DEF p, w
<1>9. \A host : Reaches(r, Location(host, p), what)
  <2> TAKE host
  <2> DEFINE at == Location(host, p)
  <2>1. at.path = p
    BY DEF Location
  <2> HIDE DEF at
  <2>2. ASSUME r.kind = "file"
        PROVE  Reaches(r, at, what)
    <3>1. RootOf(r) = tp
      BY <2>2 DEF RootOf, tp
    <3>2. Open(tp, q) = Stat(PathJoin(tp, q))
      BY <1>1, OpenPlain
    <3>3. what = At(r, IF SendsFile(r) THEN Stat(FileRoot(r))
                       ELSE Open(FileRoot(r), Clean(Strip(at.path, PathOf(r)))))
      BY <1>2, <1>8, <2>1, <2>2, <3>1, <3>2 DEF tp, hp
    <3> HIDE DEF what
    <3> QED
      BY <2>2, <3>3 DEF Reaches
  <2>3. ASSUME r.kind = "sftp"
        PROVE  Reaches(r, at, what)
    <3>1. RootOf(r) = SftpDir(r)
      BY <2>3 DEF RootOf
    <3>2. what = At(r, Stat(PathJoin(SftpDir(r), Clean(Strip(at.path, PathOf(r))))))
      BY <1>2, <1>8, <2>1, <3>1 DEF hp
    <3> HIDE DEF what
    <3> QED
      BY <2>3, <3>2 DEF Reaches
  <2>4. Reaches(r, at, what)
    BY <2>2, <2>3
  <2> QED
    BY <2>4 DEF at
<1>10. UpdateLocation(Location(NoHost, q), HostOf(r), hp, TargetPath(r))
         = Location(NoHost, p)
  BY <1>4, <1>5
<1> HIDE DEF what
<1> QED
  BY <1>6, <1>7, <1>9, <1>10 DEF hp, what

\* What an entry of a listing means.
LEMMA EntryMeaning ==
  ASSUME NoSymlinks, TypeInv, route \in Routes, route.kind \in {"file", "sftp"},
         Reaches(route, AtOf(request), reached), NEW loc \in PageLinks
  PROVE  /\ route.kind = "file" => ~SendsFile(route)
         /\ \E ks \in Seq(Name) :
              /\ loc = Location(NoHost, FromParts(ks))
              /\ Meaning(loc) = At(route, Stat(PathJoin(RootOf(route), FromParts(ks))))
<1> DEFINE base == RootOf(route)
           strip == Strip(AtServer.path, PathOf(route))
           uri == Clean(strip)
           dir == reached.path
           ms == Kept(strip)
<1>1. /\ IsDirectory
      /\ PageLinks = {Location(NoHost, p) : p \in Listing(dir, uri)}
  BY DEF PageLinks, Stripped
<1>2. dir \in DOMAIN Tree /\ Tree[dir].kind = "dir"
  BY <1>1 DEF IsDirectory
<1>3. AtServer = AtOf(request) /\ AtServer.path \in Str
  <2>1. AtServer = AtOf(request)
    BY DEF AtServer, AtOf
  <2>2. IsLocation(AtOf(request))
    BY AtOfType DEF TypeInv
  <2> QED
    BY <2>1, <2>2 DEF IsLocation, IsPath
<1>4. /\ IsPath(FileRoot(route)) /\ FileRoot(route) \in Str
      /\ Clean(FileRoot(route)) = FileRoot(route)
      /\ route.target.path \in Str /\ PathOf(route) \in Str
  BY RouteSplit, FileRootType
<1>5. strip \in Str
  BY <1>3, <1>4, StripPath
<1>6. base \in Str
  BY <1>4, VisitAssumption DEF RootOf, SftpDir
<1> HIDE DEF base, strip
<1>7. ms \in Seq(Name) /\ uri = FromParts(ms)
  BY <1>5, KeptType
<1>8. /\ route.kind = "file" => ~SendsFile(route)
      /\ dir = Stat(PathJoin(base, uri))
  <2>1. CASE route.kind = "file"
    <3>1. reached = At(route, IF SendsFile(route) THEN Stat(FileRoot(route))
                       ELSE Open(FileRoot(route), uri))
      BY <1>3, <2>1 DEF Reaches, strip
    <3>2. dir = IF SendsFile(route) THEN Stat(FileRoot(route))
                ELSE Open(FileRoot(route), uri)
      <4> HIDE DEF uri
      <4> QED
        BY <3>1 DEF At
    <3>3. ~SendsFile(route)
      BY <1>2, <3>2 DEF SendsFile
    <3>4. Open(FileRoot(route), uri) = Stat(PathJoin(FileRoot(route), uri))
      <4> HIDE DEF ms, uri
      <4> QED
        BY <1>4, <1>7, OpenPlain
    <3>5. base = FileRoot(route)
      BY <2>1 DEF base, RootOf
    <3> QED
      BY <3>2, <3>3, <3>4, <3>5
  <2>2. CASE route.kind = "sftp"
    <3>1. reached = At(route, Stat(PathJoin(SftpDir(route), uri)))
      BY <1>3, <2>2 DEF Reaches, strip
    <3>2. base = SftpDir(route)
      BY <2>2 DEF base, RootOf
    <3> HIDE DEF uri
    <3> QED
      BY <2>2, <3>1, <3>2 DEF At
  <2> QED
    BY <2>1, <2>2
<1>9. PICK q \in Listing(dir, uri) : loc = Location(NoHost, q)
  BY <1>1
<1> HIDE DEF uri, dir, ms
<1>10. /\ \E ks \in Seq(Name) : q = FromParts(ks)
       /\ q = Dir(uri) \/ PathJoin(dir, Last(Parts(q))) = PathJoin(base, q)
  BY <1>2, <1>6, <1>7, <1>8, EntryPath
<1>11. Meaning(loc)
         = FileMeant(route, IF q = Dir(uri) THEN PathJoin(base, q)
                            ELSE PathJoin(dir, Last(Parts(q))))
  <2>1. loc.path = q
    BY <1>9 DEF Location
  <2>2. uri = Clean(Stripped(route))
    BY DEF uri, strip, Stripped
  <2> QED
    BY <2>1, <2>2 DEF Meaning, base, dir
<1>12. Meaning(loc) = FileMeant(route, PathJoin(base, q))
  BY <1>10, <1>11
<1>13. \A name : FileMeant(route, name) = At(route, Stat(name))
  BY DEF FileMeant, IsLink, NoSymlinks
<1>14. Meaning(loc) = At(route, Stat(PathJoin(base, q)))
  BY <1>12, <1>13
<1> QED
  BY <1>8, <1>9, <1>10, <1>14 DEF base

\* The writers put something in front of a link of a page so that the handler,
\* asked for the rewritten link, reaches what the link means.
LEMMA LinkBack ==
  ASSUME SingleSlashes, TypeInv, route \in Routes,
         route.kind \in {"file", "sftp"} => Reaches(route, AtOf(request), reached),
         NEW loc \in PageLinks, NEW what, what = Meaning(loc),
         what # Anything, Covered(what)
  PROVE  \E w \in Str :
           LET p == Cat(PathOf(route), w) IN
           /\ p \in Str /\ IsPrefix(Slash, p)
           /\ UpdateLocation(loc, HostOf(route), PathOf(route), TargetPath(route))
                = Location(NoHost, p)
           /\ \A host : Reaches(route, Location(host, p), what)
<1>1. CASE route.kind \in {"proxy", "php"}
  <2>1. loc \in ProxyLinks /\ Means(route, loc) /\ what = At(route, RequestURI(loc))
    BY <1>1, MeaningCases
  <2> QED
    BY <2>1, HandlerBack
<1>2. CASE route.kind \notin {"proxy", "php"}
  <2>1. route.kind \in {"file", "sftp"}
    BY <1>2 DEF PageLinks, IsDirectory
  <2>2. NoSymlinks
    <3>1. \E name : what = FileMeant(route, name)
      BY <1>2 DEF Meaning
    <3>2. \E path : what = At(route, path)
      BY <3>1 DEF FileMeant
    <3>3. what.route = route.name
      BY <3>2 DEF At
    <3> QED
      BY <2>1, <3>3 DEF Covered, Listed
  <2>3. route.kind = "file" => ~SendsFile(route)
    BY <2>1, <2>2, EntryMeaning
  <2>4. PICK ks \in Seq(Name) :
          /\ loc = Location(NoHost, FromParts(ks))
          /\ what = At(route, Stat(PathJoin(RootOf(route), FromParts(ks))))
    BY <2>1, <2>2, EntryMeaning
  <2> QED
    BY <2>1, <2>2, <2>3, <2>4, EntryBack
<1> QED
  BY <1>1, <1>2

\* A link of a page leads back to what it means.
LEMMA LeadToken ==
  ASSUME NamedHosts, SingleSlashes, TypeInv, LeadInv, ReadPage
  PROVE  LeadInv'
<1>1. PICK t \in Tokens :
        /\ ReadToken(t, ModifyToken(t), IF request.via = "debug" THEN 2 ELSE 1)
        /\ leads' = IF t.type = "text" \/ t.link = NoLink THEN Anything
                    ELSE Meaning(t.link)
  BY DEF ReadPage
<1>2. /\ step = "reads" /\ step' = step /\ request' = request /\ meant' = meant
      /\ route' = route /\ reached' = reached
  BY DEF ReadPage, clientVars, targetVars
<1>3. /\ route \in Routes /\ IsPrefix(route.name, Cat(AtOf(request).host, AtOf(request).path))
  BY <1>2 DEF LeadInv
<1>4. LinksKept'
  BY <1>2 DEF LeadInv, LinksKept, Arrived, Covered, Listed, Nested
<1>5. ASSUME token'.type \in {"start", "self"}, token'.link # NoLink,
             leads' # Anything, Covered(leads')
      PROVE  /\ token'.link.host = NoHost
             /\ Arrives([request EXCEPT !.path = token'.link.path], leads')
  <2>1. t.type # "text" /\ t.link # NoLink /\ leads' = Meaning(t.link)
    BY <1>1, <1>5
  <2>2. PICK type \in {"start", "self"}, l \in PageLinks : t = Tag(type, "a", l)
    BY <2>1 DEF Tokens, Tag, Text
  <2>3. t.link = l /\ t.type = type
    BY <2>2 DEF Tag
  <2> DEFINE new == ModifyToken(t)
  <2>4. token' = [t EXCEPT !.link = new]
    BY <1>1, <2>1 DEF ReadToken, NextToken
  <2>5. token'.link = new
    BY <2>2, <2>4 DEF Tag
  <2>6. new = ByListener(UpdateLocation(l, HostOf(route), PathOf(route),
                                        TargetPath(route)))
    BY <2>1, <2>3 DEF ModifyToken
  <2> DEFINE what == Meaning(l)
  <2>7. /\ leads' = what /\ what # Anything /\ Covered(what)
        /\ route.kind \in {"file", "sftp"} => Reaches(route, AtOf(request), reached)
    BY <1>2, <1>5, <2>1, <2>3 DEF LeadInv
  <2> HIDE DEF what
  <2>8. PICK w \in Str :
          /\ Cat(PathOf(route), w) \in Str /\ IsPrefix(Slash, Cat(PathOf(route), w))
          /\ UpdateLocation(l, HostOf(route), PathOf(route), TargetPath(route))
               = Location(NoHost, Cat(PathOf(route), w))
          /\ \A host : Reaches(route, Location(host, Cat(PathOf(route), w)), what)
    BY <1>3, <2>7, LinkBack DEF what
  <2> DEFINE p == Cat(PathOf(route), w)
  <2>9. new = ByListener(Location(NoHost, p))
    BY <2>6, <2>8
  <2>10. /\ p \in Str /\ IsPrefix(Slash, p) /\ p = Cat(PathOf(route), w)
         /\ \A host : Reaches(route, Location(host, p), what)
    BY <2>8
  <2> HIDE DEF p, new
  <2>11. /\ ByListener(Location(NoHost, p)).host = NoHost
         /\ Arrives([request EXCEPT !.path = ByListener(Location(NoHost, p)).path],
                    what)
    BY <1>3, <2>10, ArrivesBack
  <2> QED
    BY <2>5, <2>7, <2>9, <2>11
<1>6. Covered(leads)' = Covered(leads') /\ Covered(meant)' = Covered(meant)
  BY <1>2 DEF Covered, Listed
<1>7. Arrives([request EXCEPT !.path = token.link.path], leads)'
        = Arrives([request EXCEPT !.path = token'.link.path], leads')
  BY <1>2 DEF Arrives
<1>8. /\ AtOf(request)' = AtOf(request)
      /\ Reaches(route, AtOf(request), reached)' = Reaches(route, AtOf(request), reached)
  BY <1>2
<1> QED
  BY <1>2, <1>3, <1>4, <1>5, <1>6, <1>7, <1>8 DEF LeadInv

\* The route that answers does what it promises.
LEMMA ServeReaches ==
  ASSUME NEW r, NEW what, Reaches(r, AtServer, what),
         \/ ServeProxy(r) \/ ServeRedirect(r) \/ ServeFile(r)
         \/ ServePHP(r) \/ ServeWasm(r)
         \/ SftpNoClient(r) \/ SftpError(r) \/ SftpOpenDir(r) \/ SftpOpenFile(r)
  PROVE  reached' \in {what, Failed}
<1>1. CASE ServeFile(r)
  BY <1>1 DEF ServeFile, Answer, Reaches, Stripped
<1>2. CASE SftpNoClient(r) \/ SftpError(r) \/ SftpOpenDir(r) \/ SftpOpenFile(r)
  BY <1>2 DEF SftpNoClient, SftpError, SftpOpenDir, SftpOpenFile, SftpConnect,
       SftpName, Answer, Reaches, Stripped
<1>3. CASE ServeProxy(r)
  BY <1>3 DEF ServeProxy, Answer, Reaches, Stripped
<1>4. CASE ServePHP(r)
  BY <1>4 DEF ServePHP, Answer, Reaches, Stripped
<1>5. CASE ServeWasm(r)
  <2>1. r.kind = "go-wasm"
    BY <1>5 DEF ServeWasm
  <2>2. /\ AtServer.path = WasmBase(r) \o Slash /\ AtServer.path # WasmBase(r)
        /\ what = At(r, WasmPage)
    BY <2>1 DEF Reaches, Cat
  <2>3. Answer(r, At(r, WasmPage), AssetSent("assets/go-wasm.html"))
    BY <1>5, <2>2 DEF ServeWasm
  <2> QED
    BY <2>2, <2>3 DEF Answer
<1>6. CASE ServeRedirect(r)
  BY <1>6 DEF ServeRedirect, Reaches
<1> QED
  BY <1>1, <1>2, <1>3, <1>4, <1>5, <1>6

\* An answer is the one that was meant, or comes from another route below.
LEMMA LeadServe ==
  ASSUME PlainNames, TypeInv, LeadInv, Serve
  PROVE  LeadInv'
<1>1. /\ step = "asked" /\ step' # "asked" /\ request' = request /\ meant' = meant
      /\ token' = token /\ leads' = leads
  <2>1. \A name : AssetSent(name) # "asked"
    BY DEF AssetSent
  <2> QED
    BY <2>1 DEF Serve, ServeForbidden, ServeProxy, ServeRedirect, ServeFile,
       ServePHP, ServeWasm, SftpNoClient, SftpError, SftpOpenDir,
       SftpOpenFile, Answer, streamVars
<1>2. token'.type = "none"
  BY <1>1 DEF LeadInv
<1>3. /\ AtOf(request)' = AtOf(request) /\ AtServer = AtOf(request)
      /\ FullPath = Cat(AtOf(request).host, AtOf(request).path)
  BY <1>1 DEF AtServer, AtOf, FullPath, Cat
<1>4. FullPath \in Str
  <2>1. AtOf(request).host \in Str /\ AtOf(request).path \in Str
    BY AtOfType DEF TypeInv, IsLocation, IsHost, IsPath
  <2> QED
    BY <1>3, <2>1, CatLaws DEF Str
<1>5. CASE ServeForbidden
  <2>1. Matching = {} /\ step' = "idle"
    BY <1>5 DEF ServeForbidden, Answer
  <2>2. ASSUME meant # Anything, Covered(meant)
        PROVE  FALSE
    <3>1. PICK r \in Routes : IsPrefix(r.name, FullPath)
      BY <1>1, <1>3, <2>2 DEF LeadInv, Arrives
    <3>2. r \in Matching
      BY <3>1 DEF Matching, Match, PlainNames
    <3> QED
      BY <2>1, <3>2
  <2>3. LinksKept'
    BY <1>1, <2>2 DEF LinksKept, Arrived, Covered, Listed
  <2> QED
    BY <1>1, <1>2, <2>1, <2>3 DEF LeadInv
<1>6. ASSUME NEW r \in Answering,
             \/ ServeProxy(r) \/ ServeRedirect(r) \/ ServeFile(r)
             \/ ServePHP(r) \/ ServeWasm(r)
             \/ SftpNoClient(r) \/ SftpError(r) \/ SftpOpenDir(r) \/ SftpOpenFile(r)
      PROVE  LeadInv'
  <2>1. /\ r \in Routes /\ IsPrefix(r.name, FullPath)
        /\ \A o \in Matching : Len(r.name) >= Len(o.name)
    BY DEF Answering, Matching, Match, Outranks, PlainNames
  <2>2. route' = r
    BY <1>6 DEF ServeProxy, ServeRedirect, ServeFile,
       ServePHP, ServeWasm, SftpNoClient, SftpError, SftpOpenDir,
       SftpOpenFile, Answer
  <2>3. step' = "moved" => r.kind = "go-wasm"
    BY <1>6 DEF ServeProxy, ServeRedirect, ServeFile,
       ServePHP, ServeWasm, SftpNoClient, SftpError, SftpOpenDir,
       SftpOpenFile, Answer
  <2>4. ASSUME meant # Anything, Covered(meant)
        PROVE  reached' \in {meant, Failed} \/ Nested'
    <3>1. PICK o \in Routes : IsPrefix(o.name, FullPath) /\ Reaches(o, AtServer, meant)
      BY <1>1, <1>3, <2>4 DEF LeadInv, Arrives
    <3>2. o \in Matching
      BY <3>1 DEF Matching, Match, PlainNames
    <3>3. CASE o = r
      BY <1>6, <3>1, <3>3, ServeReaches
    <3>4. CASE o # r
      <4>1. o.name = meant.route
        BY <3>1 DEF Reaches, At
      <4>2. /\ o.name \in Str /\ r.name \in Str
            /\ Len(o.name) \in Nat /\ Len(r.name) \in Nat
        BY <2>1, RouteSplit, LenProperties DEF Str
      <4>3. Len(o.name) <= Len(r.name)
        BY <2>1, <3>2, <4>2
      <4>4. IsPrefix(o.name, r.name)
        BY <1>4, <2>1, <3>1, <4>2, <4>3, PrefixLonger
      <4>5. /\ route' \in Routes /\ o \in Routes \ {route'}
            /\ o.name = meant'.route /\ IsPrefix(o.name, route'.name)
        BY <1>1, <2>1, <2>2, <3>4, <4>1, <4>4
      <4> QED
        BY <4>5 DEF Nested
    <3> QED
      BY <3>3, <3>4
  <2>5. LinksKept'
    BY <1>1, <2>4 DEF LinksKept, Arrived, Covered, Listed
  <2>6. ASSUME step' = "reads", r.kind \in {"file", "sftp"}
        PROVE  Reaches(r, AtServer, reached')
    <3>1. CASE ServeFile(r)
      BY <2>6, <3>1 DEF ServeFile, Answer, Reaches, Stripped
    <3>2. CASE SftpOpenDir(r) \/ SftpOpenFile(r)
      BY <3>2 DEF SftpOpenDir, SftpOpenFile, SftpConnect, SftpName, Answer, Reaches,
           Stripped
    <3> QED
      BY <1>6, <2>6, <3>1, <3>2 DEF ServeProxy, ServeRedirect, ServePHP, ServeWasm,
           SftpNoClient, SftpError, Answer
  <2>7. Reaches(route, AtOf(request), reached)' = Reaches(r, AtServer, reached')
    BY <1>3, <2>2
  <2> QED
    BY <1>1, <1>2, <1>3, <2>1, <2>2, <2>3, <2>5, <2>6, <2>7 DEF LeadInv
<1> QED
  BY <1>5, <1>6 DEF Serve

\* Every step preserves the invariant of the links.
LEMMA LeadStep ==
  ASSUME PlainNames, NamedHosts, SingleSlashes, TypeInv, LeadInv, [Next]_vars
  PROVE  LeadInv'
<1>1. CASE TypeURL
  BY <1>1, LeadAsk DEF TypeURL
<1>2. CASE FollowLink
  BY <1>2, LeadFollow
<1>3. CASE FollowRedirect
  BY <1>3, LeadRedirect
<1>4. CASE ReadPage
  BY <1>4, LeadToken
<1>5. CASE ReadPieces \/ UNCHANGED vars
  <2>1. /\ step' = step /\ request' = request /\ meant' = meant
        /\ route' = route /\ reached' = reached /\ leads' = leads
        /\ token' = token
    BY <1>5 DEF ReadPieces, Copy, vars, clientVars, targetVars, streamVars
  <2>2. LinksKept'
    BY <2>1 DEF LeadInv, LinksKept, Arrived, Covered, Listed, Nested
  <2>3. /\ Covered(meant)' = Covered(meant) /\ Covered(leads)' = Covered(leads)
        /\ Reaches(route, AtOf(request), reached)'
             = Reaches(route, AtOf(request), reached)
        /\ Arrives(request, meant)' = Arrives(request, meant)
        /\ Arrives([request EXCEPT !.path = token.link.path], leads)'
             = Arrives([request EXCEPT !.path = token.link.path], leads)
        /\ AtOf(request)' = AtOf(request)
    BY <2>1 DEF Covered, Listed, Arrives
  <2> QED
    BY <2>1, <2>2, <2>3 DEF LeadInv
<1>6. CASE Serve
  BY <1>6, LeadServe
<1> QED
  BY <1>1, <1>2, <1>3, <1>4, <1>5, <1>6 DEF Next

\* Of routes without wildcards, a link leads where it meant, or to a route
\* below the one it is a link of (updateLocation, handlePathCombinations,
\* Server.Debug).
THEOREM LinksKeepTheirRoute ==
  ASSUME PlainNames, NamedHosts, SingleSlashes
  PROVE  Spec => []LinksKept
<1>1. Init => LeadInv
  <2> SUFFICES ASSUME Init
               PROVE  LeadInv
    OBVIOUS
  <2>1. step = "idle" /\ meant = Anything
    BY DEF Init
  <2> QED
    BY <2>1 DEF LeadInv, LinksKept, Arrived
<1>2. VisitInv /\ LeadInv /\ [Next]_vars => LeadInv'
  BY LeadStep DEF VisitInv
<1>3. LeadInv => LinksKept
  BY DEF LeadInv
<1> QED
  BY <1>1, <1>2, <1>3, VisitInvariant, PTL DEF Spec

\* No other route is below the one that was meant.
LEMMA ApartNested ==
  ASSUME Apart
  PROVE  ~Nested
BY DEF Apart, Nested

\* When no route is below another, a link leads where it meant: the path that
\* the response writers put in front of a location (updateLocation) is what
\* Server.Debug and handlePathCombinations take off the request for it.
THEOREM LinksLeadBack ==
  ASSUME PlainNames, NamedHosts, SingleSlashes, Apart
  PROVE  Spec => []LinksLead
<1>1. LinksKept => LinksLead
  BY ApartNested DEF LinksKept, LinksLead, Covered
<1> QED
  BY <1>1, LinksKeepTheirRoute, PTL

\* When the file system has no symbolic links either, the entries of every
\* listing, and the one above them, lead to the files and directories they
\* stand for (handleDir, Directory.Open, sftpFS.Open).
THEOREM EntriesLeadBack ==
  ASSUME PlainNames, NamedHosts, SingleSlashes, Apart, NoSymlinks
  PROVE  Spec => []EntriesLead
<1>1. LinksKept => EntriesLead
  BY ApartNested DEF LinksKept, EntriesLead, Covered
<1> QED
  BY <1>1, LinksKeepTheirRoute, PTL
=============================================================================
