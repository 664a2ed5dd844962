----------------------------- MODULE HtmlStream -----------------------------
(***************************************************************************)
(* HTMLStreamer (pkg/stream/htmlstreamer.go): one HTML page on its way     *)
(* through the tokenizer and back to text.                                 *)
(*                                                                         *)
(* Of a text only its markup characters matter: what they spell and a      *)
(* level of escaping (0 has none, 1 holds "<", 2 holds "&lt;", 3 holds     *)
(* "&amp;lt;").  Of a tag only its name and the location in its href, src, *)
(* action or formaction.  Comments and doctypes are left out.              *)
(***************************************************************************)
EXTENDS Integers, Sequences

CONSTANTS
  NoLink,     \* a tag without location
  MaxNest,    \* bound: how far HTMLStreamer.noEscape goes from 0
  PieceCount  \* length of a token's text, in units of reading

ASSUME StreamAssumption == MaxNest \in Nat /\ PieceCount \in Nat \ {0}

\* script (and style) hold raw text, textarea (and title) text in which only
\* entities count; noscript stands for the other elements whose content the
\* tokenizer does not parse, a for all others.
RawElement == {"script", "noscript"}
ElementName == RawElement \cup {"textarea", "a"}

\* HTMLStreamer.Read counts these.
CountedElement == {"script", "textarea"}

VARIABLES
  rawTag,    \* the tokenizer is inside this element, or ""
  noEscape,  \* HTMLStreamer.noEscape
  token,     \* the token read last, as it is written
  original,  \* what a browser would have made of that token's text
  buffer,    \* HTMLStreamer.buffer, the pieces not yet copied
  out,       \* the pieces of the token that were copied
  page,      \* the input so far: "regular", "odd" or "torn"
  whole      \* history: the tokens before this one were copied completely

streamVars == <<rawTag, noEscape, token, original, buffer, out, page, whole>>

\* What the markup characters of a text spell: a "<" that begins no tag, a
\* tag, or the end tag of the element around the text.
Spelling == {"sign", "tag", "end"}

NoToken == [type |-> "none"]
Tag(type, name, link) == [type |-> type, name |-> name, link |-> link]
Text(what, level) == [type |-> "text", what |-> what, level |-> level]

StreamInit ==
  /\ rawTag = "" /\ noEscape = 0
  /\ token = NoToken /\ original = 0
  /\ buffer = <<>> /\ out = <<>>
  /\ page = "regular" /\ whole = TRUE

\* html.EscapeString and html.UnescapeString
Escape(level) == IF level = 0 THEN 0 ELSE level + 1
Unescape(level) == IF level <= 1 THEN level ELSE level - 1

\* The text a reader of HTML (the tokenizer, a browser) sees.
Decode(level) == IF rawTag \in RawElement THEN level ELSE Unescape(level)

\* It sees no text but markup: inside rawTag the end tag alone counts.
Alive(text) ==
  text.level = 1 /\ (text.what = "end" \/ (text.what = "tag" /\ rawTag = ""))

Markup == -1

Sees(text) == IF Alive(text) THEN Markup ELSE Decode(text.level)

(***************************************************************************)
(* html.Tokenizer: inside rawTag there is only text and the end of it.     *)
(* The readers of a torn page disagree on where its elements end, so it is *)
(* not followed further.                                                   *)
(***************************************************************************)
CanFollow(t) ==
  /\ page # "torn"
  /\ t.type = "text" => ~Alive(t)
  /\ rawTag # "" => t.type = "text" \/ (t.type = "end" /\ t.name = rawTag)

RawTagAfter(t) ==
  CASE t.type \in {"start", "self"} /\ t.name # "a" -> t.name
    [] t.type = "end" -> ""
    [] OTHER -> rawTag

\* The end tag of a textarea spelled with entities inside of it.
Tears(t) ==
  t.type = "text" /\ t.what = "end" /\ t.level = 2 /\ rawTag = "textarea"

\* A counted element that has no end, or an end of one that has no start.
Unpaired(t) ==
  /\ t.type # "text"
  /\ t.name \in CountedElement
  /\ t.type = "self" \/ (t.type = "end" /\ rawTag = "")

PageAfter(t) ==
  IF Tears(t) THEN "torn" ELSE IF Unpaired(t) THEN "odd" ELSE page

\* Mutant of NoEscapeAfter: the end of the element is not seen.
NoEscapeAfterStart(t) ==
  IF t.type = "start" /\ t.name \in CountedElement
  THEN noEscape + 1 ELSE noEscape

NoEscapeAfter(t) ==
  CASE t.type = "start" /\ t.name \in CountedElement -> noEscape + 1
    [] t.type = "end" /\ t.name \in CountedElement -> noEscape - 1
    [] OTHER -> noEscape

\* tokenToString
Rendering == [i \in 1..PieceCount |-> i]

Rewritten(level) ==
  IF noEscape <= 0 THEN Escape(Decode(level)) ELSE Decode(level)

\* The text as one HTMLStreamer writes it; what it sees as markup it writes
\* as markup.
Rewrite(text) ==
  IF Alive(text) THEN text ELSE Text(text.what, Rewritten(text.level))

\* A response through the debug listener passes two streamers, with the same
\* tags and so the same noEscape.
RewriteBy(layers, text) ==
  IF layers = 1 THEN Rewrite(text) ELSE Rewrite(Rewrite(text))

(***************************************************************************)
(* HTMLStreamer.Read.  It reads a token when its buffer is empty (link is  *)
(* what ModifyToken leaves of the location), then copies what fits.        *)
(***************************************************************************)
NextToken(t, link, layers) ==
  /\ CanFollow(t)
  /\ NoEscapeAfter(t) \in -MaxNest..MaxNest
  /\ noEscape' = NoEscapeAfter(t)
  /\ rawTag' = RawTagAfter(t)
  /\ token' = IF t.type = "text" THEN RewriteBy(layers, t)
              ELSE [t EXCEPT !.link = link]
  /\ original' = IF t.type = "text" THEN Sees(t) ELSE 0
  /\ buffer' = Rendering
  /\ out' = <<>>
  /\ page' = PageAfter(t)
  /\ whole' = (whole /\ (token.type # "none" => out = Rendering))

\* Mutant of ReadToken: the rest of the buffer is not waited for.
ReadTokenEarly(t, link, layers) == NextToken(t, link, layers)

ReadToken(t, link, layers) ==
  /\ buffer = <<>>
  /\ NextToken(t, link, layers)

\* Mutant of Copy: what was copied stays in the buffer.
CopyKeeps(n) ==
  /\ buffer # <<>>
  /\ n \in 1..Len(buffer)
  /\ out' = out \o SubSeq(buffer, 1, n)
  /\ UNCHANGED <<buffer, rawTag, noEscape, token, original, page, whole>>

Copy(n) ==
  /\ buffer # <<>>
  /\ n \in 1..Len(buffer)
  /\ out' = out \o SubSeq(buffer, 1, n)
  /\ buffer' = SubSeq(buffer, n + 1, Len(buffer))
  /\ UNCHANGED <<rawTag, noEscape, token, original, page, whole>>

\* Types of the fields of HTMLStreamer and of the tokenizer.
StreamTypeOK ==
  /\ rawTag \in {"", "script", "noscript", "textarea"}
  /\ noEscape \in -MaxNest..MaxNest
  /\ token.type \in {"none", "start", "self", "end", "text"}
  /\ original \in 0..3
  /\ buffer \in Seq(1..PieceCount) /\ out \in Seq(1..PieceCount)
  /\ Len(out) <= PieceCount
  /\ page \in {"regular", "odd", "torn"} /\ whole \in BOOLEAN

\* Whatever the size of the reads, the pieces of a token come out complete and
\* in order, all of them before the next token is read: of every token read so
\* far the reader got the whole, and of the last one it gets the rest.
StreamExact ==
  /\ whole
  /\ token.type # "none" => out \o buffer = Rendering

\* A text means to the browser what it meant when the target wrote it, and
\* none becomes markup, through one streamer and through two.  It holds of
\* every text outside of the elements whose content is not parsed, also on odd
\* pages, where noEscape went astray; of script only on pages whose counted
\* elements come in pairs.  Not kept, and left out: markup in noscript and its
\* like, which is escaped; entities spelled out in a textarea or title, which
\* come out unescaped, so that its end tag spelled that way ends it.
TextIntact ==
  (/\ token.type = "text" /\ page # "torn"
   /\ rawTag = "script" => page = "regular"
   /\ rawTag = "noscript" => original = 0
   /\ rawTag = "textarea" => original <= 1)
     => Sees(token) = original
=============================================================================
