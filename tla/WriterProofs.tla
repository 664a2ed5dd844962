---------------------------- MODULE WriterProofs ----------------------------
(***************************************************************************)
(* Proofs about PrefixWriter and RequestLog, for every number of chunks,   *)
(* every set of content types, and connections that last or break.         *)
(***************************************************************************)
EXTENDS RequestLog, SequenceTheorems, TLAPS

\* The chunk numbers 1 to n, in order.
Numbers(n) == [i \in 1..n |-> i]

\* How far the two goroutines are: only a waiting Write has a chunk in the
\* pipe, the pipe is closed by Close alone, nothing enters it unless the
\* response is HTML, and while the connection lasts the copier stops only at
\* the end of the pipe, with nothing held.
Flow ==
  /\ handler # "pipe" => pipe = <<>>
  /\ pipeClosed <=> handler \in {"close", "returned"}
  /\ ~isHTML => held = <<>> /\ pipe = <<>>
  /\ copier = "done" /\ connected => pipeClosed /\ held = <<>>
  /\ handler = "returned" => copier = "done"

\* No chunk is in two places, also after the connection broke.
NoneTwice == Len(body) + Len(held) + Len(pipe) <= Len(offered)

WriterInv == TypeOK /\ Flow /\ NoneTwice /\ InOrder

\* What is counted or being copied is what the connection took, and after the
\* end of the copier nothing is being copied.
Counted ==
  /\ logged \in {"BEGIN", "END", "skipped"}
  /\ count \in Nat /\ copied \in Nat
  /\ copied <= Len(body)
  /\ IF logged = "skipped" THEN count = 0 ELSE count + copied = Len(body)
  /\ copier = "done" => copied = 0
  /\ IF logged = "END" THEN handler = "returned" ELSE ended = 0

LogInv == WriterInv /\ Counted /\ EndCountsAll

-----------------------------------------------------------------------------
(***************************************************************************)
(* Sequences.                                                              *)
(***************************************************************************)

\* The next chunk's number follows the numbers of the chunks before it.
LEMMA NumbersGrow ==
  ASSUME NEW n \in Nat
  PROVE  Append(Numbers(n), n + 1) = Numbers(n + 1)
<1>1. Numbers(n) \in Seq(Nat) /\ Len(Numbers(n)) = n
  BY DEF Numbers
<1>2. Numbers(n + 1) \in Seq(Nat) /\ Len(Numbers(n + 1)) = n + 1
  BY DEF Numbers
<1>3. /\ Append(Numbers(n), n + 1) \in Seq(Nat)
      /\ Len(Append(Numbers(n), n + 1)) = n + 1
  BY <1>1
<1>4. \A i \in 1..n + 1 : Append(Numbers(n), n + 1)[i] = Numbers(n + 1)[i]
  BY <1>1 DEF Numbers
<1> QED
  BY <1>2, <1>3, <1>4, SeqEqual

\* Writing a held chunk to the connection changes neither the chunks nor their
\* order.
LEMMA MoveHead ==
  ASSUME NEW S, NEW b \in Seq(S), NEW h \in Seq(S), h # <<>>
  PROVE  Append(b, Head(h)) \o Tail(h) = b \o h
<1>1. /\ Head(h) \in S /\ Tail(h) \in Seq(S) /\ Len(h) \in Nat \ {0}
      /\ Len(Tail(h)) = Len(h) - 1 /\ Head(h) = h[1]
      /\ \A i \in 1..Len(Tail(h)) : Tail(h)[i] = h[i + 1]
  BY HeadTailProperties, EmptySeq
<1>2. /\ Append(b, Head(h)) \in Seq(S) /\ Len(b) \in Nat
      /\ Len(Append(b, Head(h))) = Len(b) + 1
      /\ Append(b, Head(h))[Len(b) + 1] = Head(h)
      /\ \A i \in 1..Len(b) : Append(b, Head(h))[i] = b[i]
  BY <1>1
<1> DEFINE x == Append(b, Head(h)) \o Tail(h)
           y == b \o h
<1>3. /\ x \in Seq(S) /\ Len(x) = Len(b) + Len(h)
      /\ \A i \in 1..Len(b) + Len(h) :
           x[i] = IF i <= Len(b) + 1 THEN Append(b, Head(h))[i]
                  ELSE Tail(h)[i - (Len(b) + 1)]
  BY <1>1, <1>2, ConcatProperties
<1>4. /\ y \in Seq(S) /\ Len(y) = Len(b) + Len(h)
      /\ \A i \in 1..Len(b) + Len(h) :
           y[i] = IF i <= Len(b) THEN b[i] ELSE h[i - Len(b)]
  BY ConcatProperties
<1> HIDE DEF x, y
<1>5. \A i \in 1..Len(x) : x[i] = y[i]
  <2> TAKE i \in 1..Len(x)
  <2>1. i \in 1..Len(b) + Len(h) /\ i \in Nat
    BY <1>1, <1>2, <1>3
  <2>2. CASE i <= Len(b)
    BY <1>2, <1>3, <1>4, <2>1, <2>2
  <2>3. CASE i = Len(b) + 1
    <3>1. x[i] = Head(h) /\ y[i] = h[i - Len(b)] /\ i - Len(b) = 1
      BY <1>2, <1>3, <1>4, <2>1, <2>3
    <3> QED
      BY <1>1, <3>1
  <2>4. CASE i > Len(b) + 1
    <3> DEFINE j == i - (Len(b) + 1)
    <3>1. j \in 1..Len(Tail(h)) /\ j + 1 = i - Len(b)
      BY <1>1, <1>2, <2>1, <2>4
    <3>2. x[i] = Tail(h)[j] /\ y[i] = h[i - Len(b)]
      BY <1>2, <1>3, <1>4, <2>1, <2>4
    <3> QED
      BY <1>1, <3>1, <3>2
  <2> QED
    BY <1>2, <2>1, <2>2, <2>3, <2>4
<1>6. x = y
  BY <1>3, <1>4, <1>5, SeqEqual
<1> QED
  BY <1>6 DEF x, y

\* A new chunk at the end, whether the connection or the pipe takes it.
LEMMA NextChunk ==
  ASSUME NEW S, NEW b \in Seq(S), NEW h \in Seq(S), NEW n \in Nat,
         n + 1 \in S, b \o h \o <<>> = Numbers(n)
  PROVE  /\ b \o h \o <<n + 1>> = Numbers(n + 1)
         /\ h = <<>> => Append(b, n + 1) \o h \o <<>> = Numbers(n + 1)
<1>1. b \o h \in Seq(S) /\ b \o h = Numbers(n)
  BY ConcatProperties, ConcatEmptySeq
<1>2. b \o h \o <<n + 1>> = Append(b \o h, n + 1)
  BY <1>1
<1>3. ASSUME h = <<>>
      PROVE  Append(b, n + 1) \o h \o <<>> = Append(b \o h, n + 1)
  <2>1. b \o h = b
    BY <1>3, ConcatEmptySeq
  <2>2. Append(b, n + 1) \in Seq(S)
    OBVIOUS
  <2> QED
    BY <1>3, <2>1, <2>2, ConcatEmptySeq
<1> QED
  BY <1>1, <1>2, <1>3, NumbersGrow
-----------------------------------------------------------------------------
(***************************************************************************)
(* The steps of PrefixWriter.                                              *)
(***************************************************************************)

\* The header may change, the chunks stay.
LEMMA HeaderSteps ==
  ASSUME WriterInv,
         WriteHeader \/ \E t \in Type : SetContentType(t)
  PROVE  WriterInv'
<1>1. UNCHANGED <<handler, offered, pipe, pipeClosed, copier, held, connected,
                  body>>
  BY DEF WriteHeader, SetContentType, copyVars
<1>2. /\ headerSent' \in BOOLEAN /\ isHTML' \in BOOLEAN
      /\ ctype' \in Type \cup {NoType}
      /\ isHTML => isHTML'
  BY DEF WriteHeader, SetContentType, SendHeader, WriterInv, TypeOK
<1>3. TypeOK'
  BY <1>1, <1>2 DEF WriterInv, TypeOK
<1>4. Flow'
  BY <1>1, <1>2 DEF WriterInv, Flow
<1>5. NoneTwice' /\ InOrder'
  BY <1>1 DEF WriterInv, NoneTwice, InOrder
<1> QED
  BY <1>3, <1>4, <1>5 DEF WriterInv

\* The header of a first Write has its types.
LEMMA HeaderTyped ==
  ASSUME TypeOK, NEW t \in Type, HeaderOfWrite(t)
  PROVE  /\ headerSent' \in BOOLEAN /\ isHTML' \in BOOLEAN
         /\ ctype' \in Type \cup {NoType}
         /\ isHTML => isHTML'
BY DEF HeaderOfWrite, SendHeader, headVars, TypeOK

\* A Write adds one chunk to those that were offered.
LEMMA Offered ==
  ASSUME TypeOK, NEW t \in Type, Len(offered) < MaxChunks,
         offered' = Append(offered, t)
  PROVE  /\ offered' \in Seq(Type) /\ Len(offered') = Len(offered) + 1
         /\ Len(offered) \in Nat /\ Len(offered') <= MaxChunks
         /\ Len(offered) + 1 \in 1..MaxChunks
BY WriterAssumption DEF TypeOK

\* A Write of HTML puts its chunk behind all others.
LEMMA WriteHTMLStep ==
  ASSUME WriterInv, NEW t \in Type, WriteHTML(t)
  PROVE  WriterInv'
<1> DEFINE n == Len(offered)
<1>1. /\ handler = "run" /\ handler' = "pipe" /\ isHTML'
      /\ n < MaxChunks /\ HeaderOfWrite(t)
      /\ offered' = Append(offered, t) /\ pipe' = <<n + 1>>
      /\ UNCHANGED <<pipeClosed, copier, held, connected, body>>
  BY DEF WriteHTML, copyVars
<1>2. /\ headerSent' \in BOOLEAN /\ isHTML' \in BOOLEAN
      /\ ctype' \in Type \cup {NoType}
  BY <1>1, HeaderTyped DEF WriterInv
<1>3. /\ offered' \in Seq(Type) /\ Len(offered') = n + 1
      /\ n \in Nat /\ n + 1 \in 1..MaxChunks /\ Len(offered') <= MaxChunks
  BY <1>1, Offered DEF WriterInv
<1>4. pipe = <<>>
  BY <1>1 DEF WriterInv, Flow
<1>5. TypeOK'
  <2>1. pipe' \in Seq(1..MaxChunks) /\ Len(pipe') <= 1
    BY <1>1, <1>3
  <2> QED
    BY <1>1, <1>2, <1>3, <2>1 DEF WriterInv, TypeOK
<1>6. Flow'
  BY <1>1 DEF WriterInv, Flow
<1>7. NoneTwice'
  BY <1>1, <1>3, <1>4 DEF WriterInv, TypeOK, NoneTwice
<1>8. InOrder'
  <2> SUFFICES ASSUME connected PROVE body \o held \o <<n + 1>> = Numbers(n + 1)
    BY <1>1, <1>3 DEF InOrder, Numbers
  <2>1. body \o held \o <<>> = Numbers(n)
    BY <1>4 DEF WriterInv, InOrder, Numbers
  <2> QED
    BY <1>3, <2>1, NextChunk DEF WriterInv, TypeOK
<1> QED
  BY <1>5, <1>6, <1>7, <1>8 DEF WriterInv

\* A Write of anything else finds nothing held that it could overtake.
LEMMA WriteOtherStep ==
  ASSUME WriterInv, NEW t \in Type, WriteOther(t)
  PROVE  WriterInv'
<1> DEFINE n == Len(offered)
<1>1. /\ handler = "run" /\ ~isHTML'
      /\ n < MaxChunks /\ HeaderOfWrite(t)
      /\ offered' = Append(offered, t)
      /\ body' = IF connected THEN Append(body, n + 1) ELSE body
      /\ UNCHANGED <<handler, pipe, pipeClosed, copier, held, connected>>
  BY DEF WriteOther, copyVars
<1>2. /\ headerSent' \in BOOLEAN /\ isHTML' \in BOOLEAN
      /\ ctype' \in Type \cup {NoType}
      /\ isHTML => isHTML'
  BY <1>1, HeaderTyped DEF WriterInv
<1>3. /\ offered' \in Seq(Type) /\ Len(offered') = n + 1
      /\ n \in Nat /\ n + 1 \in 1..MaxChunks /\ Len(offered') <= MaxChunks
  BY <1>1, Offered DEF WriterInv
<1>4. pipe = <<>> /\ held = <<>>
  BY <1>1, <1>2 DEF WriterInv, Flow
<1>5. /\ body' \in Seq(1..MaxChunks)
      /\ Len(body') <= Len(body) + 1
  <2>1. body \in Seq(1..MaxChunks) /\ Len(body) \in Nat
    BY DEF WriterInv, TypeOK
  <2>2. /\ Append(body, n + 1) \in Seq(1..MaxChunks)
        /\ Len(Append(body, n + 1)) = Len(body) + 1
    BY <1>3, <2>1
  <2>3. CASE connected
    <3>1. body' = Append(body, n + 1)
      BY <1>1, <2>3
    <3> QED
      BY <2>1, <2>2, <3>1
  <2>4. CASE ~connected
    <3>1. body' = body
      BY <1>1, <2>4
    <3> QED
      BY <2>1, <3>1
  <2> QED
    BY <2>3, <2>4
<1>6. TypeOK'
  BY <1>1, <1>2, <1>3, <1>5 DEF WriterInv, TypeOK
<1>7. Flow'
  BY <1>1, <1>4 DEF WriterInv, Flow
<1>8. NoneTwice'
  BY <1>1, <1>3, <1>4, <1>5 DEF WriterInv, TypeOK, NoneTwice
<1>9. InOrder'
  <2> SUFFICES ASSUME connected
               PROVE  Append(body, n + 1) \o held \o <<>> = Numbers(n + 1)
    BY <1>1, <1>3, <1>4 DEF InOrder, Numbers
  <2>1. body \o held \o <<>> = Numbers(n)
    BY <1>4 DEF WriterInv, InOrder, Numbers
  <2> QED
    BY <1>3, <1>4, <2>1, NextChunk DEF WriterInv, TypeOK
<1> QED
  BY <1>6, <1>7, <1>8, <1>9 DEF WriterInv
\* Close and its end, the end of the copier and of the connection move no
\* chunk.
LEMMA EndingSteps ==
  ASSUME WriterInv,
         Close \/ CloseDone \/ CopyFails \/ CopyEOF \/ ClientLeaves
  PROVE  WriterInv'
<1>1. /\ UNCHANGED <<headerSent, isHTML, ctype, offered, pipe, held, body>>
      /\ connected' => connected
  BY DEF Close, CloseDone, CopyFails, CopyEOF, ClientLeaves, headVars, copyVars
<1>2. /\ handler' \in {"run", "pipe", "close", "returned"}
      /\ copier' \in {"copy", "done"}
      /\ pipeClosed' \in BOOLEAN /\ connected' \in BOOLEAN
  BY DEF Close, CloseDone, CopyFails, CopyEOF, ClientLeaves, headVars,
         copyVars, WriterInv, TypeOK
<1>3. TypeOK'
  BY <1>1, <1>2 DEF WriterInv, TypeOK
<1>4. Flow'
  BY DEF Close, CloseDone, CopyFails, CopyEOF, ClientLeaves, headVars,
         copyVars, WriterInv, Flow
<1>5. NoneTwice' /\ InOrder'
  BY <1>1 DEF WriterInv, NoneTwice, InOrder
<1> QED
  BY <1>3, <1>4, <1>5 DEF WriterInv

\* The tokenizer takes the chunk in the pipe behind those it holds.
LEMMA CopyReadStep ==
  ASSUME WriterInv, CopyRead
  PROVE  WriterInv'
<1>1. /\ copier = "copy" /\ pipe # <<>> /\ held' = held \o pipe
      /\ pipe' = <<>> /\ handler' = "run"
      /\ UNCHANGED <<headerSent, isHTML, ctype, offered, pipeClosed, copier,
                     connected, body>>
  BY DEF CopyRead, headVars
<1>2. handler = "pipe" /\ isHTML
  BY <1>1 DEF WriterInv, Flow
<1>3. /\ body \in Seq(1..MaxChunks) /\ held \in Seq(1..MaxChunks)
      /\ pipe \in Seq(1..MaxChunks)
  BY DEF WriterInv, TypeOK
<1>4. /\ held' \in Seq(1..MaxChunks) /\ Len(held') = Len(held) + Len(pipe)
      /\ pipe' \in Seq(1..MaxChunks) /\ Len(pipe') = 0
  BY <1>1, <1>3
<1>5. TypeOK'
  BY <1>1, <1>4 DEF WriterInv, TypeOK
<1>6. Flow'
  BY <1>1, <1>2 DEF WriterInv, Flow
<1>7. NoneTwice'
  BY <1>1, <1>3, <1>4 DEF WriterInv, NoneTwice
<1>8. body \o (held \o pipe) \o <<>> = body \o held \o pipe
  <2>1. /\ held \o pipe \in Seq(1..MaxChunks)
        /\ body \o (held \o pipe) = body \o held \o pipe
    BY <1>3, ConcatProperties, ConcatAssociative
  <2>2. body \o (held \o pipe) \in Seq(1..MaxChunks)
    BY <1>3, <2>1, ConcatProperties
  <2> QED
    BY <2>1, <2>2, ConcatEmptySeq
<1>9. InOrder'
  BY <1>1, <1>8 DEF WriterInv, InOrder
<1> QED
  BY <1>5, <1>6, <1>7, <1>9 DEF WriterInv

\* The copier writes what it holds from the front.
LEMMA CopyWriteStep ==
  ASSUME WriterInv, CopyWrite
  PROVE  /\ WriterInv'
         /\ Len(body') = Len(body) + 1
<1>1. /\ copier = "copy" /\ held # <<>>
      /\ body' = Append(body, Head(held)) /\ held' = Tail(held)
      /\ UNCHANGED <<handler, headerSent, isHTML, ctype, offered, pipe,
                     pipeClosed, copier, connected>>
  BY DEF CopyWrite, headVars
<1>2. /\ body \in Seq(1..MaxChunks) /\ held \in Seq(1..MaxChunks)
      /\ pipe \in Seq(1..MaxChunks)
  BY DEF WriterInv, TypeOK
<1>3. /\ Head(held) \in 1..MaxChunks
      /\ held' \in Seq(1..MaxChunks) /\ Len(held') = Len(held) - 1
  BY <1>1, <1>2, HeadTailProperties
<1>4. body' \in Seq(1..MaxChunks) /\ Len(body') = Len(body) + 1
  BY <1>1, <1>2, <1>3
<1>5. TypeOK'
  BY <1>1, <1>3, <1>4 DEF WriterInv, TypeOK
<1>6. Flow'
  BY <1>1 DEF WriterInv, Flow
<1>7. NoneTwice'
  BY <1>1, <1>2, <1>3, <1>4 DEF WriterInv, NoneTwice
<1>8. InOrder'
  <2>1. body' \o held' = body \o held
    BY <1>1, <1>2, MoveHead
  <2> QED
    BY <1>1, <2>1 DEF WriterInv, InOrder
<1> QED
  BY <1>4, <1>5, <1>6, <1>7, <1>8 DEF WriterInv

\* Every step of the two goroutines keeps the invariant.
LEMMA WriterStep ==
  ASSUME WriterInv, [Next]_vars
  PROVE  WriterInv'
<1>1. CASE Next
  BY <1>1, HeaderSteps, WriteHTMLStep, WriteOtherStep, EndingSteps,
     CopyReadStep, CopyWriteStep
  DEF Next, Handler, Copier
<1>2. CASE UNCHANGED vars
  BY <1>2 DEF vars, headVars, copyVars, WriterInv, TypeOK, Flow, NoneTwice,
              InOrder
<1> QED
  BY <1>1, <1>2
-----------------------------------------------------------------------------
(***************************************************************************)
(* The request with its log.                                               *)
(***************************************************************************)

\* Around the request the middleware takes only steps of its own.
LEMMA LogStepIsStep ==
  ASSUME LogNext
  PROVE  [Next]_vars
BY DEF LogNext, CountWrite, ReadFromStep, ReadFromEnds, Uncounted, LogEnd,
       Next, Handler, Copier

\* At the start nothing is written, held, copied or counted.
LEMMA LogInitInv == LogInit => LogInv
<1> SUFFICES ASSUME LogInit PROVE LogInv
  OBVIOUS
<1>1. /\ handler = "run" /\ headerSent = FALSE /\ isHTML = FALSE
      /\ ctype = NoType /\ offered = <<>> /\ pipe = <<>>
      /\ pipeClosed = FALSE /\ copier = "copy" /\ held = <<>>
      /\ connected = TRUE /\ body = <<>>
      /\ logged \in {"BEGIN", "skipped"}
      /\ count = 0 /\ copied = 0 /\ ended = 0
  BY DEF LogInit, Init
<1>2. /\ <<>> \in Seq(1..MaxChunks) /\ <<>> \in Seq(Type)
      /\ Len(<<>>) = 0 /\ MaxChunks \in Nat
  BY WriterAssumption
<1>3. TypeOK
  <2>1. /\ headerSent \in BOOLEAN /\ isHTML \in BOOLEAN
        /\ pipeClosed \in BOOLEAN /\ connected \in BOOLEAN
    BY <1>1
  <2>2. /\ Len(offered) <= MaxChunks /\ Len(pipe) <= 1
    BY <1>1, <1>2
  <2> QED
    BY <1>1, <1>2, <2>1, <2>2, Zenon DEF TypeOK
<1>4. Flow
  BY <1>1 DEF Flow
<1>5. NoneTwice
  BY <1>1, <1>2 DEF NoneTwice
<1>6. InOrder
  BY <1>1 DEF InOrder
<1>7. Counted /\ EndCountsAll
  BY <1>1, <1>2 DEF Counted, EndCountsAll
<1> QED
  BY <1>3, <1>4, <1>5, <1>6, <1>7 DEF LogInv, WriterInv
\* Every step keeps what is counted equal to what was sent.
LEMMA LogStep ==
  ASSUME LogInv, [LogNext]_<<vars, logVars>>
  PROVE  LogInv'
<1>1. WriterInv'
  <2>1. [Next]_vars
    BY LogStepIsStep
  <2> QED
    BY <2>1, WriterStep DEF LogInv
<1>2. Len(body) \in Nat /\ Len(body') \in Nat
  BY <1>1 DEF LogInv, WriterInv, TypeOK
<1>3. Counted' /\ EndCountsAll'
  <2>1. CASE CountWrite
    <3>1. PICK t \in Type : WriteOther(t)
      BY <2>1 DEF CountWrite
    <3>2. /\ handler = "run" /\ handler' = handler /\ copier' = copier
          /\ body' = IF connected THEN Append(body, Len(offered) + 1) ELSE body
      BY <3>1 DEF WriteOther, copyVars
    <3>3. Len(body') >= Len(body)
      <4>1. Len(Append(body, Len(offered) + 1)) = Len(body) + 1
        BY DEF LogInv, WriterInv, TypeOK
      <4> QED
        BY <1>2, <3>2, <4>1
    <3>4. /\ logged' = logged /\ copied' = copied /\ ended' = ended
          /\ count' = IF logged = "skipped" THEN count
                      ELSE count + (Len(body') - Len(body))
      BY <2>1 DEF CountWrite, Add
    <3>5. logged # "END"
      BY <3>2 DEF LogInv, Counted
    <3> QED
      BY <1>2, <3>2, <3>3, <3>4, <3>5 DEF LogInv, Counted, EndCountsAll
  <2>2. CASE ReadFromStep
    <3>1. Len(body') = Len(body) + 1
      BY <2>2, CopyWriteStep DEF ReadFromStep, LogInv
    <3>2. /\ copier = "copy" /\ copier' = copier /\ handler' = handler
          /\ logged' = logged /\ copied' = copied + 1 /\ ended' = ended
          /\ count' = count
      BY <2>2 DEF ReadFromStep, CopyWrite
    <3>3. logged # "END"
      BY <3>2 DEF LogInv, WriterInv, Flow, Counted
    <3> QED
      BY <1>2, <3>1, <3>2, <3>3 DEF LogInv, Counted, EndCountsAll
  <2>3. CASE ReadFromEnds
    <3>1. /\ body' = body /\ handler' = handler /\ copier' = "done"
          /\ copier = "copy" /\ logged' = logged /\ ended' = ended
          /\ copied' = 0
          /\ count' = IF logged = "skipped" THEN count ELSE count + copied
      BY <2>3 DEF ReadFromEnds, Add, CopyEOF, CopyFails
    <3>2. logged # "END"
      BY <3>1 DEF LogInv, WriterInv, Flow, Counted
    <3> QED
      BY <1>2, <3>1, <3>2 DEF LogInv, Counted, EndCountsAll
  <2>4. CASE Uncounted
    <3>1. UNCHANGED <<body, copier, logged, count, copied, ended>>
      BY <2>4 DEF Uncounted, SetContentType, WriteHTML, WriteHeader, Close,
                  CloseDone, CopyRead, ClientLeaves, copyVars, logVars
    <3>2. handler = "returned" => handler' = "returned"
      BY <2>4 DEF Uncounted, SetContentType, WriteHTML, WriteHeader, Close,
                  CloseDone, CopyRead, ClientLeaves, LogInv, WriterInv, Flow
    <3> QED
      BY <1>2, <3>1, <3>2 DEF LogInv, Counted, EndCountsAll
  <2>5. CASE LogEnd
    <3>1. /\ handler = "returned" /\ logged = "BEGIN" /\ logged' = "END"
          /\ ended' = count
          /\ UNCHANGED <<handler, copier, body, count, copied>>
      BY <2>5 DEF LogEnd, vars, copyVars
    <3>2. copied = 0
      BY <3>1 DEF LogInv, WriterInv, Flow, Counted
    <3> QED
      BY <1>2, <3>1, <3>2 DEF LogInv, Counted, EndCountsAll
  <2>6. CASE UNCHANGED <<vars, logVars>>
    BY <2>6 DEF vars, copyVars, logVars, LogInv, Counted, EndCountsAll
  <2> QED
    BY <2>1, <2>2, <2>3, <2>4, <2>5, <2>6 DEF LogNext
<1> QED
  BY <1>1, <1>3 DEF LogInv

\* The invariant implies what is claimed of the states.
LEMMA LogInvImplies ==
  ASSUME LogInv
  PROVE  LogTypeOK /\ InOrder /\ CompleteOnReturn /\ EndCountsAll
<1>1. /\ Len(body) \in Nat /\ Len(held) \in Nat /\ Len(pipe) \in Nat
      /\ Len(offered) \in Nat /\ Len(offered) <= MaxChunks
      /\ MaxChunks \in Nat
  BY WriterAssumption DEF LogInv, WriterInv, TypeOK
<1>2. Len(body) <= MaxChunks
  BY <1>1 DEF LogInv, WriterInv, NoneTwice
<1>3. LogTypeOK
  <2>1. count \in 0..MaxChunks /\ copied \in 0..MaxChunks
    BY <1>1, <1>2 DEF LogInv, Counted
  <2>2. ended \in 0..MaxChunks
    BY <1>1, <1>2 DEF LogInv, Counted, EndCountsAll
  <2> QED
    BY <2>1, <2>2 DEF LogInv, WriterInv, Counted, LogTypeOK
<1>4. CompleteOnReturn
  <2> SUFFICES ASSUME handler = "returned"
               PROVE  /\ copier = "done"
                      /\ connected => body = Numbers(Len(offered))
    BY DEF CompleteOnReturn, Numbers
  <2>1. copier = "done" /\ pipe = <<>>
    BY DEF LogInv, WriterInv, Flow
  <2>2. ASSUME connected PROVE body = Numbers(Len(offered))
    <3>1. held = <<>> /\ body \in Seq(1..MaxChunks)
      BY <2>1, <2>2 DEF LogInv, WriterInv, Flow, TypeOK
    <3>2. body \o held \o pipe = body
      BY <2>1, <3>1, ConcatEmptySeq
    <3> QED
      BY <2>2, <3>2 DEF LogInv, WriterInv, InOrder, Numbers
  <2> QED
    BY <2>1, <2>2
<1> QED
  BY <1>3, <1>4 DEF LogInv, WriterInv

-----------------------------------------------------------------------------
\* The invariant holds of every request.
LEMMA LogInvariant == LogSpec => []LogInv
  BY LogInitInv, LogStep, PTL DEF LogSpec

\* The fields of the writer, the pipe of one chunk, the counter and the log
\* keep their types.
THEOREM LogTypeCorrect == LogSpec => []LogTypeOK
  BY LogInvariant, LogInvImplies, PTL

\* The two ways to the connection keep the order of the handler's chunks and,
\* while the connection lasts, lose none.
THEOREM KeepsOrder == LogSpec => []InOrder
  BY LogInvariant, LogInvImplies, PTL

\* When the request returns, the copier has ended and the whole response is on
\* the connection, if it lasted.
THEOREM CompleteWhenReturned == LogSpec => []CompleteOnReturn
  BY LogInvariant, LogInvImplies, PTL

\* The END line of LoggerMiddleware tells the size the connection took, also
\* when it broke.
THEOREM EndLineCounts == LogSpec => []EndCountsAll
  BY LogInvariant, LogInvImplies, PTL
=============================================================================
