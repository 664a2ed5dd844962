---------------------------- MODULE PrefixWriter ----------------------------
(***************************************************************************)
(* One response through pathPrefixHTMLResponseWriter                       *)
(* (pkg/stream/pathprefixwriter.go), as handlePathCombinations and         *)
(* Server.Debug use it: the goroutine of the request runs the handler and  *)
(* then Close, a second goroutine copies what was written as HTML through  *)
(* a pipe and the HTMLStreamer to the connection.                          *)
(*                                                                         *)
(* A chunk is the argument of one Write.  It is told from the others by    *)
(* its number, and its value is the type http.DetectContentType sees.      *)
(***************************************************************************)
EXTENDS Integers, Sequences, SequencesExt

CONSTANTS
  HTML,            \* the type text/html
  OtherType,       \* the other content types
  NoType,          \* no Content-Type header
  ClientMayLeave,  \* TRUE: the connection may break
  MaxChunks        \* bound: Writes of the handler

ASSUME WriterAssumption ==
  /\ HTML \notin OtherType /\ NoType \notin OtherType \cup {HTML}
  /\ ClientMayLeave \in BOOLEAN
  /\ MaxChunks \in Nat

Type == OtherType \cup {HTML}

VARIABLES
  handler,     \* the request: "run", "pipe" (in PipeWriter.Write), "close"
               \* (in WaitGroup.Wait) or "returned"
  headerSent, isHTML,   \* the fields of the writer
  ctype,       \* the Content-Type header
  offered,     \* the chunks the handler has written
  pipe,        \* the chunk in the pipe, as a sequence of at most one
  pipeClosed,  \* PipeWriter.Close was called
  copier,      \* the copying goroutine: "copy" or "done"
  held,        \* chunks the tokenizer has read and the copier not written
  connected,   \* writes to the connection succeed
  body         \* the chunks the connection took

headVars == <<headerSent, isHTML, ctype>>
copyVars == <<copier, held>>
vars == <<handler, headVars, offered, pipe, pipeClosed, copyVars, connected,
          body>>

Init ==
  /\ handler = "run"
  /\ headerSent = FALSE /\ isHTML = FALSE
  /\ ctype = NoType
  /\ offered = <<>>
  /\ pipe = <<>> /\ pipeClosed = FALSE
  /\ copier = "copy" /\ held = <<>>
  /\ connected = TRUE
  /\ body = <<>>

-----------------------------------------------------------------------------
(***************************************************************************)
(* The handler's calls.                                                    *)
(***************************************************************************)
SetContentType(t) ==
  /\ handler = "run"
  /\ ctype' = t
  /\ UNCHANGED <<handler, headerSent, isHTML, offered, pipe, pipeClosed,
                 copyVars, connected, body>>

\* WriteHeader with the Content-Type t.
SendHeader(t) ==
  /\ headerSent' = TRUE
  /\ ctype' = t
  /\ isHTML' = (isHTML \/ t = HTML)

\* It may be called again (after a status 1xx), with another type.
WriteHeader ==
  /\ handler = "run"
  /\ SendHeader(ctype)
  /\ UNCHANGED <<handler, offered, pipe, pipeClosed, copyVars, connected, body>>

\* The first Write sends the header, with the type it detects.
HeaderOfWrite(t) ==
  IF headerSent THEN UNCHANGED headVars ELSE SendHeader(t)

\* Mutant of WriteHTML: the Write does not wait for the copier.
WriteHTMLUnwaited(t) ==
  /\ handler = "run"
  /\ Len(offered) < MaxChunks
  /\ HeaderOfWrite(t)
  /\ isHTML'
  /\ offered' = Append(offered, t)
  /\ pipe' = Append(pipe, Len(offered) + 1)
  /\ UNCHANGED <<handler, pipeClosed, copyVars, connected, body>>

\* A Write of HTML waits in the pipe for the copier.
WriteHTML(t) ==
  /\ handler = "run"
  /\ Len(offered) < MaxChunks
  /\ HeaderOfWrite(t)
  /\ isHTML'
  /\ offered' = Append(offered, t)
  /\ pipe' = <<Len(offered) + 1>>
  /\ handler' = "pipe"
  /\ UNCHANGED <<pipeClosed, copyVars, connected, body>>

\* Anything else goes to the connection at once.
WriteOther(t) ==
  /\ handler = "run"
  /\ Len(offered) < MaxChunks
  /\ HeaderOfWrite(t)
  /\ ~isHTML'
  /\ offered' = Append(offered, t)
  /\ body' = IF connected THEN Append(body, Len(offered) + 1) ELSE body
  /\ UNCHANGED <<handler, pipe, pipeClosed, copyVars, connected>>

\* Mutant of Close: the pipe is not closed.
CloseForgetsPipe ==
  /\ handler = "run"
  /\ handler' = "close"
  /\ UNCHANGED <<headVars, offered, pipe, pipeClosed, copyVars, connected, body>>

\* The handler returns and the deferred Close closes the pipe.
Close ==
  /\ handler = "run"
  /\ pipeClosed' = TRUE
  /\ handler' = "close"
  /\ UNCHANGED <<headVars, offered, pipe, copyVars, connected, body>>

\* Mutant of CloseDone: Close does not wait for the copier.
CloseDoneUnwaited ==
  /\ handler = "close"
  /\ handler' = "returned"
  /\ UNCHANGED <<headVars, offered, pipe, pipeClosed, copyVars, connected, body>>

\* Close is past WaitGroup.Wait.
CloseDone ==
  /\ handler = "close"
  /\ copier = "done"
  /\ handler' = "returned"
  /\ UNCHANGED <<headVars, offered, pipe, pipeClosed, copyVars, connected, body>>

-----------------------------------------------------------------------------
(***************************************************************************)
(* The copying goroutine.  The tokenizer may read on while it holds chunks *)
(* (the last one may end inside a token), and gives up everything it holds *)
(* when the pipe is closed.                                                *)
(***************************************************************************)

\* Mutant of CopyRead: a chunk that ends inside a token is dropped.
CopyReadDropsPartial ==
  /\ copier = "copy"
  /\ pipe # <<>>
  /\ held' = pipe
  /\ pipe' = <<>>
  /\ handler' = "run"
  /\ UNCHANGED <<headVars, offered, pipeClosed, copier, connected, body>>

\* The pipe hands its chunk over and the handler's Write returns.
CopyRead ==
  /\ copier = "copy"
  /\ pipe # <<>>
  /\ held' = held \o pipe
  /\ pipe' = <<>>
  /\ handler' = "run"
  /\ UNCHANGED <<headVars, offered, pipeClosed, copier, connected, body>>

CopyWrite ==
  /\ copier = "copy"
  /\ held # <<>>
  /\ connected
  /\ body' = Append(body, Head(held))
  /\ held' = Tail(held)
  /\ UNCHANGED <<handler, headVars, offered, pipe, pipeClosed, copier, connected>>

\* The connection refuses: io.Copy returns, the goroutine ends, and nobody
\* reads the pipe any more.
CopyFails ==
  /\ copier = "copy"
  /\ held # <<>>
  /\ ~connected
  /\ copier' = "done"
  /\ UNCHANGED <<handler, headVars, offered, pipe, pipeClosed, held, connected,
                 body>>

CopyEOF ==
  /\ copier = "copy"
  /\ pipeClosed /\ held = <<>>
  /\ copier' = "done"
  /\ UNCHANGED <<handler, headVars, offered, pipe, pipeClosed, held, connected,
                 body>>

ClientLeaves ==
  /\ ClientMayLeave
  /\ connected
  /\ connected' = FALSE
  /\ UNCHANGED <<handler, headVars, offered, pipe, pipeClosed, copyVars, body>>

-----------------------------------------------------------------------------
Handler ==
  \/ \E t \in Type : SetContentType(t) \/ WriteHTML(t) \/ WriteOther(t)
  \/ WriteHeader
  \/ Close
  \/ CloseDone

Copier == CopyRead \/ CopyWrite \/ CopyFails \/ CopyEOF

Next == Handler \/ Copier \/ ClientLeaves

\* A handler returns in the end, and both goroutines run while they can.
Spec ==
  /\ Init /\ [][Next]_vars
  /\ WF_vars(Close) /\ WF_vars(CloseDone) /\ WF_vars(Copier)

-----------------------------------------------------------------------------
(***************************************************************************)
(* Properties.                                                             *)
(***************************************************************************)

\* Types of the writer's fields and of the pipe.
TypeOK ==
  /\ handler \in {"run", "pipe", "close", "returned"}
  /\ headerSent \in BOOLEAN /\ isHTML \in BOOLEAN
  /\ ctype \in Type \cup {NoType}
  /\ offered \in Seq(Type) /\ Len(offered) <= MaxChunks
  /\ pipe \in Seq(1..MaxChunks) /\ Len(pipe) <= 1
  /\ pipeClosed \in BOOLEAN
  /\ copier \in {"copy", "done"}
  /\ held \in Seq(1..MaxChunks)
  /\ connected \in BOOLEAN
  /\ body \in Seq(1..MaxChunks)

\* The chunks taken, held and offered are, in this order, the handler's
\* chunks: the two ways to the connection never overtake each other, and as
\* long as the connection lasts nothing is lost on either.
InOrder ==
  connected => body \o held \o pipe = [i \in 1..Len(offered) |-> i]

\* When the request returns with the connection intact, and net/http may
\* reuse the connection, the whole response is on it and nobody writes to it
\* any more.
CompleteOnReturn ==
  handler = "returned" =>
    /\ copier = "done"
    /\ connected => body = [i \in 1..Len(offered) |-> i]

\* A request whose client stays comes to its end and frees both goroutines.
ServedRequestReturns == <>(handler = "returned" \/ ~connected)

\* Every request comes to its end, also when the client leaves.
RequestReturns == <>(handler = "returned")
=============================================================================
