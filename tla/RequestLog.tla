----------------------------- MODULE RequestLog -----------------------------
(***************************************************************************)
(* LoggerMiddleware (pkg/logger/logger.go) around the request of           *)
(* PrefixWriter, and the ResponseWriterCounter                             *)
(* (pkg/util/responsewritercounter.go) it puts under the response writer.  *)
(* Two goroutines use the counter: the handler through Write, the copier   *)
(* through ReadFrom, which io.Copy prefers and which counts at its end.    *)
(* Bytes are counted in chunks.                                            *)
(***************************************************************************)
EXTENDS PrefixWriter

VARIABLES
  logged,  \* the log has "BEGIN" or "END" of the request, or the request is
           \* for /favicon.ico and "skipped"
  count,   \* ResponseWriterCounter.count
  copied,  \* n of the ReadFrom that is under way
  ended    \* the size of the response in the END line

logVars == <<logged, count, copied, ended>>

LogInit ==
  /\ Init
  /\ logged \in {"BEGIN", "skipped"}
  /\ count = 0 /\ copied = 0 /\ ended = 0

\* Counts n, if there is a counter.
Add(n) == count' = IF logged = "skipped" THEN count ELSE count + n

\* ResponseWriterCounter.Write
CountWrite ==
  /\ \E t \in Type : WriteOther(t)
  /\ Add(Len(body') - Len(body))
  /\ UNCHANGED <<logged, copied, ended>>

\* ResponseWriterCounter.ReadFrom takes another chunk.
ReadFromStep ==
  /\ CopyWrite
  /\ copied' = copied + 1
  /\ UNCHANGED <<logged, count, ended>>

\* Mutant of ReadFromEnds: after an error nothing is counted.
ReadFromEndsUncounted ==
  /\ CopyEOF \/ CopyFails
  /\ IF connected THEN Add(copied) ELSE UNCHANGED count
  /\ copied' = 0
  /\ UNCHANGED <<logged, ended>>

\* ReadFrom returns, with or without an error.
ReadFromEnds ==
  /\ CopyEOF \/ CopyFails
  /\ Add(copied)
  /\ copied' = 0
  /\ UNCHANGED <<logged, ended>>

LogEnd ==
  /\ handler = "returned"
  /\ logged = "BEGIN"
  /\ logged' = "END"
  /\ ended' = count
  /\ UNCHANGED <<vars, count, copied>>

\* The steps of the request that pass the counter by.
Uncounted ==
  /\ \/ \E t \in Type : SetContentType(t) \/ WriteHTML(t)
     \/ WriteHeader \/ Close \/ CloseDone \/ CopyRead \/ ClientLeaves
  /\ UNCHANGED logVars

LogCopier ==
  \/ ReadFromStep \/ ReadFromEnds
  \/ CopyRead /\ UNCHANGED logVars

LogNext == CountWrite \/ ReadFromStep \/ ReadFromEnds \/ Uncounted \/ LogEnd

\* The fairness of PrefixWriter, and the middleware goes on.
LogSpec ==
  /\ LogInit /\ [][LogNext]_<<vars, logVars>>
  /\ WF_vars(Close /\ UNCHANGED logVars)
  /\ WF_vars(CloseDone /\ UNCHANGED logVars)
  /\ WF_vars(LogCopier)
  /\ WF_logVars(LogEnd)

\* Types of the counter and of the log.
LogTypeOK ==
  /\ TypeOK
  /\ logged \in {"BEGIN", "END", "skipped"}
  /\ count \in 0..MaxChunks /\ copied \in 0..MaxChunks
  /\ ended \in 0..MaxChunks
  /\ logged = "skipped" => count = 0

\* The END line tells the size of the response as the connection took it, of
\* both ways to it and also when the connection broke, although the copier
\* adds its part only at its end.
EndCountsAll == logged = "END" => ended = Len(body)
=============================================================================
