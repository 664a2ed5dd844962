----------------------------- MODULE MuxBalance -----------------------------
(***************************************************************************)
(* The load balancing of muxEntry.handler (pkg/mux/mux.go).  Mux is        *)
(* observed, not changed: recent holds, for every muxEntry, its last picks *)
(* since its handlers last changed.                                        *)
(***************************************************************************)
EXTENDS Mux

VARIABLE recent

bvars == <<vars, recent>>

\* Picks remembered of an entry: enough to see every handler of a full pool
\* come round, whatever the counter does.
Span == 2 * MaxHandlers - 1

LastOf(s, n) == IF Len(s) <= n THEN s ELSE SubSeq(s, Len(s) - n + 1, Len(s))

\* One observation: the value the counter took and the handler it chose.
Pick(r) == [turn |-> NextTurn(r), at |-> Turn(r)]

Observe(r) ==
  IF r \notin DOMAIN heap \/ r \notin DOMAIN heap'
  THEN <<>>
  ELSE CASE heap'[r].handlers # heap[r].handlers -> <<>>
         [] heap'[r] = heap[r] -> recent[r]
         [] OTHER -> LastOf(Append(recent[r], Pick(r)), Span)

BalanceInit == Init /\ recent = [r \in 1..MaxEntries |-> <<>>]

BalanceNext == Next /\ recent' = [r \in 1..MaxEntries |-> Observe(r)]

BalanceSpec == BalanceInit /\ [][BalanceNext]_bvars

-----------------------------------------------------------------------------
\* The picks from i on that a pool of n handlers should share evenly.
Round(r, i, n) == SubSeq(recent[r], i, i + n - 1)

\* Round robin: n consecutive picks of an unchanged pool of n handlers choose
\* every handler exactly once, however the requests for other paths, the adds
\* and the removes interleave, unless muxEntry.next wraps around among them.
RoundRobin ==
  \A r \in DOMAIN heap :
    LET n == Len(heap[r].handlers) IN
    \A i \in 1..Len(recent[r]) - n + 1 :
      LET round == Round(r, i, n) IN
      (n > 0 /\ round[1].turn <= round[n].turn)
        => {round[k].at : k \in 1..n} = 1..n

\* Even across the wrap of muxEntry.next, where the round is cut short, every
\* handler of an unchanged pool of n is chosen within 2n - 1 picks.
NoStarvation ==
  \A r \in DOMAIN heap :
    LET n == Len(heap[r].handlers)
        m == 2 * n - 1 IN
    \A i \in 1..Len(recent[r]) - m + 1 :
      n > 0 => {Round(r, i, m)[k].at : k \in 1..m} = 1..n
=============================================================================
