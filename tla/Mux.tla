--------------------------------- MODULE Mux ---------------------------------
(***************************************************************************)
(* The request router of razvhost, pkg/mux/mux.go.                         *)
(*                                                                         *)
(* Every method takes Mux.mtx first (Add and Remove exclusively, the       *)
(* others shared) and keeps it until it returns, so a method is one        *)
(* action.  A *muxEntry is a position in heap, the sequence of the         *)
(* muxEntry structs allocated so far; 0 is the nil pointer.                *)
(***************************************************************************)
EXTENDS Integers, Sequences, SequencesExt

CONSTANTS
  Path, Request, Host, Id, NoHandler,
  PathLen, WildcardPaths, MatchSet,
  HostMatchSet,   \* the host names the first part of a path matches
  CounterSize,    \* number of values of muxEntry.next, 2^32 in the code
  MaxEntries,     \* bound: muxEntry structs ever allocated
  MaxHandlers     \* bound: handlers of one muxEntry

ASSUME PathAssumption ==
  /\ PathLen \in [Path -> Nat]
  /\ WildcardPaths \subseteq Path
  /\ MatchSet \in [Path -> SUBSET Request]
  /\ HostMatchSet \in [Path -> SUBSET Host]

ASSUME HandlerAssumption == NoHandler \notin Id

ASSUME BoundAssumption ==
  /\ CounterSize \in Nat \ {0}
  /\ MaxEntries \in Nat
  /\ MaxHandlers \in Nat

VARIABLES
  heap,      \* the muxEntry structs
  entries,   \* Mux.entries: pointers in the order Handler tries them
  entryMap,  \* Mux.entryMap: the pointer stored for a path, or nil
  served     \* the last request of Mux.Handler and the handler it returned

vars == <<heap, entries, entryMap, served>>

Nil == 0

Answer == [request : Request, handler : Id \cup {NoHandler}]

MuxEntry == [path : Path, handlers : Seq(Id), next : 0..CounterSize - 1]

Init ==
  /\ heap = <<>>
  /\ entries = <<>>
  /\ entryMap = [p \in Path |-> Nil]
  /\ served = NoHandler

-----------------------------------------------------------------------------
(***************************************************************************)
(* Mux.Add.                                                                *)
(***************************************************************************)

\* Mutant of Precedes: the length test is missing, the newest entry goes
\* in front.
PrecedesNewest(p, r) == ~(p \in WildcardPaths /\ heap[r].path \notin WildcardPaths)

\* The test of Add's loop: a new entry for p goes in front of entry r.
Precedes(p, r) ==
  /\ ~(p \in WildcardPaths /\ heap[r].path \notin WildcardPaths)
  /\ PathLen[p] > PathLen[heap[r].path]

\* The place in entries where Add puts a new entry for p: in front of the
\* first entry it precedes, at the end if there is none.  One element.
InsertPos(p) ==
  {i \in 1..Len(entries) + 1 :
     /\ \A j \in 1..i - 1 : ~Precedes(p, entries[j])
     /\ i <= Len(entries) => Precedes(p, entries[i])}

\* Mutant of AddEntry: the entry is indexed but not listed when it does not
\* precede any other (the append after the loop is missing).
AddEntryUnlisted(p, id) ==
  /\ entryMap[p] = Nil
  /\ Len(heap) < MaxEntries
  /\ heap' = Append(heap, [path |-> p, handlers |-> <<id>>, next |-> 0])
  /\ entryMap' = [entryMap EXCEPT ![p] = Len(heap) + 1]
  /\ \E i \in InsertPos(p) :
       entries' = IF i > Len(entries) /\ entries # <<>>
                  THEN entries
                  ELSE InsertAt(entries, i, Len(heap) + 1)
  /\ UNCHANGED served

\* The path has no entry yet: allocate one, index it, list it.
AddEntry(p, id) ==
  /\ entryMap[p] = Nil
  /\ Len(heap) < MaxEntries
  /\ heap' = Append(heap, [path |-> p, handlers |-> <<id>>, next |-> 0])
  /\ entryMap' = [entryMap EXCEPT ![p] = Len(heap) + 1]
  /\ \E i \in InsertPos(p) : entries' = InsertAt(entries, i, Len(heap) + 1)
  /\ UNCHANGED served

\* muxEntry.add
EntryAdd(r, id) == Append(heap[r].handlers, id)

\* The path has an entry.
AddHandler(p, id) ==
  /\ entryMap[p] # Nil
  /\ Len(heap[entryMap[p]].handlers) < MaxHandlers
  /\ heap' = [heap EXCEPT ![entryMap[p]].handlers = EntryAdd(entryMap[p], id)]
  /\ UNCHANGED <<entries, entryMap, served>>

MuxAdd(p, id) == AddEntry(p, id) \/ AddHandler(p, id)

-----------------------------------------------------------------------------
(***************************************************************************)
(* Mux.Remove.  An entry that loses its last handler leaves entryMap but   *)
(* stays in entries.                                                       *)
(***************************************************************************)

\* muxEntry.remove: the first handler with that id, if there is one.
EntryRemove(r, id) == RemoveFirst(heap[r].handlers, id)

\* Mutant of RemoveHandler: the index entry goes with the first handler.
RemoveHandlerAndIndex(p, id) ==
  /\ entryMap[p] # Nil
  /\ heap' = [heap EXCEPT ![entryMap[p]].handlers = EntryRemove(entryMap[p], id)]
  /\ entryMap' = [entryMap EXCEPT ![p] = Nil]
  /\ UNCHANGED <<entries, served>>

RemoveHandler(p, id) ==
  /\ entryMap[p] # Nil
  /\ LET left == EntryRemove(entryMap[p], id) IN
       /\ heap' = [heap EXCEPT ![entryMap[p]].handlers = left]
       /\ entryMap' = IF left = <<>>
                      THEN [entryMap EXCEPT ![p] = Nil]
                      ELSE entryMap
  /\ UNCHANGED <<entries, served>>

\* No entry for the path: nothing to remove.
RemoveUnknown(p, id) ==
  /\ entryMap[p] = Nil
  /\ UNCHANGED vars

MuxRemove(p, id) == RemoveHandler(p, id) \/ RemoveUnknown(p, id)

-----------------------------------------------------------------------------
(***************************************************************************)
(* Mux.Handler and muxEntry.handler.                                       *)
(***************************************************************************)

\* An entry that answers: it matches and has a handler to give.
Answers(r, q) == q \in MatchSet[heap[r].path] /\ heap[r].handlers # <<>>

\* Mutant of NextTurn: the counter outgrows its width.
NextTurnUnwrapped(r) == heap[r].next + 1

\* Mutant of NextTurn: the counter is advanced twice for one request.
NextTurnTwice(r) == (heap[r].next + 2) % CounterSize

\* muxEntry.handler: advance the wrapping counter, then index by it.
NextTurn(r) == (heap[r].next + 1) % CounterSize

\* Mutant of Turn: the last handler is left out of a pool of several.
TurnShort(r) ==
  LET n == Len(heap[r].handlers) IN
  (NextTurn(r) % (IF n > 1 THEN n - 1 ELSE 1)) + 1

Turn(r) == (NextTurn(r) % Len(heap[r].handlers)) + 1

\* Mutant of HandlerFound: the walk goes on after a handler is found, the
\* last answer wins.
HandlerFoundLast(q) ==
  \E i \in 1..Len(entries) :
    /\ Answers(entries[i], q)
    /\ \A j \in i + 1..Len(entries) : ~Answers(entries[j], q)
    /\ heap' = [heap EXCEPT ![entries[i]].next = NextTurn(entries[i])]
    /\ served' = [request |-> q,
                  handler |-> heap[entries[i]].handlers[Turn(entries[i])]]
    /\ UNCHANGED <<entries, entryMap>>

HandlerFound(q) ==
  \E i \in 1..Len(entries) :
    /\ Answers(entries[i], q)
    /\ \A j \in 1..i - 1 : ~Answers(entries[j], q)
    /\ heap' = [heap EXCEPT ![entries[i]].next = NextTurn(entries[i])]
    /\ served' = [request |-> q,
                  handler |-> heap[entries[i]].handlers[Turn(entries[i])]]
    /\ UNCHANGED <<entries, entryMap>>

HandlerNil(q) ==
  /\ \A i \in 1..Len(entries) : ~Answers(entries[i], q)
  /\ served' = [request |-> q, handler |-> NoHandler]
  /\ UNCHANGED <<heap, entries, entryMap>>

MuxHandler(q) == HandlerFound(q) \/ HandlerNil(q)

\* Mux.ContainsHost: false after a match, false without one.
ContainsHost(h) ==
  IF \E i \in 1..Len(entries) : h \in HostMatchSet[heap[entries[i]].path]
  THEN FALSE
  ELSE FALSE

\* Server.ValidateHost returns no error: a certificate may be issued for h.
ValidateHost(h) == ContainsHost(h)

-----------------------------------------------------------------------------

Next ==
  \/ \E p \in Path, id \in Id : MuxAdd(p, id) \/ MuxRemove(p, id)
  \/ \E q \in Request : MuxHandler(q)

Spec == Init /\ [][Next]_vars

-----------------------------------------------------------------------------
\* The refinement mapping to the abstract router: the pool of a path is the
\* handlers of the entry it is indexed to.
Routes == INSTANCE RouteTable WITH
  routes <- [p \in Path |->
               IF entryMap[p] = Nil THEN <<>> ELSE heap[entryMap[p]].handlers]

-----------------------------------------------------------------------------
(***************************************************************************)
(* Properties.                                                             *)
(***************************************************************************)

\* Types of the Mux and muxEntry fields of pkg/mux/mux.go.
TypeOK ==
  /\ heap \in Seq(MuxEntry)
  /\ entries \in Seq(1..Len(heap))
  /\ entryMap \in [Path -> 0..Len(heap)]
  /\ served \in Answer \cup {NoHandler}

\* The index of Add and Remove and the entries Handler walks agree: an entry
\* has handlers exactly when entryMap leads to it from its own path, and
\* entryMap leads from a path only to an entry made for it.  In particular
\* the entries Remove leaves behind in Mux.entries are empty, so Handler falls
\* through them, and no path ever has two answering entries.
IndexSound ==
  /\ \A r \in 1..Len(heap) :
       heap[r].handlers # <<>> <=> entryMap[heap[r].path] = r
  /\ \A p \in Path : entryMap[p] # Nil => heap[entryMap[p]].path = p

\* Every muxEntry Add made is in Mux.entries, once: the shifting append of
\* Add neither loses nor repeats one, so every live route can be reached.
ListedOnce ==
  /\ \A r \in 1..Len(heap) : \E i \in 1..Len(entries) : entries[i] = r
  /\ \A i, j \in 1..Len(entries) : entries[i] = entries[j] => i = j

\* The order Add keeps in Mux.entries, whatever the sequence of Adds and
\* Removes: of two entries the later one is not longer, unless it is a
\* wildcard entry behind a plain one.
Precedence ==
  \A i, j \in 1..Len(entries) :
    i < j => Routes!Outranks(heap[entries[i]].path, heap[entries[j]].path)

\* The router promised to the server: every request is answered from the pool
\* of the best path matching it, with the pools Add and Remove leave.
ImplementsRouteTable == Routes!Spec

\* Server.ValidateHost, the HostPolicy of the certificate manager, accepts the
\* host name of every live route.
LiveHostAccepted ==
  \A h \in Host :
    (\E p \in Path : entryMap[p] # Nil /\ h \in HostMatchSet[p])
      => ValidateHost(h)
=============================================================================
