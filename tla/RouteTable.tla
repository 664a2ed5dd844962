----------------------------- MODULE RouteTable -----------------------------
(***************************************************************************)
(* What razvhost's router promises, without saying how: for every          *)
(* registered path a list of handler ids (the load-balancing pool), and a  *)
(* lookup that answers from the pool of a matching path that no other      *)
(* matching path outranks.                                                 *)
(*                                                                         *)
(* Module Mux, the translation of pkg/mux/mux.go, is shown to implement    *)
(* this specification; module ConfigReload uses it in place of Mux.        *)
(***************************************************************************)
EXTENDS Integers, Sequences, SequencesExt

CONSTANTS
  Path,           \* paths handlers can be registered under
  Request,        \* host + URL path of a request
  Id,             \* handler ids: the target URLs
  NoHandler,      \* the nil handler
  PathLen,        \* length of a path in bytes
  WildcardPaths,  \* the paths holding one of the characters *?[]
  MatchSet        \* the requests a path matches

VARIABLES
  routes,         \* the pool of handler ids of every path
  served          \* the last request looked up and the answer it got

vars == <<routes, served>>

(***************************************************************************)
(* The precedence between two matching paths: a plain path outranks every  *)
(* wildcard path, and any path outranks the paths that are not longer.  A  *)
(* plain path and a longer wildcard path outrank each other: which of them *)
(* answers is left open, because in the code it depends on the order in    *)
(* which the two were registered.                                          *)
(***************************************************************************)
Outranks(p, o) ==
  \/ p \notin WildcardPaths /\ o \in WildcardPaths
  \/ PathLen[p] >= PathLen[o]

Candidates(q) == {p \in Path : routes[p] # <<>> /\ q \in MatchSet[p]}

Init ==
  /\ routes = [p \in Path |-> <<>>]
  /\ served = NoHandler

Register(p, id) ==
  /\ routes' = [routes EXCEPT ![p] = Append(@, id)]
  /\ UNCHANGED served

Unregister(p, id) ==
  /\ routes' = [routes EXCEPT ![p] = RemoveFirst(@, id)]
  /\ UNCHANGED served

Lookup(q) ==
  /\ \/ /\ Candidates(q) = {}
        /\ served' = [request |-> q, handler |-> NoHandler]
     \/ \E p \in Candidates(q) :
          /\ \A o \in Candidates(q) : Outranks(p, o)
          /\ \E i \in 1..Len(routes[p]) :
               served' = [request |-> q, handler |-> routes[p][i]]
  /\ UNCHANGED routes

Next ==
  \/ \E p \in Path, id \in Id : Register(p, id) \/ Unregister(p, id)
  \/ \E q \in Request : Lookup(q)

Spec == Init /\ [][Next]_vars
=============================================================================
