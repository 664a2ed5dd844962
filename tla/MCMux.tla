-------------------------------- MODULE MCMux --------------------------------
(***************************************************************************)
(* Small instance of Mux: plain and wildcard paths of two lengths whose    *)
(* matches overlap, real string matching from PathMatch.                   *)
(***************************************************************************)
EXTENDS Mux, PathMatch

\* a, a/b, * and */b
MCPath == {<<"a">>, <<"a", "/", "b">>, <<"*">>, <<"*", "/", "b">>}

\* a/b, a/c and c/b
MCRequest == {<<"a", "/", "b">>, <<"a", "/", "c">>, <<"c", "/", "b">>}

MCHost == {<<"a">>, <<"c">>}

MCPathLen == [p \in MCPath |-> Len(p)]

MCWildcardPaths == {p \in MCPath : IsWildcard(p)}

MCMatchSet == [p \in MCPath |-> {q \in MCRequest : Match(p, q)}]

MCSymmetry == Permutations(Id)

MCHostMatchSet == [p \in MCPath |-> {h \in MCHost : MatchHost(p, h)}]
=============================================================================
