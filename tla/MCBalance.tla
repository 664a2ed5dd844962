------------------------------ MODULE MCBalance ------------------------------
(***************************************************************************)
(* Small instance of MuxBalance: two nested paths, a pool of up to three   *)
(* handlers, and a counter whose size is not a multiple of every pool size.*)
(***************************************************************************)
EXTENDS MuxBalance, PathMatch

\* a and a/b
MCPath == {<<"a">>, <<"a", "/", "b">>}

\* a/b and a/c
MCRequest == {<<"a", "/", "b">>, <<"a", "/", "c">>}

MCHost == {<<"a">>}

MCPathLen == [p \in MCPath |-> Len(p)]

MCWildcardPaths == {p \in MCPath : IsWildcard(p)}

MCMatchSet == [p \in MCPath |-> {q \in MCRequest : Match(p, q)}]

MCHostMatchSet == [p \in MCPath |-> {h \in MCHost : MatchHost(p, h)}]
=============================================================================
