------------------------------ MODULE PathMatch ------------------------------
(***************************************************************************)
(* How a registered path is compared with a request (pkg/mux/mux.go,       *)
(* muxEntry.match and muxEntry.matchHost).  A string is a sequence of      *)
(* characters, a character a TLA+ string of length one.                    *)
(***************************************************************************)
EXTENDS Integers, Sequences, SequencesExt, FiniteSets

WildcardChars == {"*", "?", "[", "]"}

IsWildcard(path) == ToSet(path) \cap WildcardChars # {}

\* The positions of the slashes of s.
Slashes(s) == {i \in DOMAIN s : s[i] = "/"}

\* len(strings.Split(s, "/"))
PartCount(s) == Cardinality(Slashes(s)) + 1

\* strings.Join(strings.Split(s, "/")[:n], "/"), for n <= PartCount(s).
FirstParts(s, n) ==
  IF n = PartCount(s)
  THEN s
  ELSE LET cut == CHOOSE i \in Slashes(s) :
                    Cardinality({j \in Slashes(s) : j <= i}) = n
       IN  SubSeq(s, 1, cut - 1)

(***************************************************************************)
(* filepath.Match of Go's standard library for patterns of literals, "*"   *)
(* and "?": neither crosses a slash.  A bracket needs a closing partner;   *)
(* without one filepath.Match answers ErrBadPattern, which the caller      *)
(* drops, and no match.  Character classes are not modelled.               *)
(***************************************************************************)
GlobMatch(pattern, name) ==
  LET m[i \in 1..Len(pattern) + 1, j \in 1..Len(name) + 1] ==
        IF i > Len(pattern)
        THEN j > Len(name)
        ELSE LET one == j <= Len(name) /\ name[j] # "/" IN
             \/ pattern[i] = "*" /\ (m[i + 1, j] \/ (one /\ m[i, j + 1]))
             \/ pattern[i] = "?" /\ one /\ m[i + 1, j + 1]
             \/ /\ pattern[i] \notin WildcardChars
                /\ j <= Len(name) /\ name[j] = pattern[i] /\ m[i + 1, j + 1]
  IN  m[1, 1]

\* muxEntry.match: a plain path matches as a textual prefix, a wildcard path
\* against as many leading parts of the request as it has itself.
Match(path, request) ==
  IF ~IsWildcard(path)
  THEN IsPrefix(path, request)
  ELSE /\ PartCount(request) >= PartCount(path)
       /\ GlobMatch(path, FirstParts(request, PartCount(path)))

\* muxEntry.matchHost: only the part before the first slash counts.
MatchHost(path, host) ==
  LET part == FirstParts(path, 1) IN
  IF ~IsWildcard(path) THEN part = host ELSE GlobMatch(part, host)
=============================================================================
