----------------------------- MODULE Locations -----------------------------
(***************************************************************************)
(* How razvhost changes paths and locations on their way to a target and   *)
(* back: the stripping of a route's path (pkg/handler/util.go), the joining *)
(* with the target's path (redirect.go, and ReverseProxy for proxy.go), the *)
(* rewriting of the locations in a response (pkg/stream) and the host name *)
(* in the paths of the debug listener (Server.Debug).                      *)
(*                                                                         *)
(* Strings are sequences of characters, as in PathMatch.  A location is    *)
(* what url.Parse makes of it: a host, or NoHost, and the rest; queries    *)
(* and percent-encoding (URL.RawPath) are left out.                        *)
(***************************************************************************)
EXTENDS PathMatch

CONSTANT Chars  \* the characters that occur in host names and paths

ASSUME CharsAssumption == {"/", "."} \subseteq Chars

Str == Seq(Chars)

Slash == <<"/">>

\* The URL has no host.
NoHost == <<>>

Location(host, path) == [host |-> host, path |-> path]

\* The host part of a URL holds no slash, and its path is empty or begins with
\* one.
IsHost(s) == s \in Str /\ Slashes(s) = {}
IsPath(s) == s \in Str /\ (s = <<>> \/ IsPrefix(Slash, s))

\* strings.TrimPrefix
TrimPrefix(s, prefix) ==
  IF IsPrefix(prefix, s) THEN SubSeq(s, Len(prefix) + 1, Len(s)) ELSE s

\* Mutant of SingleJoiningSlash: the slash both have is kept twice.
PlainJoin(a, b) == a \o b

\* a and b with exactly one slash where they meet.
SingleJoiningSlash(a, b) ==
  LET aslash == IsSuffix(Slash, a)
      bslash == IsPrefix(Slash, b)
  IN  CASE aslash /\ bslash -> a \o Tail(b)
        [] ~aslash /\ ~bslash -> a \o Slash \o b
        [] OTHER -> a \o b

\* The host name and the path of a hostname in the config file.
SplitHostnameAndPath(hostname) ==
  LET host == FirstParts(hostname, 1)
  IN  [host |-> host, path |-> TrimPrefix(hostname, host)]

\* handlePathCombinations: what the target's handler gets as URL.Path.
Strip(path, hostPath) ==
  LET rest == TrimPrefix(path, hostPath)
  IN  IF IsPrefix(Slash, rest) THEN rest ELSE Slash \o rest

\* URL.RequestURI: a host alone stands for its root.
RequestURI(loc) ==
  IF loc.host # NoHost /\ loc.path = <<>> THEN Slash ELSE loc.path

\* Mutant of UpdateLocation: the target's path is not taken off.
UpdateLocationUntrimmed(loc, hostname, hostPath, targetPath) ==
  IF loc.host \notin {NoHost, hostname} \/ ~IsPrefix(Slash, loc.path)
  THEN loc
  ELSE Location(NoHost, SingleJoiningSlash(hostPath, loc.path))

\* A location of another host, or relative to the page, stays; any other one
\* gets the route's path in place of the target's.
UpdateLocation(loc, hostname, hostPath, targetPath) ==
  LET uri == RequestURI(loc)
  IN  IF loc.host \notin {NoHost, hostname}
      THEN loc
      ELSE Location(NoHost,
             IF IsPrefix(Slash, uri)
             THEN SingleJoiningSlash(hostPath, TrimPrefix(uri, targetPath))
             ELSE uri)

\* newRedirectHandler: where a request for path is sent.
Redirection(path, hostPath, target) ==
  Location(target.host, SingleJoiningSlash(target.path, Strip(path, hostPath)))

\* Server.Debug: the first part of the path is the host name.
DebugRequest(path) ==
  LET host == TrimPrefix(FirstParts(path, IF PartCount(path) > 2 THEN 2
                                          ELSE PartCount(path)), Slash)
  IN  Location(host, TrimPrefix(path, Slash \o host))

-----------------------------------------------------------------------------
(***************************************************************************)
(* Of Go's package path, for absolute paths.                               *)
(***************************************************************************)

\* One more character of a path that is split.
AddChar(parts, c) ==
  IF c = "/" THEN Append(parts, <<>>)
  ELSE Append(Front(parts), Append(Last(parts), c))

\* strings.Split(s, "/")
Parts(s) ==
  LET parts[i \in 0..Len(s)] ==
        IF i = 0 THEN << <<>> >> ELSE AddChar(parts[i - 1], s[i])
  IN  parts[Len(s)]

\* The absolute path with the given parts.
FromParts(parts) ==
  IF parts = <<>> THEN Slash
  ELSE FlattenSeq([i \in DOMAIN parts |-> Slash \o parts[i]])

\* One more part of a path that is cleaned: an empty one and "." are dropped,
\* and ".." takes the part before it along, if there is one.
AddPart(parts, p) ==
  IF p \in {<<>>, <<".">>} THEN parts
  ELSE IF p # <<".", ".">> THEN Append(parts, p)
  ELSE IF parts = <<>> THEN parts ELSE Front(parts)

KeptParts(parts) ==
  LET kept[i \in 0..Len(parts)] ==
        IF i = 0 THEN <<>> ELSE AddPart(kept[i - 1], parts[i])
  IN  kept[Len(parts)]

\* path.Clean
Clean(path) == FromParts(KeptParts(Parts(path)))

\* path.Join
PathJoin(a, b) == Clean(a \o Slash \o b)

\* path.Dir
Dir(path) == PathJoin(path, <<".", ".">>)

\* http.Redirect cleans the path of a location without host, up to a slash at
\* its end.
HttpRedirect(loc) ==
  IF loc.host # NoHost THEN loc
  ELSE Location(NoHost,
         IF IsSuffix(Slash, loc.path) /\ ~IsSuffix(Slash, Clean(loc.path))
         THEN Clean(loc.path) \o Slash ELSE Clean(loc.path))
=============================================================================
