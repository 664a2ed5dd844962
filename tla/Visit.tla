------------------------------- MODULE Visit -------------------------------
(***************************************************************************)
(* A client's visit: it types a URL, or follows a link of the page it is   *)
(* reading, and the request goes through the listener (internal or debug), *)
(* Server.ServeHTTP, the route's handler and its target; the page comes    *)
(* back through the HTMLStreamers.  Handlers share no state, so one client *)
(* is enough; only SSH connections outlive a request.                      *)
(***************************************************************************)
EXTENDS FileServer, HtmlStream

CONSTANTS
  Routes,       \* the routes: name (host name and path in the config file),
                \* kind (the scheme of the target) and target (its location)
  TypedURLs,    \* what the client may type: via, host and path
  ProxyLinks,   \* the locations on the pages of the proxied targets, without
                \* those relative to the page, which are left as they are
  SftpHome,     \* the directory an SFTP session starts in
  MaxConns      \* bound: SSH connections the SFTP server admits

\* HandlerFactory.Handler: host and path of a file or php URL make one name,
\* relative to the working directory if there is a host.
FileRoot(r) == Abs(r.target.host \o r.target.path)

\* The endpoint of a PHP route exists, or its handler is not made.
ASSUME VisitAssumption ==
  /\ \A r \in Routes :
       /\ r.kind \in {"proxy", "file", "redirect", "sftp", "php", "go-wasm"}
       /\ r.name \in Str /\ IsPath(r.target.path) /\ IsHost(r.target.host)
       /\ r.kind = "php" => Stat(FileRoot(r)) # NotFound
  /\ TypedURLs \subseteq [via : {"direct", "debug"}, host : Str, path : Str]
  /\ \A url \in TypedURLs : IsHost(url.host) /\ IsPath(url.path)
  /\ \A loc \in ProxyLinks :
       /\ IsHost(loc.host) /\ IsPath(loc.path)
       /\ loc.host # NoHost \/ loc.path # <<>>
  /\ SftpHome \in Str
  /\ MaxConns \in Nat

VARIABLES
  step,     \* the client: "idle", "asked" (waits for the answer), "reads",
            \* "moved" (was sent elsewhere), "aborted" (lost the connection)
  request,  \* the URL it asked for
  route,    \* the route that answered, or NoRoute
  reached,  \* what was asked of which target
  meant,    \* what the link it followed meant, or Anything
  leads,    \* what the link in token means
  conns     \* open SSH connections to the SFTP server

clientVars == <<step, request, meant>>
targetVars == <<route, reached>>
vars == <<clientVars, targetVars, leads, conns, streamVars>>

NoRoute == [name |-> <<>>, kind |-> "none", target |-> Location(NoHost, <<>>)]
Anything == [route |-> <<>>, path |-> <<"any">>]
Failed == [route |-> <<>>, path |-> <<"failed">>]
At(r, path) == [route |-> r.name, path |-> path]

Init ==
  /\ step = "idle"
  /\ request \in TypedURLs
  /\ route = NoRoute /\ reached = Failed
  /\ meant = Anything /\ leads = Anything
  /\ conns = 0
  /\ StreamInit

-----------------------------------------------------------------------------
(***************************************************************************)
(* The way of a request.                                                   *)
(***************************************************************************)
HostOf(r) == SplitHostnameAndPath(r.name).host
PathOf(r) == SplitHostnameAndPath(r.name).path

\* r.Host and r.URL.Path in Server.ServeHTTP.
AtServer == IF request.via = "debug" THEN DebugRequest(request.path)
            ELSE Location(request.host, request.path)

FullPath == AtServer.host \o AtServer.path

\* The best match of Mux.Handler, as RouteTable orders them.
Outranks(r, o) ==
  \/ ~IsWildcard(r.name) /\ IsWildcard(o.name)
  \/ Len(r.name) >= Len(o.name)

Matching == {r \in Routes : Match(r.name, FullPath)}

Answering == {r \in Matching : \A o \in Matching : Outranks(r, o)}

\* What the handler of route r gets as URL.Path.
Stripped(r) == Strip(AtServer.path, PathOf(r))

Answer(r, what, next) ==
  /\ step = "asked"
  /\ route' = r
  /\ reached' = what
  /\ step' = next
  /\ UNCHANGED <<request, meant, leads, streamVars>>

ServeForbidden ==
  /\ Matching = {}
  /\ Answer(NoRoute, At(NoRoute, NotFound), "idle")
  /\ UNCHANGED conns

ServeProxy(r) ==
  /\ r.kind = "proxy"
  /\ Answer(r, At(r, SingleJoiningSlash(r.target.path, Stripped(r))), "reads")
  /\ UNCHANGED conns

\* A location passes the writer of the debug listener, if it is in use.
ByListener(loc) ==
  IF request.via = "debug"
  THEN UpdateLocation(loc, NoHost, Slash \o AtServer.host, <<>>)
  ELSE loc

\* The Location header passes the response writer of the handler and then that
\* of the debug listener.
ServeRedirect(r) ==
  /\ r.kind = "redirect"
  /\ LET loc == HttpRedirect(Redirection(AtServer.path, PathOf(r), r.target))
         sent == ByListener(UpdateLocation(loc, NoHost, PathOf(r), <<>>))
     IN  Answer(r, At(r, sent.path), "idle")
  /\ UNCHANGED conns

SendsFile(r) ==
  Stat(FileRoot(r)) # NotFound /\ Tree[Stat(FileRoot(r))].kind = "file"

\* http.ServeFile refuses a path with "..", and sends /index.html to its
\* directory ("index.html" is one character here).
SendsNothing(path) ==
  \/ \E i \in DOMAIN Parts(path) : Parts(path)[i] = <<".", ".">>
  \/ IsSuffix(<<"/", "index.html">>, path)

\* newFileServer: a target that is a file is sent whatever is asked for.
ServeFile(r) ==
  /\ r.kind = "file"
  /\ \/ ~SendsFile(r)
        /\ Answer(r, At(r, Open(FileRoot(r), Clean(Stripped(r)))), "reads")
     \/ SendsFile(r) /\ ~SendsNothing(Stripped(r))
        /\ Answer(r, At(r, Stat(FileRoot(r))), "reads")
     \/ SendsFile(r) /\ SendsNothing(Stripped(r))
        /\ Answer(r, Failed, "idle")
  /\ UNCHANGED conns

EndpointIsDir(r) == Tree[Stat(FileRoot(r))].kind = "dir"

\* newPHPHandler: a file as endpoint runs for every request.
ServePHP(r) ==
  /\ r.kind = "php"
  /\ Answer(r, At(r, IF EndpointIsDir(r) THEN Stripped(r) ELSE FileRoot(r)),
            "reads")
  /\ UNCHANGED conns

-----------------------------------------------------------------------------
(***************************************************************************)
(* newGoWasmHandler compares the whole path.  A file name is one character *)
(* here.  path.Clean and path.Join make nothing absolute.                  *)
(***************************************************************************)
WasmPage == <<"go-wasm.html">>
WasmJs == <<"go-wasm.js">>
WasmMain == <<"main.wasm">>

WasmBase(r) == IF PathOf(r) = <<>> THEN <<".">> ELSE Clean(PathOf(r))

WasmPath(r, name) ==
  IF PathOf(r) = <<>> THEN name ELSE PathJoin(PathOf(r), name)

\* What go:embed puts into the program, named relative to its directory.
Embedded == {"assets.go", "go-wasm.html", "go-wasm.js"}

\* The handler opens assets/<file>, drops the error and uses the nil file:
\* it panics and net/http drops the connection.
AssetSent(filename) == IF filename \in Embedded THEN "idle" ELSE "aborted"

ServeWasm(r) ==
  /\ r.kind = "go-wasm"
  /\ LET path == AtServer.path IN
     IF path = WasmBase(r) THEN Answer(r, At(r, WasmBase(r)), "moved")
     ELSE IF path = WasmBase(r) \o Slash
     THEN Answer(r, At(r, WasmPage), AssetSent("assets/go-wasm.html"))
     ELSE IF path = WasmPath(r, WasmJs)
     THEN Answer(r, At(r, WasmJs), AssetSent("assets/go-wasm.js"))
     ELSE IF path = WasmPath(r, WasmMain) THEN Answer(r, At(r, WasmMain), "idle")
     ELSE Answer(r, At(r, NotFound), "idle")
  /\ UNCHANGED conns

-----------------------------------------------------------------------------
(***************************************************************************)
(* sftpFS.Open.  getClient dials an SSH connection for every request and   *)
(* closes it only if no SFTP client can be made of it.  sftpFile.Close     *)
(* ends the SFTP session of a file, after an error and for a directory not *)
(* even that is done; the SSH connection stays open in every case.         *)
(***************************************************************************)
SftpDir(r) == IF Len(r.target.path) <= 1 THEN SftpHome ELSE r.target.path

SftpName(r) == PathJoin(SftpDir(r), Clean(Stripped(r)))

\* getClient fails, at the latest when the server admits no more.
SftpNoClient(r) ==
  /\ r.kind = "sftp"
  /\ Answer(r, Failed, "idle")
  /\ UNCHANGED conns

SftpConnect(r) ==
  /\ r.kind = "sftp"
  /\ conns < MaxConns
  /\ conns' = conns + 1

\* Stat, ReadDir or Open returns an error.
SftpError(r) ==
  /\ SftpConnect(r)
  /\ Answer(r, Failed, "idle")

SftpOpenDir(r) ==
  /\ SftpConnect(r)
  /\ Stat(SftpName(r)) # NotFound
  /\ Tree[Stat(SftpName(r))].kind = "dir"
  /\ Answer(r, At(r, Stat(SftpName(r))), "reads")

SftpOpenFile(r) ==
  /\ SftpConnect(r)
  /\ Stat(SftpName(r)) # NotFound
  /\ Tree[Stat(SftpName(r))].kind = "file"
  /\ Answer(r, At(r, Stat(SftpName(r))), "reads")

-----------------------------------------------------------------------------
(***************************************************************************)
(* The page.  The pages of proxies and of PHP hold any of ProxyLinks, a    *)
(* directory its listing; files and what was not found hold no link.       *)
(***************************************************************************)
IsDirectory ==
  /\ route.kind \in {"file", "sftp"}
  /\ reached.path \in DOMAIN Tree
  /\ Tree[reached.path].kind = "dir"

PageLinks ==
  CASE route.kind \in {"proxy", "php"} -> ProxyLinks
    [] IsDirectory ->
         {Location(NoHost, p) :
            p \in Listing(reached.path, Clean(Stripped(route)))}
    [] OTHER -> {}

Tokens ==
  {Tag(type, "a", l) : type \in {"start", "self"}, l \in PageLinks}
    \cup {Tag(type, name, NoLink) :
            type \in {"start", "end", "self"}, name \in ElementName}
    \cup {Text("sign", 0)}
    \cup {Text(what, level) : what \in Spelling, level \in 1..3}

\* The targetPath the handlers give to handlePathCombinations.
TargetPath(r) ==
  CASE r.kind = "proxy" -> r.target.path
    [] r.kind = "php" -> IF EndpointIsDir(r) THEN FileRoot(r)
                         ELSE Dir(FileRoot(r))
    [] OTHER -> <<>>

\* modifyToken, of the handler's writer and then of the debug listener's.
ModifyToken(t) ==
  IF t.type = "text" \/ t.link = NoLink THEN NoLink
  ELSE ByListener(UpdateLocation(t.link, HostOf(route), PathOf(route),
                                 TargetPath(route)))

-----------------------------------------------------------------------------
(***************************************************************************)
(* What a link means, apart from the code.                                 *)
(***************************************************************************)
WithSlash(path) == IF IsSuffix(Slash, path) THEN path ELSE path \o Slash

\* The file a name stands for.  Of the symbolic links below a file target only
\* those count that hold an absolute path below the root, the kind that
\* Directory.resolve can follow.
FileMeant(r, name) ==
  IF r.kind = "file" /\ IsLink(Lstat(name))
       /\ ~IsPrefix(WithSlash(FileRoot(r)), Tree[Lstat(name)].to)
  THEN Anything
  ELSE At(r, Stat(name))

RootOf(r) == IF r.kind = "sftp" THEN SftpDir(r) ELSE FileRoot(r)

\* A location on a proxied page means a page of that target when it is below
\* the target's path.  On a page of PHP, where the endpoint is a directory, it
\* means a script there, unless it looks like a path of the file system, which
\* the rewriting would take for one.  A listed name means the entry of the
\* listed directory, and the entry above them the directory above in the URL.
Meaning(loc) ==
  CASE route.kind = "proxy" ->
         IF loc.host \in {NoHost, HostOf(route)}
              /\ IsPrefix(WithSlash(route.target.path), RequestURI(loc))
         THEN At(route, RequestURI(loc)) ELSE Anything
    [] route.kind = "php" ->
         IF loc.host \in {NoHost, HostOf(route)}
              /\ EndpointIsDir(route)
              /\ ~IsPrefix(TargetPath(route), RequestURI(loc))
         THEN At(route, RequestURI(loc)) ELSE Anything
    [] OTHER ->
         FileMeant(route,
                   IF loc.path = Dir(Clean(Stripped(route)))
                   THEN PathJoin(RootOf(route), loc.path)
                   ELSE PathJoin(reached.path, Last(Parts(loc.path))))

-----------------------------------------------------------------------------
(***************************************************************************)
(* The client.                                                             *)
(***************************************************************************)
ReadPage ==
  /\ step = "reads"
  /\ route.kind \in {"proxy", "php"} \/ IsDirectory
  /\ \E t \in Tokens :
       /\ ReadToken(t, ModifyToken(t), IF request.via = "debug" THEN 2 ELSE 1)
       /\ leads' = IF t.type = "text" \/ t.link = NoLink THEN Anything
                   ELSE Meaning(t.link)
  /\ UNCHANGED <<clientVars, targetVars, conns>>

ReadPieces ==
  /\ step = "reads"
  /\ \E n \in 1..PieceCount : Copy(n)
  /\ UNCHANGED <<clientVars, targetVars, leads, conns>>

\* The request is over and a new one begins; the page is gone.
Ask(url, meaning) ==
  /\ step' = "asked"
  /\ request' = url
  /\ meant' = meaning
  /\ leads' = Anything
  /\ rawTag' = "" /\ noEscape' = 0 /\ token' = NoToken /\ original' = 0
  /\ buffer' = <<>> /\ out' = <<>> /\ page' = "regular" /\ whole' = TRUE
  /\ UNCHANGED <<targetVars, conns>>

TypeURL ==
  /\ step # "asked"
  /\ \E url \in TypedURLs : Ask(url, Anything)

\* A location without host is on the listener the page came from.
FollowLink ==
  /\ step = "reads"
  /\ buffer = <<>>
  /\ token.type \in {"start", "self"} /\ token.link # NoLink
  /\ Ask(IF token.link.host = NoHost
         THEN [request EXCEPT !.path = token.link.path]
         ELSE [via |-> "direct", host |-> token.link.host,
               path |-> token.link.path],
         leads)

\* The Location header of newGoWasmHandler passes the debug listener's writer.
FollowRedirect ==
  /\ step = "moved"
  /\ LET loc == ByListener(Location(NoHost, WasmBase(route) \o Slash))
     IN  Ask([request EXCEPT !.path = loc.path], At(route, WasmPage))

Serve ==
  \/ ServeForbidden
  \/ \E r \in Answering :
       \/ ServeProxy(r) \/ ServeRedirect(r) \/ ServeFile(r)
       \/ ServePHP(r) \/ ServeWasm(r)
       \/ SftpNoClient(r) \/ SftpError(r) \/ SftpOpenDir(r) \/ SftpOpenFile(r)

Next ==
  TypeURL \/ FollowLink \/ FollowRedirect \/ ReadPage \/ ReadPieces \/ Serve

Spec == Init /\ [][Next]_vars

-----------------------------------------------------------------------------
(***************************************************************************)
(* Properties.                                                             *)
(***************************************************************************)

\* Types of the visit's state; every handler gets a path with a slash first.
TypeOK ==
  /\ step \in {"idle", "asked", "reads", "moved", "aborted"}
  /\ request.via \in {"direct", "debug"}
  /\ route \in Routes \cup {NoRoute}
  /\ route.kind \in {"proxy", "redirect"} => IsPrefix(Slash, reached.path)
  /\ conns \in 0..MaxConns
  /\ StreamTypeOK

Served == step # "asked" /\ route # NoRoute /\ reached # Failed

\* What the request asks for below the route; a wildcard part of the route
\* stands for the part of the request it matched.
BelowRoute ==
  IF IsWildcard(route.name)
  THEN TrimPrefix(FullPath, FirstParts(FullPath, PartCount(route.name)))
  ELSE TrimPrefix(FullPath, route.name)

\* The request is for the route or for something below it, not for something
\* that only begins with the same text (/ab for the route /a).
AsksBelow ==
  \/ BelowRoute = <<>> \/ IsPrefix(Slash, BelowRoute)
  \/ IsSuffix(Slash, route.name)

PlaceBelow ==
  IF IsPrefix(Slash, BelowRoute) THEN BelowRoute ELSE Slash \o BelowRoute

Below(dir, place) ==
  (IF IsSuffix(Slash, dir) THEN Front(dir) ELSE dir) \o place

\* Routes and target paths combine: a request below a route reaches the same
\* place below the target, whether or not route, target and request end with
\* or begin with a slash (handlePathCombinations, joinURLPath).
RouteStripped ==
  Served /\ AsksBelow /\ route.kind \in {"proxy", "redirect"}
    => reached.path = Below(route.target.path, PlaceBelow)

\* The same of files: what is sent is the file at that place below the root,
\* with ".." never leading out of the root, or the target that is a file
\* itself (newFileServer, Directory.Open).  Links are left out.
FileInPlace ==
  LET place == Below(FileRoot(route), Clean(PlaceBelow))
  IN  Served /\ AsksBelow /\ route.kind = "file" /\ ~IsLink(Lstat(place))
        => reached.path = IF SendsFile(route) THEN Stat(FileRoot(route))
                          ELSE Lstat(place)

\* What was meant is an entry of a listing.
Listed(what) ==
  \E r \in Routes : r.name = what.route /\ r.kind \in {"file", "sftp"}

Arrived == step # "asked" /\ meant # Anything /\ reached # Failed

\* A link leads where it meant: what the target wrote into a page, as a path
\* or with the host name of the route, is what the client gets when it follows
\* the rewritten link, through the handler's writer alone or through the debug
\* listener's as well (updateLocation).
LinksLead == Arrived /\ ~Listed(meant) => reached = meant

\* The entries of a listing lead to the files they are the names of
\* (handleDir, Directory.resolve).
EntriesLead == Arrived /\ Listed(meant) => reached = meant

\* Go WebAssembly hosting: the directory of the route shows the page.
WasmServed ==
  Served /\ route.kind = "go-wasm" /\ BelowRoute = Slash
    => reached = At(route, WasmPage) /\ step # "aborted"
=============================================================================
