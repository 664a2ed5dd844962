------------------------------ MODULE MCVisit ------------------------------
(***************************************************************************)
(* Small instances of Visit: routes and targets with and without a path,   *)
(* with and without a slash at its end, and a file system with every kind  *)
(* of entry.  Names have one letter.                                       *)
(***************************************************************************)
EXTENDS Visit

h == <<"h">>
g == <<"g">>
S == Slash
Path(c) == <<"/", c>>
r == Path("r")
rx == <<"/", "r", "x">>

Route(name, kind, host, path) ==
  [name |-> name, kind |-> kind, target |-> Location(host, path)]

\* One letter for each route, target, file and name of go-wasm.
MCChars ==
  {"/", ".", "h", "g", "a", "b", "c", "d", "f", "i", "j", "k", "l", "m", "o", "p",
   "r", "s", "t", "w", "x", "y", "z", "go-wasm.html", "go-wasm.js", "main.wasm",
   "index.html"}

\* A proxied host, a path of a host with and without slashes, files below an
\* absolute and below a relative path, one file,
\* SFTP, a redirection, PHP with both kinds of endpoint, and Go WebAssembly.
PlainRoutes ==
  {Route(g, "proxy", g, <<>>),
   Route(h \o Path("a"), "proxy", g, Path("t")),
   Route(h \o Path("b") \o S, "proxy", g, Path("t") \o S),
   Route(h \o Path("f"), "file", NoHost, Path("r") \o S),
   Route(h \o Path("k"), "file", <<"r">>, Path("d")),
   Route(h \o Path("o"), "file", NoHost, Path("r") \o Path("f")),
   Route(h \o Path("s"), "sftp", g, Path("r")),
   Route(h \o Path("m"), "sftp", g, S),
   Route(h \o Path("z"), "redirect", g, Path("t")),
   Route(h \o Path("p"), "php", NoHost, r),
   Route(h \o Path("i"), "php", NoHost, r \o Path("f")),
   Route(h \o Path("w"), "go-wasm", NoHost, Path("t"))}

WasmRoutes == {Route(h \o Path("w"), "go-wasm", NoHost, Path("t"))}

URL(via, host, path) == [via |-> via, host |-> host, path |-> path]

Asked(paths) ==
  UNION {{URL("direct", h, p), URL("debug", h, S \o h \o p)} : p \in paths}

PlainURLs ==
  Asked({<<>>, Path("a"), Path("a") \o Path("x"), Path("b") \o Path("x"),
         Path("f"), Path("f") \o Path("d") \o S,
         Path("f") \o S \o <<".", ".">> \o Path("d"), Path("o") \o Path("x"),
         Path("o") \o S \o <<".", ".">> \o Path("x"),
         Path("o") \o Path("index.html"), Path("k"), Path("k") \o Path("f"),
         Path("s"), Path("m"), Path("z") \o Path("x"), Path("p") \o Path("x"),
         Path("i"), Path("w"), Path("w") \o S \o WasmJs,
         Path("w") \o S \o WasmMain, Path("w") \o Path("x")})
    \cup {URL("direct", g, Path("x")), URL("debug", h, Path("g"))}

WasmURLs == Asked({Path("w")})

\* Above, at and below the target's path, and the same with the host name,
\* which may also stand alone.
PlainLinks ==
  {Location(host, p) :
     host \in {NoHost, h, g}, p \in {Path("x"), Path("t") \o Path("x"), S}}
    \cup {Location(h, <<>>), Location(g, <<>>)}

NoLinks == {}

Directory == [kind |-> "dir", to |-> <<>>]
File == [kind |-> "file", to |-> <<>>]
Link(to) == [kind |-> "link", to |-> to]

\* /r has a file f, a directory d with a file f, and links: to d, to f, to the
\* link to f, to itself, to the relative name f and to a file of /rx.
MCTree ==
  S :> Directory @@ r :> Directory @@ r \o Path("f") :> File
    @@ r \o Path("d") :> Directory @@ r \o Path("d") \o Path("f") :> File
    @@ r \o Path("l") :> Link(r \o Path("d"))
    @@ r \o Path("k") :> Link(r \o Path("f"))
    @@ r \o Path("j") :> Link(r \o Path("k"))
    @@ r \o Path("w") :> Link(r \o Path("w"))
    @@ r \o Path("y") :> Link(<<"f">>)
    @@ r \o Path("x") :> Link(rx \o Path("f"))
    @@ rx :> Directory @@ rx \o Path("f") :> File

Root == S
=============================================================================
