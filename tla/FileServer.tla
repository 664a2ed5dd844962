----------------------------- MODULE FileServer -----------------------------
(***************************************************************************)
(* What the file server (pkg/fileserver/fileserver.go) and the SFTP file   *)
(* system (pkg/handler/sftp.go) find at a path.                            *)
(***************************************************************************)
EXTENDS Locations

CONSTANTS
  Tree,  \* the file system: for each absolute path that exists its kind,
         \* "dir", "file" or "link", and for a link the name it holds
  Cwd    \* the working directory of razvhost

ASSUME TreeAssumption ==
  /\ IsFiniteSet(DOMAIN Tree)
  /\ \A p \in DOMAIN Tree : p \in Str /\ p = Clean(p)
  /\ Cwd \in Str

\* There is nothing at this path, or opening it fails.
NotFound == <<>>

IsLink(path) == path \in DOMAIN Tree /\ Tree[path].kind = "link"

(***************************************************************************)
(* The operating system: names are resolved against the working directory, *)
(* and the links among all parts but the last are followed.  A link on the *)
(* way holds an absolute path without links, or leads nowhere.             *)
(***************************************************************************)
FollowPart(dir, p) ==
  LET at == IF IsLink(dir) THEN Tree[dir].to ELSE dir
  IN  IF at = Slash THEN Slash \o p ELSE at \o Slash \o p

FollowParts(parts) ==
  LET dir[i \in 0..Len(parts)] ==
        IF i = 0 THEN Slash ELSE FollowPart(dir[i - 1], parts[i])
  IN  dir[Len(parts)]

\* What is at a cleaned path.
FollowPath(path) ==
  IF path = Slash THEN Slash ELSE FollowParts(Tail(Parts(path)))

Existing(path) == IF path \in DOMAIN Tree THEN path ELSE NotFound

\* filepath.Abs
Abs(name) == IF IsPrefix(Slash, name) THEN Clean(name) ELSE PathJoin(Cwd, name)

Lstat(name) == Existing(FollowPath(Abs(name)))

\* The end of a chain of links must be no link.
LinkEnd(path) == IF IsLink(path) THEN NotFound ELSE path

\* The same with the links at the end followed too; a cycle leads nowhere.
Stat(name) ==
  LET at[d \in 0..Cardinality(DOMAIN Tree)] ==
        IF d = 0 THEN Lstat(name)
        ELSE LET link == at[d - 1] IN
             IF ~IsLink(link) THEN link
             ELSE Lstat(IF IsPrefix(Slash, Tree[link].to) THEN Tree[link].to
                        ELSE PathJoin(Dir(link), Tree[link].to))
  IN  LinkEnd(at[Cardinality(DOMAIN Tree)])

-----------------------------------------------------------------------------
\* const of the loop in Directory.resolve
SymlinkMaxDepth == 16

\* Mutant of Resolve: the result is not made relative to the root.
ResolveAbsolute(root, relPath) ==
  LET name == PathJoin(root, relPath)
  IN  IF Lstat(name) = NotFound THEN NotFound ELSE name

\* A step of the loop in Directory.resolve, with what is at the name.
Readlink(name, at) == IF IsLink(at) THEN Tree[at].to ELSE name

\* Its result, with what is at the end.
RelativeTo(root, name, found) ==
  IF found = NotFound \/ ~IsPrefix(root, name) THEN NotFound
  ELSE Slash \o TrimPrefix(TrimPrefix(name, root), Slash)

(***************************************************************************)
(* Directory.resolve: links are followed by hand, each name taken as       *)
(* os.Readlink returns it, until one is no link.  The result is relative   *)
(* to the root, or NotFound.                                               *)
(***************************************************************************)
Resolve(root, relPath) ==
  LET filename[d \in 0..SymlinkMaxDepth] ==
        IF d = 0 THEN PathJoin(root, relPath)
        ELSE LET name == filename[d - 1]
             IN  Readlink(name, Lstat(name))
      last == filename[SymlinkMaxDepth]
  IN  RelativeTo(root, last, LinkEnd(Lstat(last)))

\* Directory.Open: the file it opens, or NotFound.  http.Dir.Open goes from
\* the root again and follows links.
Open(root, relPath) ==
  LET resolved == Resolve(root, relPath)
  IN  IF resolved = NotFound THEN NotFound ELSE Stat(PathJoin(root, resolved))

-----------------------------------------------------------------------------
\* The names in a directory.
Readdir(dir) ==
  {Last(Parts(p)) : p \in {q \in DOMAIN Tree \ {Slash} : Dir(q) = dir}}

\* Mutant of Listing: the entries are named as if the root was listed.
ListingOfRoot(dir, uri) ==
  {Slash \o n : n \in Readdir(dir)}
    \cup (IF uri # Slash THEN {Dir(uri)} ELSE {})

\* handleDir: the FullName of each entry, the parent included.  The order of
\* the entries is left out.
Listing(dir, uri) ==
  {PathJoin(uri, n) : n \in Readdir(dir)}
    \cup (IF uri # Slash THEN {Dir(uri)} ELSE {})
=============================================================================
