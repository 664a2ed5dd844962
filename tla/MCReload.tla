------------------------------ MODULE MCReload ------------------------------
(***************************************************************************)
(* Small instances of ConfigReload: two host names, three targets, one of  *)
(* them unsure, and files that differ in every way a line can.             *)
(***************************************************************************)
EXTENDS ConfigReload

CONSTANTS h1, h2, t1, t2, tx

\* h1 -> t1
One == <<RouteLine(<<h1>>, <<t1>>)>>

\* a comment, a line without arrow, h1 h2 -> t2
Moved == <<Blank, NoArrow, RouteLine(<<h1, h2>>, <<t2>>)>>

\* h1 -> t1 tx, and a line whose second target does not parse
Partly ==
  <<RouteLine(<<h1>>, <<t1, tx>>), RouteLine(<<h2>>, <<t2, BadTarget>>)>>

Distinct == {One, Moved, Partly, BadTemplate}
DistinctOrMissing == Distinct \cup {Missing}
Few == {One, Moved}
OnlyOne == {One}
=============================================================================
