----------------------------- MODULE ConfigFile -----------------------------
(***************************************************************************)
(* What razvhost makes of its config file (pkg/config/config.go): the      *)
(* entries a file stands for, and the difference of two readings.          *)
(*                                                                         *)
(* A file is BadTemplate, when executeTemplates fails on it, or the        *)
(* sequence of the lines the template expands to.  A line is a record      *)
(* with the kind of line it is and the names on both sides of the arrow;   *)
(* a target is the string its URL prints as, which is also the id of its   *)
(* handler.                                                                *)
(***************************************************************************)
EXTENDS Integers, Sequences, SequencesExt

CONSTANTS
  Hostname,
  Target,          \* targets url.Parse accepts
  BadTarget,       \* a target url.Parse refuses
  BadTemplate      \* a file whose template does not parse or execute

ConfigEntry == [host : Hostname, target : Target]

ConfigEvent == [entry : ConfigEntry, up : BOOLEAN]

\* The lines readConfigLine tells apart.
Blank == [kind |-> "blank", hosts |-> <<>>, targets |-> <<>>]
NoArrow == [kind |-> "noarrow", hosts |-> <<>>, targets |-> <<>>]
RouteLine(hosts, targets) ==
  [kind |-> "route", hosts |-> hosts, targets |-> targets]

Line == [kind : {"blank", "noarrow", "route"},
         hosts : Seq(Hostname), targets : Seq(Target \cup {BadTarget})]

\* The loops that append those elements of s that are in S.
Only(s, S) ==
  LET only[i \in 0..Len(s)] ==
        IF i = 0 THEN <<>>
        ELSE IF s[i] \in S THEN Append(only[i - 1], s[i]) ELSE only[i - 1]
  IN  only[Len(s)]

\* Mutant of LineAccepted: a target that does not parse is kept.
LineAcceptedAnyTarget(line) == line.kind # "noarrow"

\* readConfigLine returns no error.
LineAccepted(line) ==
  line.kind # "noarrow" /\ BadTarget \notin ToSet(line.targets)

\* configLine.toConfigEntries: every host name with every target.
LineEntries(line) ==
  FlattenSeq([h \in DOMAIN line.hosts |->
    [t \in DOMAIN line.targets |->
       [host |-> line.hosts[h], target |-> line.targets[t]]]])

Readable(file) == file # BadTemplate

\* configLines.toConfigEntries
AllEntries(lines) == FlattenSeq([i \in DOMAIN lines |-> LineEntries(lines[i])])

\* ReadConfig of a readable file: the refused lines are logged and skipped.
ReadConfig(file) ==
  AllEntries(Only(file, {line \in ToSet(file) : LineAccepted(line)}))

\* configEntries.contains
Has(entries, e) == \E i \in DOMAIN entries : entries[i] = e

\* configEntries.toEvents
ToEvents(entries, isUp) ==
  [i \in DOMAIN entries |-> [entry |-> entries[i], up |-> isUp]]

\* getConfigChange
EntriesUp(prev, new) == Only(new, {e \in ToSet(new) : ~Has(prev, e)})
EntriesDown(prev, new) == Only(prev, {e \in ToSet(prev) : ~Has(new, e)})

\* Mutant of ChangeEvents: the old targets go before the new ones come.
ChangeEventsDownFirst(prev, new) ==
  ToEvents(EntriesDown(prev, new), FALSE) \o ToEvents(EntriesUp(prev, new), TRUE)

\* The batch handleUpdate sends.
ChangeEvents(prev, new) ==
  ToEvents(EntriesUp(prev, new), TRUE) \o ToEvents(EntriesDown(prev, new), FALSE)
=============================================================================
