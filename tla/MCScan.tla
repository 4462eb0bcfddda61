------------------------------- MODULE MCScan -------------------------------
(***************************************************************************)
(* Two folders, three paths and three files: one recording in two          *)
(* qualities, and the lower one again under the tags of another item       *)
(* (Scan); and rules of every operator and column over three rows, with    *)
(* documents of one and two rules (SmartRules); and changes of kind over   *)
(* a book, two tracks and a copy of one of them (Kinds).  Each behaviour   *)
(* is of one part, so that one run checks the three.                       *)
(***************************************************************************)
EXTENDS Scan, SmartRules, Kinds

VARIABLE runs  \* the part this behaviour is of

MCFolderOf == [p \in Path |-> IF p = "b1" THEN "b" ELSE "a"]
MCFolders == <<"a", "b">>
MCPathOrder == <<"a1", "a2", "b1">>
MCKeyOf == [c \in Content |-> IF c = "y" THEN "Y" ELSE "X"]
MCEssenceOf == [c \in Content |-> IF c = "y" THEN "lo" ELSE c]
MCRankOf == [c \in Content |-> IF c = "hi" THEN 2 ELSE 1]

RowOf(ti, al, ra, st, du, lp, tg, ap, lb, tr) == [title |-> ti, album |-> al, rating |-> ra, starred |-> st, duration_ms |-> du, last_played |-> lp,
   tag |-> tg, artist_pid |-> ap, library |-> lb, track |-> tr]
MCRows == {RowOf(Text(1), Text(0), Null, Num(0), Num(1500), Null, {}, Null, {}, TRUE),
           RowOf(Text(2), Text(1), Num(60), Num(1), Num(3000), Num(90), {Text(1)}, Text(7), {Text(4)}, TRUE),
           RowOf(Text(1), Text(2), Num(30), Num(1), Num(1501), Num(40), {Text(0)}, Text(8), {Text(4), Text(5)}, FALSE)}
Conds == {Cond("title", "is", <<Text(1)>>), Cond("title", "contains", <<Text(1)>>), Cond("album", "isMissing", << >>),
          Cond("title", "isPresent", << >>), Cond("album", "in", <<Text(1), Text(2)>>), Cond("album", "in", << >>),
          Cond("rating", "gt", <<Num(40)>>), Cond("rating", "is", <<Num(30)>>), Cond("rating", "inTheRange", <<Num(20), Num(60)>>),
          Cond("rating", "is", <<Null>>), Cond("rating", "contains", <<Text(1)>>), Cond("starred", "is", <<Num(1)>>), Cond("starred", "isNot", <<Bool(TRUE)>>), Cond("starred", "gt", <<Num(0)>>),
          Cond("duration_ms", "lt", <<Num(1501)>>), Cond("duration_ms", "gte", <<Num(1501)>>), Cond("last_played", "inTheLast", <<Num(24)>>),
          Cond("last_played", "notInTheLast", <<Num(48)>>), Cond("last_played", "inTheLast", <<Num(30)>>), Cond("last_played", "gt", <<Num(30)>>),
          Cond("tag", "is", <<Text(1)>>), Cond("artist_pid", "in", <<Text(7), Text(9)>>), Cond("artist_pid", "is", <<Text(9)>>), Cond("library", "in", <<Text(4)>>)}
Trees == {Everything, Group("and", << >>)} \cup Conds \cup {Group("not", <<c>>) : c \in Conds}
   \cup {Group(t, <<c, d>>) : t \in {"and", "or"}, c \in Conds, d \in Conds}
   \cup {Group("and", <<Group("or", <<c>>), Group("not", <<Cond("title", "contains", <<Text(2)>>)>>)>>) : c \in Conds}
Q0(w) == Query("items", w, "count", 0, 0, FALSE, << >>)
Some == {Cond("rating", "gt", <<Num(40)>>), Group("and", <<Cond("tag", "is", <<Text(1)>>)>>)}
MCStoredRule == {Q0(w) : w \in Trees} \cup
   {Query(e, w, m, l, o, sd, so) : e \in {"items", "tracks", "files"}, w \in Some, m \in {"count", "random", "minutes"}, l \in {0, 2}, o \in {0, 1}, sd \in BOOLEAN,
                   so \in {<< >>, <<"last_played">>, <<"title", "rating">>, <<"artist_pid">>}}
Leaves == {Cond("title", "is", <<Text(1)>>), Cond("album", "isMissing", <<Bool(FALSE)>>), Cond("title", "isMissing", <<Bool(TRUE)>>), Cond("album", "isPresent", <<Text(1)>>),
  Cond("rating", "gt", <<Val("num", 7000)>>), Cond("rating", "is", <<Text(1)>>), Cond("rating", "lt", <<Num(200)>>), Cond("rating", "inTheRange", <<Num(1)>>), Cond("loved", "is", <<Bool(TRUE)>>), Cond("loved", "is", <<Num(1)>>), Cond("loved", "gt", <<Bool(TRUE)>>),
  Cond("duration", "gt", <<Val("num", 3001)>>), Cond("duration", "gt", <<Val("num", 3002)>>), Cond("lastplayed", "inTheLast", <<Num(2)>>), Cond("lastplayed", "inTheLast", <<Val("num", 3000)>>), Cond("lastplayed", "notInTheLast", <<Num(9)>>), Cond("lastplayed", "inTheLast", <<Text(1)>>),
  Cond("lastplayed", "after", <<Text(1)>>), Cond("codec", "is", <<Text(1)>>), Cond("title", "notContains", <<Text(1)>>), Cond("rating", "notContains", <<Text(1)>>), Cond("title", "soundsLike", <<Text(1)>>), Broken("rule_shape")}
MCPapers == {Paper(r, k, {}, 0, 0, "", FALSE) : r \in {{"all"}, {"any"}}, k \in {<<a, b>> : a, b \in Leaves} \cup {<<Group("or", <<a>>)>> : a \in Leaves}}
   \cup {Paper(r, <<Cond("title", "is", <<Text(1)>>)>>, x, l, o, s, d) : r \in {{}, {"all"}, {"all", "any"}}, x \in {{}, {"limitPercent"}}, l \in {0, 3, BadNumber}, o \in {0, 1, BadNumber}, s \in {"", "random", "lastplayed", "title", "codec", BadName}, d \in {FALSE}}
MCAlike == {<<"contains", 2, 1>>}

MCAnchor == [f \in CopyFile |-> 2]
MCBookKey == [f \in KindFile |-> 101]
It(k, key) == [kind |-> k, key |-> key, locked |-> FALSE]
Cat(its, owner, alt, n) == [item |-> [p \in Pid |-> IF p \in DOMAIN its THEN its[p] ELSE NoStanding], owner |-> owner, alt |-> alt, lin |-> {}, clock |-> 1, next |-> n]
TracksOnly == Cat(<<It("track", 1), It("track", 2), It("track", 3)>>, <<1, 2, 3, 2>>, {4}, 4)
MCKindStart == {TracksOnly, Cat(<<It("book", 101), It("track", 3)>>, <<1, 1, 2, 1>>, {4}, 3), Cat(<<It("book", 101), It("track", 2), It("track", 3)>>, <<1, 2, 3, 2>>, {4}, 4)}
MCAsks == {[pids |-> p, kind |-> k, force |-> fo] : p \in {<<1, 2>>, <<2, 1>>, <<3, 2>>}, k \in {"book", "track"}, fo \in BOOLEAN}

\* The variables of the parts a behaviour is not of keep one value.
ScanIdle == disk = 0 /\ rootUp = 0 /\ rows = 0 /\ items = 0 /\ scan = 0 /\ scanBounds = 0 /\ settled = 0
RulesIdle == rule = 0 /\ paper = 0 /\ part = 0 /\ keptRule = 0 /\ got = 0 /\ phase = 0
KindIdle == cat = 0 /\ change = 0 /\ kindJobs = 0 /\ up = 0 /\ kindScans = 0 /\ kindFaults = 0 /\ word = 0 /\ went = 0
   /\ foldedBy = 0 /\ clouded = 0 /\ freed = 0
\* Bound: at most two of the three paths have a file at the start.
MCInit ==
  \/ /\ runs = "scan" /\ ScanInit /\ RulesIdle /\ KindIdle
     /\ \E p \in Path : disk[p] = NoFile
  \/ runs = "rules" /\ RulesInit /\ ScanIdle /\ KindIdle
  \/ runs = "kinds" /\ KindInit /\ ScanIdle /\ RulesIdle

MCNext ==
  \/ runs = "scan" /\ ScanNext /\ UNCHANGED <<ruleVars, kindVars, runs>>
  \/ runs = "rules" /\ RulesNext /\ UNCHANGED <<scanVars, kindVars, runs>>
  \/ runs = "kinds" /\ KindNext /\ UNCHANGED <<scanVars, ruleVars, runs>>

MCVars == <<scanVars, ruleVars, kindVars, runs>>
MCSpec == MCInit /\ [][MCNext]_MCVars

(***************************************************************************)
(* The properties of the three parts, each over the behaviours of its own  *)
(* part: elsewhere its variables never change.                             *)
(***************************************************************************)
\* An item keeps one primary file (copies.go), a scan that nothing held back
\* leaves the catalog as the disk is, and none marks missing what a drive that
\* was there still holds (scan.go).
ScanHolds ==
  /\ [](runs = "scan" => OnePrimary /\ ScanSettles)
  /\ [][runs = "scan" => NotLost]_MCVars

\* A rule that is written out and read back matches the rows it matched, and
\* an operator and its opposite cover the rows between them (nsp.go, query.go).
RulesHold == runs = "rules" => ConversionsHold /\ OppositesCover

\* A change of kind reports what it folded and minted, also when it was cut
\* off, and asked again reaches what its pids became (kind.go, lineage.go).
KindsHold == runs = "kinds" => ReportsHold /\ RetriesReachNamed
=============================================================================
