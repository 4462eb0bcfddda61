----------------------------- MODULE SmartRules ----------------------------
(***************************************************************************)
(* A smart playlist's rule: the rows it selects, and its way out to a      *)
(* Navidrome .nsp document and back.                                       *)
(*                                                                         *)
(* A rule is a tree of conditions compiled to SQL, whose comparisons with  *)
(* NULL are neither true nor false.  A document is a tree of its own with  *)
(* other names, other units and fewer operators.  The strict conversions   *)
(* refuse what the other side cannot say, the partial ones drop it and say *)
(* so; both run one walk per direction.                                    *)
(*                                                                         *)
(* Numbers are counted in parts of 1/One, so a document may hold halves of *)
(* a millisecond.  Text is a small number, 0 the empty text.  Names of     *)
(* fields stand for their classes: one plain text field, one that may be   *)
(* empty, the three with converted values, one date, and one column of     *)
(* each kind that has no .nsp name.  Alias spellings are left out.         *)
(***************************************************************************)
EXTENDS Integers, Sequences, FiniteSets, SequencesExt, FiniteSetsExt

CONSTANTS
    StoredRule,   \* the rules callers hand to an export
    Papers,       \* the documents callers hand to an import
    Rows,         \* the catalog: a value for each field
    Alike,        \* the triples <<op, text, pattern>> that LIKE accepts beyond equal text
    MaxAmount,    \* nspMaxRating, nspMaxDurationMS
    MaxDays,      \* MaxInt64 / nspDayNS
    Now           \* the time rules are evaluated at

VARIABLES
    rule,     \* the rule an export was asked for, or NoQuery
    paper,    \* the document
    part,     \* whether the export was a partial one
    keptRule, \* the rule a partial export says its document describes
    got,      \* the rule an import built
    phase     \* "rule", "paper", "refused", "exported", "imported", "unread", "stored", "rejected"

ruleVars == <<rule, paper, part, keptRule, got, phase>>

One == 2000
RatingScale == 20
Day == 24                \* nspDayNS
Second == 1000

Val(ty, n) == [ty |-> ty, n |-> n]
Num(n) == Val("num", n * One)
Bool(b) == Val("bool", IF b THEN 1 ELSE 0)
Text(n) == Val("text", n)
Null == Val("null", 0)

Group(t, kids) == [t |-> t, kids |-> kids, f |-> "", op |-> "", vals |-> << >>]
Cond(f, op, vals) == [t |-> "cond", kids |-> << >>, f |-> f, op |-> op, vals |-> vals]
Everything == Group("nil", << >>)     \* a query with no Where
Broken(code) == Cond("", code, << >>) \* a rule of a document that is not one operator on one field

Query(entity, where, mode, limit, offset, seeded, sorts) ==
    [entity |-> entity, where |-> where, mode |-> mode, limit |-> limit, offset |-> offset,
     seeded |-> seeded, sorts |-> sorts]
NoQuery == Query("none", Everything, "count", 0, 0, FALSE, << >>)

Paper(roots, rules, extra, limit, offset, sort, desc) ==
    [roots |-> roots, rules |-> rules, extra |-> extra, limit |-> limit, offset |-> offset,
     sort |-> sort, desc |-> desc]
NoPaper == Paper({}, << >>, {}, 0, 0, "", FALSE)
BadNumber == -1          \* a limit or offset that is not a whole number
BadName == "?"           \* a sort or an order that is not text

-----------------------------------------------------------------------------
(* The rows a rule selects.                                                *)

ColumnOf == [title |-> "text", album |-> "text", rating |-> "int", starred |-> "int", duration_ms |-> "int",
             last_played |-> "time", tag |-> "set", artist_pid |-> "id", library |-> "member"]

Ordered == {"gt", "lt", "gte", "lte", "before", "after"}
TextOps == {"contains", "startsWith", "endsWith"}
Membership == {"in", "notIn"}
Presence == {"isMissing", "isPresent"}
Relative == {"inTheLast", "notInTheLast"}
Equality == {"is", "isNot"}

\* the operators each kind of column compiles (compileCond and its helpers)
OpsOf(column) ==
    CASE column \in {"text", "int"} -> Equality \cup Ordered \cup TextOps \cup Membership \cup Presence \cup {"inTheRange"}
      [] column = "time" -> Equality \cup Ordered \cup TextOps \cup Membership \cup Presence \cup {"inTheRange"} \cup Relative
      [] column = "set" -> Equality \cup TextOps \cup Membership \cup Presence
      [] column \in {"id", "member"} -> Equality \cup Membership \cup Presence

\* windowNS
Window(c) == c.vals[1].ty = "num" /\ c.vals[1].n > 0 /\ c.vals[1].n % One = 0

CondCompiles(c) ==
    /\ c.f \in DOMAIN ColumnOf /\ c.op \in OpsOf(ColumnOf[c.f])
    /\ c.op = "inTheRange" => Len(c.vals) = 2
    /\ c.op \in Relative => Window(c)
    /\ c.op \in Membership => \A i \in DOMAIN c.vals : c.vals[i] # Null

RECURSIVE NodeCompiles(_)
NodeCompiles(n) ==
    CASE n.t = "cond" -> CondCompiles(n)
      [] n.t = "not" -> Len(n.kids) = 1 /\ NodeCompiles(n.kids[1])
      [] OTHER -> \A i \in DOMAIN n.kids : NodeCompiles(n.kids[i])

LimitCompiles(q) ==
    /\ q.mode = "count" => ~q.seeded
    /\ q.mode # "count" => q.limit > 0
    /\ q.sorts # << >> => q.mode # "random" /\ ~q.seeded

SortCompiles(q) == \A i \in DOMAIN q.sorts : ColumnOf[q.sorts[i]] \notin {"set", "member", "id"}

\* CompileAt
Compiles(q) == NodeCompiles(q.where) /\ LimitCompiles(q) /\ SortCompiles(q)

\* SQL truth
Tv(b) == IF b THEN "T" ELSE "F"
TvNot(x) == CASE x = "T" -> "F" [] x = "F" -> "T" [] x = "N" -> "N"
TvAnd(xs) == IF "F" \in xs THEN "F" ELSE IF "N" \in xs THEN "N" ELSE "T"
TvOr(xs) == IF "T" \in xs THEN "T" ELSE IF "N" \in xs THEN "N" ELSE "F"

\* SQLite's order of values: numbers, a bound boolean among them, before text
Sorted(v) == IF v.ty = "bool" THEN Num(v.n) ELSE v
Less(a, b) == LET x == Sorted(a) y == Sorted(b)
              IN  IF x.ty = y.ty THEN x.n < y.n ELSE x.ty = "num"
Same(a, b) == Sorted(a) = Sorted(b)
Liked(op, a, p) == a.ty = "text" /\ p.ty = "text" /\ (a = p \/ <<op, a.n, p.n>> \in Alike)
Compare(a, b, truth) == IF a = Null \/ b = Null THEN "N" ELSE Tv(truth)

\* compileCond on a scalar column holding a
ScalarCond(c, a) ==
    LET b == c.vals[1]
        empty == a = Null \/ (ColumnOf[c.f] = "text" /\ a = Text(0))
    IN  CASE c.op = "is" -> Compare(a, b, Same(a, b))
          [] c.op = "isNot" -> Compare(a, b, ~Same(a, b))
          [] c.op \in {"gt", "after"} -> Compare(a, b, Less(b, a))
          [] c.op \in {"lt", "before"} -> Compare(a, b, Less(a, b))
          [] c.op = "gte" -> Compare(a, b, ~Less(a, b))
          [] c.op = "lte" -> Compare(a, b, ~Less(b, a))
          [] c.op \in TextOps -> Compare(a, b, Liked(c.op, a, b))
          [] c.op = "inTheRange" -> TvAnd({Compare(a, b, ~Less(a, b)), Compare(a, c.vals[2], ~Less(c.vals[2], a))})
          [] c.op = "in" -> TvOr({Compare(a, c.vals[i], Same(a, c.vals[i])) : i \in DOMAIN c.vals})
          [] c.op = "notIn" -> TvAnd({Compare(a, c.vals[i], ~Same(a, c.vals[i])) : i \in DOMAIN c.vals})
          [] c.op = "isMissing" -> Tv(empty)
          [] c.op = "isPresent" -> Tv(~empty)
          [] c.op = "inTheLast" -> Compare(a, b, a.n >= Now * One - b.n)
          [] c.op = "notInTheLast" -> Tv(a = Null \/ a.n < Now * One - b.n)

IdCondPlain(c, a, known) ==
    LET lowered(v) == IF v \in known THEN v ELSE Null
    IN  CASE c.op = "is" -> Compare(a, lowered(c.vals[1]), Same(a, c.vals[1]))
          [] c.op = "isNot" -> Compare(a, lowered(c.vals[1]), ~Same(a, c.vals[1]))
          [] c.op = "in" -> TvOr({Compare(a, lowered(c.vals[i]), Same(a, c.vals[i])) : i \in DOMAIN c.vals})
          [] c.op = "notIn" -> TvAnd({Compare(a, lowered(c.vals[i]), ~Same(a, c.vals[i])) : i \in DOMAIN c.vals})
          [] OTHER -> Tv((a = Null) = (c.op = "isMissing"))
\* compileValueSubCond: the caller's pid is looked up first; one no entity holds reads NULL
IdCond(c, a, known) ==
    LET lowered(v) == IF v \in known THEN v ELSE Null
    IN  CASE c.op = "is" -> Compare(a, lowered(c.vals[1]), Same(a, c.vals[1]))
          [] c.op = "isNot" -> Compare(a, lowered(c.vals[1]), ~Same(a, c.vals[1]))
          [] c.op = "in" -> TvOr({Compare(a, lowered(c.vals[i]), Same(a, c.vals[i])) : i \in DOMAIN c.vals})
          [] c.op = "notIn" -> Tv(a = Null \/ \A i \in DOMAIN c.vals : lowered(c.vals[i]) # a)
          [] c.op = "isMissing" -> Tv(a = Null)
          [] c.op = "isPresent" -> Tv(a # Null)

\* compileSetCond, compileMemberCond: EXISTS over the values the row holds
SetCond(c, held) ==
    LET listed == {c.vals[i] : i \in DOMAIN c.vals}
    IN  CASE c.op \in {"is", "in"} -> Tv(held \cap listed # {})
          [] c.op \in {"isNot", "notIn"} -> Tv(held \cap listed = {})
          [] c.op \in TextOps -> Tv(\E v \in held : Liked(c.op, v, c.vals[1]))
          [] c.op = "isPresent" -> Tv(held \ {Text(0)} # {})
          [] c.op = "isMissing" -> Tv(held \ {Text(0)} = {})

KnownPids == {row.artist_pid : row \in Rows} \ {Null}

\* the fields of a row; tag and library hold sets
CondTruth(c, row) ==
    IF c.op \in Membership /\ c.vals = << >> THEN Tv(c.op = "notIn")
    ELSE CASE ColumnOf[c.f] \in {"set", "member"} -> SetCond(c, IF c.f = "tag" THEN row.tag ELSE row.library)
           [] ColumnOf[c.f] = "id" -> IdCond(c, row.artist_pid, KnownPids)
           [] OTHER -> ScalarCond(c, row[c.f])

RECURSIVE Truth(_, _)
Truth(n, row) ==
    CASE n.t = "cond" -> CondTruth(n, row)
      [] n.t \in {"and", "nil"} -> TvAnd({Truth(n.kids[i], row) : i \in DOMAIN n.kids})
      [] n.t = "or" -> TvOr({Truth(n.kids[i], row) : i \in DOMAIN n.kids})
      [] n.t = "not" -> TvNot(Truth(n.kids[1], row))

Selects(q) == {row \in Rows : Truth(q.where, row) = "T" /\ (q.entity = "tracks" => row.track)}

-----------------------------------------------------------------------------
(* The two vocabularies.                                                   *)

NspField == [title |-> "title", album |-> "album", rating |-> "rating", starred |-> "loved", duration_ms |-> "duration"]
NspDate == [last_played |-> "lastplayed"]
NspPresence == {"album"}
NspScaled == {"rating", "duration_ms"}
NspOp == Equality \cup TextOps \cup {"gt", "lt", "before", "after", "inTheRange"}
NspNarrow == [starred |-> Equality]

Named(table, name) == \E f \in DOMAIN table : table[f] = name
WaxField(table, name) == CHOOSE f \in DOMAIN table : table[f] = name
OpAllowed(f, op) == f \notin DOMAIN NspNarrow \/ op \in NspNarrow[f]

Gap(kind, code) == [kind |-> kind, code |-> code]
Converted(v) == [gaps |-> << >>, v |-> v]
Unconverted(kind, code) == [gaps |-> <<Gap(kind, code)>>, v |-> Null]

RatingOut(v) ==
    IF v.ty # "num" THEN Unconverted("value", "value_not_numeric")
    ELSE IF v.n >= MaxAmount * One THEN Unconverted("value", "value_too_large")
    ELSE IF v.n % (RatingScale * One) # 0 THEN Unconverted("value", "rating_not_whole_star")
    ELSE Converted(Val("num", v.n \div RatingScale))
RatingIn(v) ==
    IF v.ty # "num" THEN Unconverted("malformed", "value_not_numeric")
    ELSE IF v.n * RatingScale >= MaxAmount * One THEN Unconverted("value", "value_too_large")
    ELSE Converted(Val("num", v.n * RatingScale))
BoolOut(v) ==
    IF v.ty = "bool" THEN Converted(v)
    ELSE IF v \in {Num(0), Num(1)} THEN Converted(Bool(v = Num(1))) ELSE Unconverted("value", "value_not_boolean")
BoolIn(v) ==
    IF v.ty = "bool" THEN Converted(Num(v.n))
    ELSE IF v \in {Num(0), Num(1)} THEN Converted(v) ELSE Unconverted("malformed", "value_not_boolean")
DurationOut(v) ==
    IF v.ty # "num" THEN Unconverted("value", "value_not_numeric")
    ELSE IF v.n >= MaxAmount * One THEN Unconverted("value", "value_too_large")
    ELSE IF v.n % One # 0 THEN Unconverted("value", "duration_not_whole_ms")
    ELSE Converted(Val("num", v.n \div Second))
DurationIn(v) ==
    IF v.ty # "num" THEN Unconverted("malformed", "value_not_numeric")
    ELSE IF v.n * Second >= MaxAmount * One THEN Unconverted("value", "value_too_large")
    ELSE IF (v.n * Second) % One # 0 THEN Unconverted("value", "duration_not_whole_ms")
    ELSE Converted(Val("num", v.n * Second))

\* nspValueConvs
ValueOut(f, v) ==
    CASE f = "rating" -> RatingOut(v) [] f = "starred" -> BoolOut(v) [] f = "duration_ms" -> DurationOut(v)
      [] OTHER -> Converted(v)
ValueIn(f, v) ==
    CASE f = "rating" -> RatingIn(v) [] f = "starred" -> BoolIn(v) [] f = "duration_ms" -> DurationIn(v)
      [] OTHER -> Converted(v)

\* what a walk leaves of a node: what it became, what it stands for, or nothing and a gap
Kept(out, node) == [ok |-> TRUE, out |-> out, node |-> node, gaps |-> << >>]
Dropped(kind, code) == [ok |-> FALSE, out |-> Everything, node |-> Everything, gaps |-> <<Gap(kind, code)>>]

\* the values of a condition, converted up to the first that does not
RECURSIVE ConvertAll(_, _, _)
ConvertAll(conv(_, _), f, vals) ==
    IF vals = << >> THEN [gaps |-> << >>, vals |-> << >>]
    ELSE LET first == conv(f, Head(vals))
             rest == ConvertAll(conv, f, Tail(vals))
         IN  IF first.gaps # << >> THEN [gaps |-> first.gaps, vals |-> << >>]
             ELSE IF rest.gaps # << >> THEN rest
             ELSE [gaps |-> << >>, vals |-> <<first.v>> \o rest.vals]

KeptGroupEmpty(t, walked) ==
    LET left == SelectSeq(walked, LAMBDA w : w.ok)
    IN  [ok |-> TRUE, gaps |-> FlattenSeq([i \in DOMAIN walked |-> walked[i].gaps]),
         out |-> Group(t, [i \in DOMAIN left |-> left[i].out]),
         node |-> Group(t, [i \in DOMAIN left |-> left[i].node])]
\* a group's members that survived; one that had members and kept none goes too
KeptGroup(t, walked) ==
    LET left == SelectSeq(walked, LAMBDA w : w.ok)
        gaps == FlattenSeq([i \in DOMAIN walked |-> walked[i].gaps])
    IN  IF walked # << >> /\ left = << >>
        THEN [Dropped("shape", "group_emptied") EXCEPT !.gaps = gaps \o @]
        ELSE [ok |-> TRUE, gaps |-> gaps,
              out |-> Group(t, [i \in DOMAIN left |-> left[i].out]),
              node |-> Group(t, [i \in DOMAIN left |-> left[i].node])]
-----------------------------------------------------------------------------
(* Export.                                                                 *)

\* nspExporter.dateCond
ExportDate(c) ==
    IF c.op \notin Relative THEN Dropped("operator", "date_operator")
    ELSE IF c.vals[1].ty # "num" THEN Dropped("value", "value_not_numeric")
    ELSE IF c.vals[1].n <= 0 \/ c.vals[1].n % (Day * One) # 0 THEN Dropped("value", "window_not_whole_days")
    ELSE Kept(Cond(NspDate[c.f], c.op, <<Val("num", c.vals[1].n \div Day)>>), c)

\* nspExporter.cond, presence
ExportCond(c) ==
    IF c.f \in DOMAIN NspDate THEN ExportDate(c)
    ELSE IF c.f \notin DOMAIN NspField THEN Dropped("field", "unsupported_field")
    ELSE IF c.op \in Presence
    THEN IF c.f \in NspPresence THEN Kept(Cond(NspField[c.f], c.op, <<Bool(TRUE)>>), c)
         ELSE Dropped("operator", "presence_operator")
    ELSE IF c.op \notin NspOp THEN Dropped("operator", "unsupported_operator")
    ELSE IF c.f \in NspScaled /\ c.op \in TextOps THEN Dropped("operator", "scaled_text_operator")
    ELSE IF ~OpAllowed(c.f, c.op) THEN Dropped("operator", "boolean_operator")
    ELSE LET conv == ConvertAll(ValueOut, c.f, c.vals)
         IN  IF conv.gaps # << >> THEN [Dropped("value", "") EXCEPT !.gaps = conv.gaps]
             ELSE Kept(Cond(NspField[c.f], c.op, conv.vals), c)

\* nspExporter.not
ExportNot(n) ==
    LET c == n.kids[1]
    IN  IF c.t # "cond" \/ c.op # "contains" THEN Dropped("shape", "negation")
        ELSE IF c.f \in DOMAIN NspDate THEN Dropped("operator", "date_operator")
        ELSE IF c.f \notin DOMAIN NspField THEN Dropped("field", "unsupported_field")
        ELSE IF c.f \in NspScaled THEN Dropped("operator", "scaled_text_operator")
        ELSE IF ~OpAllowed(c.f, "notContains") THEN Dropped("operator", "boolean_operator")
        ELSE Kept(Cond(NspField[c.f], "notContains", c.vals), n)

\* nspExporter.node, children
RECURSIVE ExportNode(_)
ExportNode(n) ==
    CASE n.t = "cond" -> ExportCond(n)
      [] n.t = "not" -> ExportNot(n)
      [] OTHER -> KeptGroup(n.t, [i \in DOMAIN n.kids |-> ExportNode(n.kids[i])])

\* nspExporter.root: a bare leaf is wrapped
Wrapped(t, w) == IF t \in {"and", "or"} \/ ~w.ok THEN w ELSE [w EXCEPT !.out = Group("and", <<@>>)]
ExportRoot(n) ==
    IF n.t = "nil" THEN Kept(Group("and", << >>), n)
    ELSE Wrapped(n.t, ExportNode(n))

RootKey(out) == IF out.t = "or" THEN {"any"} ELSE {"all"}

\* nspExporter.walk, its tree written: the document, the rule it describes,
\* whether the tree survived, and the gaps
ExportAround(q, root) ==
    LET budget == q.mode \in {"minutes", "megabytes"}
        shuffle == q.mode = "random" /\ q.limit > 0
        sorts == IF shuffle THEN << >> ELSE q.sorts
        mapped == sorts # << >> /\ Head(sorts) \in DOMAIN NspField \cup DOMAIN NspDate
        sortName == IF Head(sorts) \in DOMAIN NspField THEN NspField[Head(sorts)] ELSE NspDate[Head(sorts)]
        when(b, kind, code) == IF b THEN <<Gap(kind, code)>> ELSE << >>
        limit == IF budget THEN 0 ELSE q.limit
    IN  [ok |-> root.ok,
         gaps |-> root.gaps \o when(q.entity = "files", "entity", "entity_files")
                    \o when(budget, "limit", "limit_mode") \o when(q.seeded, "limit", "limit_seed")
                    \o when(q.mode = "random" /\ q.limit <= 0, "limit", "random_needs_limit")
                    \o when(shuffle /\ q.sorts # << >>, "sort", "random_with_sorts")
                    \o when(sorts # << >> /\ ~mapped, "sort", "unsupported_sort_field")
                    \o when(Len(sorts) > 1, "sort", "extra_sort_term")
                    \o when(budget /\ q.limit # 0, "limit", "limit_budget"),
         doc |-> Paper(IF root.ok THEN RootKey(root.out) ELSE {"all"}, IF root.ok THEN root.out.kids ELSE << >>, {},
                       limit, q.offset, IF shuffle THEN "random" ELSE IF mapped THEN sortName ELSE "", FALSE),
         kept |-> Query(IF q.entity = "files" THEN "items" ELSE q.entity, root.node,
                        IF shuffle THEN "random" ELSE "count", limit, q.offset, FALSE,
                        IF mapped THEN <<Head(sorts)>> ELSE << >>)]

ExportWalk(q) == ExportAround(q, ExportRoot(q.where))

-----------------------------------------------------------------------------
(* Import.                                                                 *)

\* nspImporter.dateCond
ImportDate(f, op, v) ==
    IF op \notin Relative THEN Dropped("operator", "date_operator")
    ELSE IF v.ty # "num" THEN Dropped("malformed", "days_not_number")
    ELSE IF v.n > MaxDays * One THEN Dropped("value", "window_too_large")
    ELSE IF v.n <= 0 \/ v.n % One # 0 THEN Dropped("value", "window_not_whole_days")
    ELSE LET c == Cond(f, op, <<Val("num", v.n * Day)>>) IN Kept(c, c)

\* nspImporter.presence: a boolean that flips the operator
ImportPresence(f, op, v) ==
    IF f \notin NspPresence THEN Dropped("operator", "presence_operator")
    ELSE IF v.ty # "bool" THEN Dropped("malformed", "value_not_boolean")
    ELSE LET c == Cond(f, IF (op = "isMissing") = (v.n = 1) THEN "isMissing" ELSE "isPresent", << >>) IN Kept(c, c)

\* nspImporter.cond, opAllowed, convGap
ImportCond(f, op, vals) ==
    IF op = "inTheRange" /\ Len(vals) # 2 THEN Dropped("malformed", "range_shape")
    ELSE IF op # "inTheRange" /\ Len(vals) # 1 THEN Dropped("malformed", "bad_value")
    ELSE IF op \in Presence THEN ImportPresence(f, op, vals[1])
    ELSE IF f \in NspScaled /\ op \in TextOps \cup {"notContains"} THEN Dropped("operator", "scaled_text_operator")
    ELSE IF ~OpAllowed(f, op) THEN Dropped("operator", "boolean_operator")
    ELSE IF op = "notContains"
    THEN LET n == Group("not", <<Cond(f, "contains", vals)>>) IN Kept(n, n)
    ELSE IF op \notin NspOp THEN Dropped("operator", "unsupported_operator")
    ELSE LET conv == ConvertAll(ValueIn, f, vals)
         IN  IF conv.gaps # << >> THEN [Dropped("value", "") EXCEPT !.gaps = conv.gaps]
             ELSE LET c == Cond(f, op, conv.vals) IN Kept(c, c)

\* nspImporter.leaf
ImportLeaf(n) ==
    IF n.f = "" THEN Dropped("malformed", n.op)
    ELSE IF Named(NspDate, n.f) THEN ImportDate(WaxField(NspDate, n.f), n.op, n.vals[1])
    ELSE IF ~Named(NspField, n.f) THEN Dropped("field", "unsupported_field")
    ELSE ImportCond(WaxField(NspField, n.f), n.op, n.vals)

\* nspImporter.rule, group
RECURSIVE ImportNode(_)
ImportNode(n) ==
    IF n.t = "cond" THEN ImportLeaf(n)
    ELSE KeptGroup(n.t, [i \in DOMAIN n.kids |-> ImportNode(n.kids[i])])

ImportRoot(doc) ==
    IF doc.roots = {} THEN Dropped("malformed", "missing_root")
    ELSE ImportNode(Group(IF "all" \in doc.roots THEN "and" ELSE "or", doc.rules))

\* nspImporter.walk, sort
ImportAround(doc, root) ==
    LET limit == IF doc.limit = BadNumber THEN 0 ELSE doc.limit
        mapped == doc.sort \notin {"", BadName, "random"} /\ (Named(NspField, doc.sort) \/ Named(NspDate, doc.sort))
        sortField == IF Named(NspField, doc.sort) THEN WaxField(NspField, doc.sort) ELSE WaxField(NspDate, doc.sort)
        when(b, kind, code) == IF b THEN <<Gap(kind, code)>> ELSE << >>
    IN  [ok |-> root.ok,
         gaps |-> when(Cardinality(doc.roots) = 2, "malformed", "multiple_roots") \o root.gaps
                    \o when(doc.extra # {}, "shape", "unsupported_key")
                    \o when(doc.limit = BadNumber, "malformed", "bad_limit")
                    \o when(doc.offset = BadNumber, "malformed", "bad_offset")
                    \o when(doc.sort = BadName, "malformed", "bad_sort")
                    \o when(doc.sort = "random" /\ limit <= 0, "limit", "random_needs_limit")
                    \o when(doc.sort \notin {"", BadName, "random"} /\ ~mapped, "sort", "unsupported_sort_field"),
         kept |-> Query("items", root.node, IF doc.sort = "random" /\ limit > 0 THEN "random" ELSE "count", limit,
                        IF doc.offset = BadNumber THEN 0 ELSE doc.offset, FALSE,
                        IF mapped THEN <<sortField>> ELSE << >>)]

ImportWalk(doc) == ImportAround(doc, ImportRoot(doc))

MalformedGap(walk) == \E i \in DOMAIN walk.gaps : walk.gaps[i].kind = "malformed"

-----------------------------------------------------------------------------
(* The calls.                                                              *)

WriteStrict(walk) ==
    IF walk.gaps = << >> THEN paper' = walk.doc /\ phase' = "exported" ELSE UNCHANGED paper /\ phase' = "refused"

ExportNSP ==
    /\ phase = "rule"
    /\ WriteStrict(ExportWalk(rule))
    /\ UNCHANGED <<rule, part, keptRule, got>>

WritePartial(walk) ==
    IF walk.ok THEN paper' = walk.doc /\ keptRule' = walk.kept /\ phase' = "exported"
    ELSE UNCHANGED <<paper, keptRule>> /\ phase' = "refused"

ExportNSPPartial ==
    /\ phase = "rule" /\ part' = TRUE
    /\ WritePartial(ExportWalk(rule))
    /\ UNCHANGED <<rule, got>>

ReadStrict(walk) ==
    IF walk.gaps = << >> THEN got' = walk.kept /\ phase' = "imported"
    ELSE UNCHANGED got /\ phase' = IF phase = "exported" THEN "unread" ELSE "refused"

ImportNSP ==
    /\ phase \in {"paper", "exported"}
    /\ ReadStrict(ImportWalk(paper))
    /\ UNCHANGED <<rule, paper, part, keptRule>>

ReadPartial(walk) ==
    IF ~MalformedGap(walk) /\ walk.ok THEN got' = walk.kept /\ phase' = "imported"
    ELSE UNCHANGED got /\ phase' = "refused"

ImportNSPPartial ==
    /\ phase = "paper" /\ part' = TRUE
    /\ ReadPartial(ImportWalk(paper))
    /\ UNCHANGED <<rule, paper, keptRule>>

\* CreatePlaylist compiles what an import built before it stores it
StoreRule ==
    /\ phase = "imported"
    /\ phase' = IF Compiles(got) THEN "stored" ELSE "rejected"
    /\ UNCHANGED <<rule, paper, part, keptRule, got>>

RulesInit ==
    /\ part = FALSE /\ keptRule = NoQuery /\ got = NoQuery
    /\ \/ phase = "rule" /\ rule \in {q \in StoredRule : Compiles(q)} /\ paper = NoPaper
       \/ phase = "paper" /\ rule = NoQuery /\ paper \in Papers

RulesNext == ExportNSP \/ ExportNSPPartial \/ ImportNSP \/ ImportNSPPartial \/ StoreRule

RulesSpec == RulesInit /\ [][RulesNext]_ruleVars

-----------------------------------------------------------------------------
(* Properties.                                                             *)

(* A rule that exports strictly imports strictly, and the rule that comes  *)
(* back selects the same rows in the same order, limit and shuffle; a rule *)
(* over tracks comes back over every kind of item, which the report notes. *)
StrictRoundTrip ==
    rule # NoQuery =>
      /\ phase # "unread"
      /\ phase = "imported" /\ ~part =>
           /\ Selects([got EXCEPT !.entity = rule.entity]) = Selects(rule)
           /\ got.sorts = rule.sorts /\ got.limit = rule.limit /\ got.offset = rule.offset /\ got.mode = rule.mode

\* A walk that left nothing out and wrote the document there is.
IsPaperOf(walk) == walk.gaps = << >> /\ walk.doc = paper

(* The rule a partial export reports is the one its document describes:    *)
(* exporting it strictly gives the same document (NSPExport).              *)
PartialIsItsRule ==
    phase = "exported" /\ part => IsPaperOf(ExportWalk(keptRule))

RECURSIVE HasEmptyGroup(_)
HasEmptyGroup(n) == n.t # "cond" /\ (n.kids = << >> \/ \E i \in DOMAIN n.kids : HasEmptyGroup(n.kids[i]))

(* A partial conversion of a rule without empty groups leaves none either: *)
(* an emptied "all" would match the whole library and an emptied "any"     *)
(* nothing (children, group).                                              *)
NoGroupEmptied ==
    /\ phase = "exported" /\ part => (HasEmptyGroup(keptRule.where) => HasEmptyGroup(rule.where))
    /\ phase = "imported" /\ part /\ rule = NoQuery =>
         (HasEmptyGroup(got.where) => HasEmptyGroup(Group("and", paper.rules)))

RECURSIVE BrokenRule(_)
BrokenRule(n) ==
    IF n.t # "cond" THEN \E i \in DOMAIN n.kids : BrokenRule(n.kids[i])
    ELSE \/ n.f = ""
         \/ n.f = "rating" /\ n.op \in {"is", "gt", "lt"} /\ n.vals[1].ty # "num"
         \/ n.f = "lastplayed" /\ n.op \in Relative /\ n.vals[1].ty # "num"

(* A document with a part that is broken rather than foreign is refused,   *)
(* by the partial import too, wherever that part stands                    *)
(* (ImportNSPPartial).                                                     *)
BrokenRefused ==
    phase = "imported" /\ rule = NoQuery =>
      /\ Cardinality(paper.roots) = 1 /\ BadNumber \notin {paper.limit, paper.offset} /\ paper.sort # BadName
      /\ \A i \in DOMAIN paper.rules : ~BrokenRule(paper.rules[i])

(* What an import builds compiles: the check where a rule is stored never  *)
(* turns an imported one away (nspRuleCheck calls it a backstop).          *)
ImportsCompile == phase # "rejected"

(* The conversions of a rule: what comes back selects what was sent, a     *)
(* partial one is exact about what it kept, and a broken document is never *)
(* pruned into a rule (ExportNSP, ExportNSPPartial, ImportNSP,             *)
(* ImportNSPPartial).                                                      *)
ConversionsHold == StrictRoundTrip /\ PartialIsItsRule /\ NoGroupEmptied /\ BrokenRefused /\ ImportsCompile

Opposite == [is |-> "isNot", in |-> "notIn", isMissing |-> "isPresent", inTheLast |-> "notInTheLast"]
RECURSIVE CondsOf(_)
CondsOf(n) == IF n.t = "cond" THEN {n} ELSE UNION {CondsOf(n.kids[i]) : i \in DOMAIN n.kids}

(* Every row answers a condition or its opposite, with the three documented*)
(* exceptions: a scalar comparison with NULL answers neither, and so does  *)
(* isNot of an entity that does not exist; a deny-list over an identity,   *)
(* a tag or a library takes the rows that hold nothing (Column.ValueSub).  *)
OppositesCover ==
    \A c \in CondsOf(rule.where) : c.op \in DOMAIN Opposite =>
      \A row \in Rows :
        LET one == CondTruth(c, row)
            other == CondTruth([c EXCEPT !.op = Opposite[c.op]], row)
            scalar == ColumnOf[c.f] \in {"text", "int", "time"}
        IN  /\ {one, other} # {"T"}
            /\ (c.op = "inTheLast" \/ c.op = "isMissing" \/ (~scalar /\ c.op = "in") \/ ColumnOf[c.f] \in {"set", "member"})
                 => "T" \in {one, other}
            /\ scalar /\ c.op \in {"is", "in"} /\ row[c.f] = Null /\ c.vals # << >> => "T" \notin {one, other}
=============================================================================
