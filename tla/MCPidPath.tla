----------------------------- MODULE MCPidPath -----------------------------
(***************************************************************************)
(* Small catalogs and a goroutine that looks items up (PidPath); and the   *)
(* search index of three items, two artists and two albums, written by     *)
(* edits beside its repair or beside a search (Search).  Each behaviour is *)
(* of one part, so that one run checks both.                               *)
(***************************************************************************)
EXTENDS PidPath, Search

VARIABLE runs  \* the part this behaviour is of

MCSymmetry == Permutations(Item) \cup Permutations(File) \cup Permutations(Thread)

\* texts: 1 x, 2 the x, 3 y, 4 a symbol, 5 "x y"
MCWords == [t \in 0..5 |-> CASE t = 1 -> {"x"} [] t = 2 -> {"the", "x"} [] t = 3 -> {"y"} [] t = 5 -> {"x", "y"} [] OTHER -> {}]
MCMatchKey == [t \in 0..5 |-> IF t = 4 THEN 0 ELSE t]
MCFold == [t \in 0..5 |-> IF t = 2 THEN 1 ELSE t]
MCOldFold == [t \in 0..5 |-> IF t = 2 THEN 3 ELSE t]
MCTierOne == {<<2, 1>>, <<5, 1>>, <<5, 3>>}
Entry(k, ti, ar, al, cr, ta, li, sh) == [kind |-> k, title |-> ti, spell |-> 0, artist |-> ar, album |-> al, credit |-> cr, talk |-> ta,
   state |-> "present", libs |-> li, prim |-> Min(li), show |-> sh]
Ent(n) == [name |-> n, sort |-> 0]
Blank(it, ar, al) == [item |-> it, artist |-> ar, album |-> al, keys |-> [r \in KeyRow |-> <<0, 0>>], fts |-> [i \in ItemId |-> NoFtsRow]]
InStep(db) == LET k == [db EXCEPT !.keys = [r \in KeyRow |-> IF HasKeyRow(db, r) THEN KeysOf(db, r) ELSE <<0, 0>>]] IN RebuildItemSearchFTS(k, ItemId)
OldKeys(db) == [db EXCEPT !.keys = [r \in KeyRow |-> IF HasKeyRow(db, r) THEN [j \in 1..2 |-> OldFoldOf[KeyTexts(db, r)[j]]] ELSE <<0, 0>>]]
Shelf1 == InStep(Blank(<<Entry("track", 2, 1, 1, 2, 0, {1}, 0), Entry("track", 3, 2, 2, 0, 0, {1, 2}, 0), Entry("book", 5, 1, 0, 0, 0, {2}, 0), NoEntry>>,
          <<Ent(2), Ent(1)>>, <<Ent(1), Ent(5)>>))
Shelf2 == InStep(Blank(<<Entry("episode", 1, 0, 0, 0, 3, {1}, 1), Entry("track", 1, 2, 1, 0, 0, {2}, 0), Entry("episode", 3, 0, 0, 0, 1, {1}, 2), NoEntry>>,
          <<Ent(2), Ent(1)>>, <<Ent(4), Ent(1)>>))
Stale(db) == [OldKeys(db) EXCEPT !.fts[1] = NoFtsRow, !.fts[2].title = 4, !.fts[4] = db.fts[1]]
MCShelfStart == {Shelf1, Shelf2, Stale(Shelf1), Stale(Shelf2)}
MCNewItems == {Entry("track", 1, 2, 2, 0, 0, {1}, 0)}
MCNewTitles == {3, 5}
MCNewNames == {1, 3}
MCNewPlaces == {[libs |-> {2}, prim |-> 2, state |-> "missing"]}
Ask(t, l, c) == [text |-> t, limit |-> l, cap |-> c, libs |-> {}, prims |-> {}, states |-> {}, shows |-> {}]
MCQuestions == {Ask(1, 1, 0), Ask(1, 2, 1), Ask(3, 2, 1), Ask(4, 1, 0), [Ask(1, 2, 1) EXCEPT !.libs = {1}], [Ask(1, 1, 2) EXCEPT !.states = {"present"}, !.shows = {{2}}], [Ask(3, 2, 0) EXCEPT !.prims = {2}, !.shows = {{}}]}

\* The variables of the part a behaviour is not of keep one value: those of
\* PidPath the one they start with.
PathIdle == Init /\ kind = "own"
SearchIdle == shelf = 0 /\ fix = 0 /\ find = 0 /\ edits = 0 /\ fixes = 0 /\ fixFaults = 0 /\ searches = 0
   /\ drifted = 0 /\ crossed = 0 /\ stood = 0 /\ ever = 0
MCInit ==
  \/ runs = "paths" /\ Init /\ SearchIdle
  \/ runs \in {"repair", "search"} /\ SearchInit /\ PathIdle

MCNext ==
  \/ runs = "paths" /\ Next /\ UNCHANGED <<searchVars, runs>>
  \/ /\ \/ runs \in {"repair", "search"} /\ WriterNext
        \/ runs = "repair" /\ FixNext
        \/ runs = "search" /\ FindNext
     /\ UNCHANGED <<vars, runs>>

MCSpec == MCInit /\ [][MCNext]_<<vars, searchVars, runs>>

\* The search index and the sort keys follow every write and every repair
\* (searchindex.go, sortkeys.go), and a search misses no row that matches and
\* returns none that does not (search.go).
SearchHolds == runs \in {"repair", "search"} => IndexInStep /\ AnswerHolds
=============================================================================
