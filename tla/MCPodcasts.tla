----------------------------- MODULE MCPodcasts ----------------------------
(***************************************************************************)
(* The episode files of one show, the subscriptions, the play state of one *)
(* user and one item, and two playlists over four songs, two of them cut   *)
(* from one rip and one without a file: each behaviour is one of the four, *)
(* so that one run checks them all.                                        *)
(***************************************************************************)
EXTENDS Podcast, Feeds, PlayState, Playlists

VARIABLE runs  \* the part this behaviour is of

MCPathOf == [s \in Song |-> CASE s = "a" -> "/x" [] s \in {"b", "c"} -> "/r" [] s = "d" -> NoPath]
MCBehind == [p \in {"/x", "/x2", "/r", "r", NoPath} |->
               CASE p \in {"/x", "/x2"} -> {"a"} [] p \in {"/r", "r"} -> {"b", "c"} [] p = NoPath -> {}]
MCLabelOf == [s \in Song |-> CASE s = "a" -> "A - S" [] s \in {"b", "c"} -> "B - T" [] s = "d" -> "D - U"]
MCTitleOf == [s \in Song |-> CASE s = "a" -> "S" [] s \in {"b", "c"} -> "T" [] s = "d" -> "U"]
MCSecsOf == [s \in Song |-> CASE s = "a" -> 3 [] s = "b" -> 2 [] s = "c" -> 5 [] s = "d" -> 0]
MCBytesOf == [s \in Song |-> CASE s = "a" -> 1 [] s \in {"b", "c"} -> 2 [] s = "d" -> 0]
MCSortOrder == <<"a", "d", "b", "c">>
MCShuffleOrder == <<"c", "a", "b", "d">>
Smart(w, m, l, o, sd) == [where |-> w, mode |-> m, limit |-> l, offset |-> o, seeded |-> sd, sorted |-> FALSE]
MCSmartRule ==
  {Smart("starred", "count", 0, 0, FALSE), Smart("all", "count", 1, 1, FALSE), Smart("filed", "count", 2, 0, FALSE),
   Smart("all", "minutes", 5, 0, TRUE), Smart("filed", "megabytes", 3, 1, FALSE),
   Smart("all", "random", 2, 0, TRUE), Smart("all", "random", 0, 0, TRUE)}
Line(p, l, n) == [path |-> p, label |-> l, secs |-> n]
MCDocument == {<<Line("/x", NoLabel, -1), Line("/x2", NoLabel, -1), Line("r", "T", 5)>>,
               <<Line("r", "B - T", -1), Line("/x", "wrong", 3)>>}
MCChoice == {<<"a">>, <<"b", "a">>, <<"c", "c">>}
MCScopes == {[set |-> FALSE, songs |-> Song], [set |-> TRUE, songs |-> {"a", "b"}]}
MCNarrows == {Song, {"a", "c"}, {"b"}}
MCOldList == 0 :> "b" @@ 2 :> "a" @@ 3 :> "b"

\* The variables of the parts a behaviour is not of keep one value, those of the play
\* state, of the shows and of the episode files one they begin with, so that PlayHolds
\* is PlayState's own, FeedsHold is Feeds' own and EpisodesHold is Podcast's own.
PodIdle == PodInit /\ \A e \in Episode : ~Filed(e) /\ ~episodes[e].pinned
ListsIdle == catalog = 0 /\ lists = 0 /\ covers = 0 /\ queue = 0 /\ starred = 0 /\ seen = 0 /\ pending = 0 /\ told = 0
   /\ cut = 0 /\ listOps = 0
MCInit ==
  \/ runs = "files" /\ PodInit /\ FeedsInit /\ StateInit /\ ListsIdle
  \/ runs = "feeds" /\ FeedsInit /\ PodIdle /\ StateInit /\ ListsIdle
  \/ runs = "play" /\ StateInit /\ PodIdle /\ FeedsInit /\ ListsIdle
  \/ runs = "lists" /\ ListsInit /\ PodIdle /\ FeedsInit /\ StateInit

MCNext ==
  \/ runs = "files" /\ PodNext /\ UNCHANGED <<feedVars, stateVars, listVars, runs>>
  \/ runs = "feeds" /\ FeedsNext /\ UNCHANGED <<podVars, stateVars, listVars, runs>>
  \/ runs = "play" /\ StateNext /\ UNCHANGED <<podVars, feedVars, listVars, runs>>
  \/ runs = "lists" /\ ListsNext /\ UNCHANGED <<podVars, feedVars, stateVars, runs>>

MCVars == <<podVars, feedVars, stateVars, listVars, runs>>
MCSpec == MCInit /\ [][MCNext]_MCVars

(***************************************************************************)
(* The properties of the parts, each over the behaviours of its own part.  *)
(***************************************************************************)
\* Entries name items, positions are indexes, counts and documents say what the
\* lists hold; subscribers are told of every change of a list, and a removal
\* takes what the caller saw (playlist.go).
ListsHold ==
  /\ [](runs = "lists" => EntriesStand /\ PositionsAreIndexes /\ CountExact /\ RoundTrip /\ CoverHasPlaylist)
  /\ [][runs = "lists" => ListingTold /\ RemovesWhatWasSeen]_MCVars
=============================================================================
