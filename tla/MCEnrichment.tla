---------------------------- MODULE MCEnrichment ---------------------------
(***************************************************************************)
(* Enrichment passes over one table at a time, imports of staged files, or *)
(* the acquisition records of one item and one imported later.            *)
(* Two providers: one serves every slot, the other fronts only.  Two       *)
(* libraries; a book of two parts with another encoding of the first and   *)
(* an untitled file beside it, and three tracks, two of them one recording *)
(* and two with one destination.                                           *)
(***************************************************************************)
EXTENDS Enrich, Inbox, Origins

VARIABLE runs  \* the part that runs

MCProviders == <<"all", "fronts">>
MCServes == [all |-> {"front", "aux", "lyrics", "fields", "genres"}, fronts |-> {"front"}]

Staged(kind, album, part, folder, audio, work, place, strong, rank, to) ==
  [kind |-> kind, album |-> album, part |-> part, folder |-> folder, audio |-> audio, work |-> work, place |-> place,
   strong |-> strong, rank |-> rank, slot |-> to, readable |-> TRUE]
MCManaged == <<"m", "b">>
MCMediaOf == [m |-> "mixed", b |-> "audiobook"]
MCTagsOf == [p1 |-> Staged("book", "B", TRUE, "x", "a1", "w1", 1, TRUE, 1, "B"),
             p2 |-> Staged("book", "B", TRUE, "x", "a2", "w2", 2, FALSE, 1, "B"),
             p1c |-> Staged("book", "B", TRUE, "x", "a3", "w1", 1, FALSE, 2, "B"),
             n3 |-> Staged("track", "", TRUE, "x", "a4", "w4", 3, FALSE, 1, "n3"),
             t1 |-> Staged("track", "A", FALSE, "y", "a5", "w5", 1, FALSE, 1, "t1"),
             t2 |-> Staged("track", "A", FALSE, "y", "a6", "w6", 2, FALSE, 1, "t1"),
             t3 |-> Staged("track", "A", FALSE, "y", "a5", "w5", 3, FALSE, 1, "t3")]
MCStagedOrder == <<"n3", "p1", "p1c", "p2", "t1", "t2", "t3">>
Ask(files, lib, dup, copy, hold, kind) == [files |-> files, lib |-> lib, dup |-> dup, copy |-> copy, hold |-> hold, kind |-> kind]
MCAsks == {Ask(<<"n3", "p1", "p1c", "p2">>, "", "skip", FALSE, FALSE, ""), Ask(<<"t1", "t2", "t3">>, "m", "skip", FALSE, TRUE, ""),
           Ask(<<"p2", "p1c">>, "m", "allow", TRUE, TRUE, ""), Ask(<<"t3", "p1">>, "", "skip", TRUE, FALSE, "track"),
           Ask(<<"p2">>, "b", "skip", TRUE, FALSE, "book")}
Held(at, row, gone) == [at |-> at, row |-> row, gone |-> gone]
MCCatalogAtStart ==
  { << >>,
    <<Held(At("b", "B", 0, 1), FileRow("a1", "B", "book", "part", 1), TRUE), Held(At("m", "t3", 0, 1), FileRow("a9", "q", "track", "part", 0), TRUE)>>,
    <<Held(At("b", "B", 1, 1), FileRow("a3", "B", "book", "part", 1), FALSE), Held(At("m", "t9", 0, 1), FileRow("a5", "r", "track", "part", 0), TRUE)>> }

Event(type, url, id, provider, version, options) ==
  [type |-> type, url |-> url, id |-> id, provider |-> provider, version |-> version, options |-> options, at |-> 3]
MCAcquisitions == {[url |-> "u1", id |-> "i1", provider |-> "p"], [url |-> "u2", id |-> "i1", provider |-> "q"],
                   [url |-> "u1", id |-> "i2", provider |-> "p"]}
MCEvents == {Event("rss", "u1", "i1", "p", "1", ""), Event("", "u2", "i1", "q", "", "o"), Event("manual", "", "i2", "p", "1", ""),
             Event("manual", "", "", "q", "2", ""), Event("", "u2", "", "", "", ""), Event("", "u2", "i1", "", "", "o")}
MCOriginTags == {NoTags, [url |-> "u1", id |-> ""], [url |-> "", id |-> "i1"]}

\* The variables of the parts a behaviour is not of keep one value.
InboxIdle == staged = 0 /\ disk = 0 /\ fileRows = 0 /\ readOnly = 0 /\ away = 0 /\ plans = 0 /\ apply = 0
   /\ lastApply = 0 /\ viaSkip = 0 /\ inboxLeft = 0
OriginsIdle == OriginsInit /\ fileTags = [i \in Items |-> NoTags]
\* Bounds: two rows for the books, one for the others, and no forced passes over
\* albums and groups.
MCInit ==
  \/ /\ runs = "enrich" /\ EnrichInit /\ InboxIdle /\ OriginsIdle
     /\ hands = MaxHands
     /\ entity = IF table = "book" THEN <<1, 1>> ELSE <<1, 0>>
  \/ runs = "inbox" /\ InboxInit /\ EnrichStart /\ OriginsIdle
  \/ runs = "origins" /\ OriginsInit /\ EnrichStart /\ InboxIdle

MCNext ==
  \/ /\ runs = "enrich" /\ EnrichNext
     /\ table # "book" => entity'[2] = 0
     /\ (table \in {"album", "release_group"} /\ pass' # NoPass) => pass'.how = Unforced
     /\ UNCHANGED <<inboxVars, originVars, runs>>
  \/ runs = "inbox" /\ InboxNext /\ UNCHANGED <<enrichVars, originVars, runs>>
  \/ runs = "origins" /\ OriginsNext /\ UNCHANGED <<enrichVars, inboxVars, runs>>

MCVars == <<enrichVars, inboxVars, originVars, runs>>
MCSpec == MCInit /\ [][MCNext]_MCVars

(***************************************************************************)
(* The properties of the parts, each over the behaviours of its own part.  *)
(***************************************************************************)
\* Imports land a book whole and a recording once, and replace no file and no
\* row (inbox.go).
ImportsHold == [](runs = "inbox" => ImportsWhole) /\ [][runs = "inbox" => ImportsTakeNothing]_MCVars
=============================================================================
