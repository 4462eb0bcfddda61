------------------------------- MODULE Enrich -------------------------------
(***************************************************************************)
(* Enrichment (enrich/enrich.go, store/sqlite/enrich.go).  A pass walks    *)
(* the catalog in phases and asks MusicBrainz and the other providers      *)
(* about each row that is due.  A marker per row and lookup remembers what *)
(* came of it: a match, a miss to be asked again after a while, or a       *)
(* lookup still owed because a provider failed.  The network lies between  *)
(* the page of rows a phase reads and the transaction that stores each     *)
(* answer, and the catalog goes on changing meanwhile.                     *)
(*                                                                         *)
(* A behaviour is about the rows of one table, which has its own phases.   *)
(* Lookup "identity" is the row's MusicBrainz identity; the others fill    *)
(* the slot of their name, and a group's identity also fills its genres.   *)
(* A marker's age counts passes and idle time, so that passes may go on    *)
(* for ever in finitely many states.                                       *)
(***************************************************************************)
EXTENDS Integers, Sequences, FiniteSets, SequencesExt

CONSTANTS
  Row,          \* rowids 1..n of the table
  Providers,    \* the providers in the order they are asked
  Serves,       \* provider -> the slots it can fill
  TripAfter,    \* failures in a row after which a provider is left out of the pass
  Limit,        \* targets a pass may take, 0 for no limit
  OwedWindow,   \* age at which an owed lookup is settled as it stands
  RetryAfter,   \* age at which a miss is asked again, 0 for never
  Forcing,      \* bound: the ways a pass may be forced
  MaxHands,     \* bound: changes from outside a pass
  TablesRun     \* the tables the behaviours are about

ASSUME EnrichAssumption ==
  /\ Row \subseteq Nat \ {0} /\ IsFiniteSet(Row)
  /\ {TripAfter, OwedWindow} \subseteq Nat \ {0}
  /\ {Limit, RetryAfter} \subseteq Nat /\ Forcing \subseteq Nat
  /\ TablesRun \subseteq {"artist", "release_group", "album", "book", "track"}

Lookup == {"identity", "front", "aux", "lyrics", "fields"}
Slot == Lookup \cup {"genres"}
NoMark == [age |-> -1]
Oldest == IF OwedWindow > RetryAfter THEN OwedWindow ELSE RetryAfter

VARIABLES
  table,    \* the table this behaviour is about
  entity,   \* row -> the entity it holds, 0 for none; a rowid is used again
  mark,     \* entity_enrichment: lookup -> row -> a marker
  slot,     \* slot -> row -> "open", "found" (by a provider) or "hand"
  pass,     \* the pass under way, or NoPass
  asked,    \* history: the lookups the pass has asked
  unnamed,  \* history: art markers whose request had no MBID
  hands     \* changes from outside that may still be made

enrichVars == <<table, entity, mark, slot, pass, asked, unnamed, hands>>
NoPass == [sweeps |-> <<>>]
NoAnswer == [row |-> 0]
Unforced == 0
AllForced == 9

\* phases: the phases of a table's rows, in the order a pass walks them, each with its lookups.
PhasesOf ==
  [artist |-> <<{"identity"}, {"front", "aux"}>>,
   release_group |-> <<{"identity"}, {"front", "aux"}>>,
   album |-> <<{"identity"}, {"front", "aux"}, {"fields"}>>,
   book |-> <<{"identity"}, {"fields"}>>,
   track |-> <<{"lyrics"}, {"fields"}>>]
Phases == PhasesOf[table]
Phase == Phases[pass.ph]

EnrichInit ==
  /\ table \in TablesRun
  /\ entity \in [Row -> {0, 1}]
  /\ mark = [l \in Lookup |-> [r \in Row |-> NoMark]]
  /\ slot = [s \in Slot |-> [r \in Row |-> "open"]]
  /\ pass = NoPass /\ asked = {} /\ unnamed = {} /\ hands \in 0..MaxHands

-----------------------------------------------------------------------------
(* The queues                                                              *)

\* Without the date: what this pass left owed would be due again.
IsDueUndated(l, r, sweep) ==
  LET k == mark[l][r] IN
  CASE sweep = "all" -> TRUE
    [] sweep = "fresh" -> k = NoMark
    [] sweep = "deferred" -> k # NoMark /\ k.owed
    [] sweep = "retry" -> RetryAfter > 0 /\ k # NoMark /\ ~k.owed /\ ~k.matched /\ k.age >= RetryAfter

\* notEnriched: what a sweep asks of a marker.  The pass's own markers have age 0, and so are
\* not older than the instant the owed sweep measures against.
IsDue(l, r, sweep) ==
  LET k == mark[l][r] IN
  CASE sweep = "all" -> TRUE
    [] sweep = "fresh" -> k = NoMark
    [] sweep = "deferred" -> k # NoMark /\ k.owed /\ (pass.deferred => k.age > 0)
    [] sweep = "retry" -> RetryAfter > 0 /\ k # NoMark /\ ~k.owed /\ ~k.matched /\ k.age >= RetryAfter

Vacant(l, r) == slot[l][r] = "open"

\* artHalfSQL.state: 1 never asked, 2 owed, 3 an expired miss.
HalfState(l, r, sweep) ==
  CASE ~Vacant(l, r) -> 0
    [] Vacant(l, r) /\ (sweep = "all" \/ IsDue(l, r, "fresh")) -> 1
    [] Vacant(l, r) /\ sweep # "all" /\ IsDue(l, r, "deferred") -> 2
    [] Vacant(l, r) /\ sweep # "all" /\ IsDue(l, r, "retry") -> 3
    [] OTHER -> 0

ArtistsNeedingEnrichment(sweep) == {r \in Row : IsDue("identity", r, sweep)}
ReleaseGroupsNeedingEnrichment(sweep) == {r \in Row : IsDue("identity", r, sweep)}
BooksNeedingEnrichment(sweep) == {r \in Row : IsDue("identity", r, sweep)}
AlbumsNeedingReleaseMatch(sweep) == {r \in Row : Vacant("identity", r) /\ IsDue("identity", r, sweep)}
HalfDue(h, r, sweep) == Vacant(h, r) /\ IsDue(h, r, sweep)
ArtistsNeedingArtBackfill(sweep) == {r \in Row : \E h \in {"front", "aux"} : HalfDue(h, r, sweep)}
ReleaseGroupsNeedingArt(sweep) == {r \in Row : \E h \in {"front", "aux"} : HalfDue(h, r, sweep)}
AlbumsNeedingArt(sweep) == {r \in Row : \E h \in {"front", "aux"} : HalfDue(h, r, sweep)}
ItemsNeedingLyrics(sweep) == {r \in Row : Vacant("lyrics", r) /\ IsDue("lyrics", r, sweep)}
ItemsNeedingFields(sweep) == {r \in Row : Vacant("fields", r) /\ IsDue("fields", r, sweep)}
AlbumsNeedingFields(sweep) == {r \in Row : Vacant("fields", r) /\ IsDue("fields", r, sweep)}

\* The rows a phase's queue gives under a sweep.
QueueOf(ph, sweep) ==
  CASE ph = {"identity"} /\ table = "artist" -> ArtistsNeedingEnrichment(sweep)
    [] ph = {"identity"} /\ table = "release_group" -> ReleaseGroupsNeedingEnrichment(sweep)
    [] ph = {"identity"} /\ table = "book" -> BooksNeedingEnrichment(sweep)
    [] ph = {"identity"} /\ table = "album" -> AlbumsNeedingReleaseMatch(sweep)
    [] ph = {"front", "aux"} /\ table = "artist" -> ArtistsNeedingArtBackfill(sweep)
    [] ph = {"front", "aux"} /\ table = "release_group" -> ReleaseGroupsNeedingArt(sweep)
    [] ph = {"front", "aux"} /\ table = "album" -> AlbumsNeedingArt(sweep)
    [] ph = {"lyrics"} -> ItemsNeedingLyrics(sweep)
    [] ph = {"fields"} /\ table = "album" -> AlbumsNeedingFields(sweep)
    [] OTHER -> ItemsNeedingFields(sweep)

-----------------------------------------------------------------------------
(* The driver                                                              *)

\* Every marker grows older as time passes.
Older(marks) ==
  [l \in Lookup |-> [r \in Row |-> IF marks[l][r] = NoMark THEN NoMark
                                  ELSE [marks[l][r] EXCEPT !.age = IF @ < Oldest THEN @ + 1 ELSE @]]]

\* ExpireDeferredLookups: lookups owed too long are settled as they stand.
Expired(marks) ==
  [l \in Lookup |-> [r \in Row |->
     IF marks[l][r] # NoMark /\ marks[l][r].owed /\ marks[l][r].age >= OwedWindow
     THEN [marks[l][r] EXCEPT !.owed = FALSE] ELSE marks[l][r]]]

SomeOwed(marks) == \E l \in Lookup, r \in Row : marks[l][r] # NoMark /\ marks[l][r].owed

\* ExpiredMissesExist
ExpiredMissesExist(marks) ==
  RetryAfter > 0 /\ \E l \in Lookup, r \in Row :
    marks[l][r] # NoMark /\ ~marks[l][r].owed /\ ~marks[l][r].matched /\ marks[l][r].age >= RetryAfter

\* Run: how it starts.  how is Unforced, AllForced, or the number of the phase that is forced.
StartPass(how) ==
  LET older == Older(mark)
      settled == IF how # AllForced /\ SomeOwed(older) THEN Expired(older) ELSE older
      sweeps == IF how = AllForced THEN <<"all">>
                ELSE <<"fresh">> \o (IF SomeOwed(settled) THEN <<"deferred">> ELSE <<>>)
                                 \o (IF ExpiredMissesExist(settled) THEN <<"retry">> ELSE <<>>)
  IN
  /\ pass = NoPass
  /\ mark' = settled
  /\ pass' = [sweeps |-> sweeps, n |-> 1, ph |-> 1, after |-> 0, page |-> <<>>,
              deferred |-> how # AllForced /\ SomeOwed(settled), how |-> how, done |-> 0,
              fails |-> [p \in ToSet(Providers) |-> 0], out |-> {}, stalled |-> {},
              browsed |-> "no", answer |-> NoAnswer]
  /\ asked' = {}
  /\ UNCHANGED <<table, entity, slot, unnamed, hands>>

ForcingPhase == pass.how = pass.ph
Sweep == IF ForcingPhase THEN "all" ELSE pass.sweeps[pass.n]
OwedWalk == pass.sweeps[pass.n] = "deferred"

\* st.owes: a failure on the owed sweep is that lookup's last.
OwesAlways(failed) == failed
Owes(failed) == failed /\ ~OwedWalk
LimitReached == Limit > 0 /\ pass.done >= Limit

\* Run: the next phase, or the first of the next sweep; a forced phase runs in the first only.
NextPhase(p) ==
  IF p.ph < Len(Phases) THEN [p EXCEPT !.ph = @ + 1, !.after = 0, !.page = <<>>]
  ELSE IF p.n < Len(p.sweeps) THEN [p EXCEPT !.n = @ + 1, !.ph = 1, !.after = 0, !.page = <<>>]
  ELSE NoPass

SkipForced == pass.n > 1 /\ ForcingPhase

\* A row as the page has it: which of the phase's lookups are due, and whether genres are wanted.
TargetOf(r) ==
  [row |-> r, due |-> [l \in Phase |-> IF l \in {"front", "aux"} THEN HalfState(l, r, Sweep) ELSE 1],
   genres |-> slot["genres"][r] = "open", named |-> slot["identity"][r] # "open"]

\* The row of a page at place k: rows come in the order of their rowids.
Nth(rows, k) == CHOOSE r \in rows : Cardinality({x \in rows : x <= r}) = k

\* runSweep: the next page of the phase's queue, or its end.
FetchPage ==
  /\ pass # NoPass /\ pass.page = <<>> /\ pass.answer = NoAnswer
  /\ LET rows == {r \in QueueOf(Phase, Sweep) : r > pass.after /\ entity[r] # 0}
         n == Cardinality(rows)
     IN  pass' = IF SkipForced \/ LimitReached \/ pass.ph \in pass.stalled \/ rows = {} THEN NextPhase(pass)
                 ELSE [pass EXCEPT !.page = [k \in 1..n |-> TargetOf(Nth(rows, k))], !.after = Nth(rows, n)]
  /\ asked' = IF pass' = NoPass THEN {} ELSE asked
  /\ UNCHANGED <<table, entity, mark, slot, unnamed, hands>>

\* st.live: some provider that serves one of the slots is still in the pass.
LiveFor(slots) == \E p \in ToSet(Providers) \ pass.out : Serves[p] \cap slots # {}

Dropped(p) == [p EXCEPT !.page = Tail(@)]
DueOf(t) == {l \in Phase : t.due[l] # 0}

\* stall: nobody is left to ask for this phase, so it ends for this pass, its markers untouched.
Stall ==
  /\ pass # NoPass /\ pass.page # <<>> /\ pass.answer = NoAnswer /\ Phase # {"identity"} /\ ~LiveFor(Phase)
  /\ pass' = [pass EXCEPT !.stalled = @ \cup {pass.ph}, !.page = <<>>]
  /\ UNCHANGED <<table, entity, mark, slot, asked, unnamed, hands>>

\* runSweep: a target whose due halves nobody can answer is passed over.
PassOver ==
  /\ pass # NoPass /\ pass.page # <<>> /\ pass.answer = NoAnswer
  /\ Phase = {"front", "aux"} /\ LiveFor(Phase) /\ ~LiveFor(DueOf(Head(pass.page)))
  /\ pass' = Dropped(pass)
  /\ UNCHANGED <<table, entity, mark, slot, asked, unnamed, hands>>

-----------------------------------------------------------------------------
(* Asking                                                                  *)

Replies == [ToSet(Providers) -> {"fail", "nothing", "gives"}]

\* callProvider: failures in a row put a provider out of the pass, a success clears them.
Call(a, p, reply) ==
  IF reply = "fail"
  THEN [a EXCEPT !.fails[p] = @ + 1, !.out = IF a.fails[p] + 1 = TripAfter THEN @ \cup {p} ELSE @]
  ELSE [a EXCEPT !.fails[p] = 0]

\* The loop over the providers that gatherArt, gatherAuxArt, gatherFields, gatherGenres and
\* enrichLyrics share: each is asked for what it serves and is still open, and a provider that
\* is out is skipped.  all is set where every provider is asked whatever came before; offered
\* are slots an answer may fill though nobody asked for them.
Gather(want, replies, all, offered) ==
  LET ask(a, p) == {s \in want \cap Serves[p] : all \/ s \notin a.got}
      step(a, p) ==
        CASE ask(a, p) = {} -> a
          [] ask(a, p) # {} /\ p \in a.out -> [a EXCEPT !.skipped = @ \cup ask(a, p)]
          [] OTHER ->
               LET called == Call(a, p, replies[p]) IN
               IF replies[p] = "fail" THEN [called EXCEPT !.failed = @ \cup ask(a, p)]
               ELSE IF replies[p] = "gives"
                    THEN [called EXCEPT !.got = @ \cup ask(a, p) \cup (IF "front" \in ask(a, p) THEN offered \cap Serves[p] ELSE {})]
                    ELSE called
      done[k \in 0..Len(Providers)] ==
        IF k = 0 THEN [got |-> {}, failed |-> {}, skipped |-> {}, fails |-> pass.fails, out |-> pass.out]
        ELSE step(done[k - 1], Providers[k])
      end == done[Len(Providers)]
  IN  [end EXCEPT !.failed = @ \ end.got, !.skipped = @ \ end.got]

Asking == pass # NoPass /\ pass.page # <<>> /\ pass.answer = NoAnswer
Here == Head(pass.page)

\* What an identity lookup brings for the row, and what a lookup of slots does.
Identity(found, genres, failed, unasked) ==
  [found |-> found, genres |-> genres, failed |-> failed, unasked |-> unasked, row |-> Here.row, named |-> Here.named]
Brought(g, ls, failed) ==
  [got |-> g.got, asked |-> ls, failed |-> failed, unasked |-> g.skipped, row |-> Here.row, named |-> Here.named]

\* The answer is on its way to the store.
Answered(g, answer, ls) ==
  /\ pass' = [Dropped(pass) EXCEPT !.fails = g.fails, !.out = g.out, !.answer = answer]
  /\ asked' = asked \cup {<<l, Here.row>> : l \in ls}
  /\ UNCHANGED <<table, entity, mark, slot, unnamed, hands>>

NoProvider == [got |-> {}, failed |-> {}, skipped |-> {}, fails |-> pass.fails, out |-> pass.out]

OnlyMusicBrainz(found) ==
  Answered(NoProvider, Identity(found, FALSE, FALSE, FALSE), {"identity"})

\* enrichArtist, resolveArtist: MusicBrainz alone; its errors end the pass (EndPass).
EnrichArtist(found) == Asking /\ Phase = {"identity"} /\ table = "artist" /\ OnlyMusicBrainz(found)

\* enrichBook
EnrichBook(found) == Asking /\ Phase = {"identity"} /\ table = "book" /\ OnlyMusicBrainz(found)

\* gatherGenres: every other provider that has genres is asked.
GatherGenres(replies) == Gather({"genres"}, replies, TRUE, {})

\* enrichReleaseGroup: a group that wants genres and got none is owed when a provider failed
\* or was out.
EnrichReleaseGroup(found, replies) ==
  LET g == IF found THEN GatherGenres(replies) ELSE NoProvider
      wanting == found /\ Here.genres /\ g.got = {}
  IN
  /\ Asking /\ Phase = {"identity"} /\ table = "release_group"
  /\ Answered(g, Identity(found, g.got # {}, Owes(wanting /\ g.failed # {}), wanting /\ g.skipped # {}), {"identity"})

\* matchAlbumRelease: by an identifier, or among the group's editions, which are browsed once
\* in a pass; a browse that could not be used leaves the album owed without asking again.
MatchAlbumRelease(how) ==
  /\ Asking /\ Phase = {"identity"} /\ table = "album"
  /\ how = "browse cut short" => pass.browsed # "usable"
  /\ how \in {"edition", "no edition"} => pass.browsed # "unusable"
  /\ LET skip == how = "browse cut short"
         browsed == CASE how \in {"edition", "no edition"} -> "usable" [] skip -> "unusable" [] OTHER -> pass.browsed
     IN  /\ pass' = [Dropped(pass) EXCEPT
                       !.browsed = browsed,
                       !.answer = Identity(how = "identifier" \/ how = "edition", FALSE, skip /\ Owes(TRUE), FALSE)]
         /\ asked' = asked \cup {<<"identity", Here.row>>}
  /\ UNCHANGED <<table, entity, mark, slot, unnamed, hands>>

\* gatherArt: fronts, with whatever else the answering provider has.
GatherArt(due, replies) == Gather(due, replies, FALSE, {"aux"})

\* gatherAuxArt: where the front is not due.
GatherAuxArt(replies) == Gather({"aux"}, replies, FALSE, {})

\* gatherHalves: the due halves are asked together, and a half that was owed is not owed again.
GatherHalves(replies) ==
  LET due == DueOf(Here)
      g == IF "front" \in due THEN GatherArt(due, replies) ELSE GatherAuxArt(replies)
      owed == {h \in due : h \in g.failed /\ Here.due[h] # 2}
  IN
  /\ Asking /\ Phase = {"front", "aux"} /\ LiveFor(due)
  /\ Answered(g, Brought(g, due, owed), due)

\* gatherFields and the loop of enrichLyrics
GatherPort(replies) ==
  LET g == Gather(Phase, replies, FALSE, {}) IN
  /\ Asking /\ Phase \in {{"lyrics"}, {"fields"}} /\ LiveFor(Phase)
  /\ Answered(g, Brought(g, Phase, {l \in g.failed : Owes(TRUE)}), Phase)

EnrichAlbumArt(replies) == table = "album" /\ GatherHalves(replies)
EnrichGroupArt(replies) == table = "release_group" /\ GatherHalves(replies)
EnrichArtistArt(replies) == table = "artist" /\ GatherHalves(replies)
EnrichLyrics(replies) == Asking /\ Phase = {"lyrics"} /\ GatherPort(replies)
EnrichFields(replies) == Asking /\ Phase = {"fields"} /\ GatherPort(replies)

-----------------------------------------------------------------------------
(* Storing an answer, in one transaction each                              *)

\* markEnrichedTx and settleMarkerTx
Settled(k, matched, failed, unasked, rider) ==
  IF failed \/ (unasked /\ rider)
  THEN [matched |-> matched, owed |-> TRUE, age |-> IF ~failed /\ k # NoMark /\ k.owed THEN k.age ELSE 0]
  ELSE [matched |-> matched, owed |-> FALSE, age |-> 0]

\* Without the look at the row.
AliveUnasked(r) == TRUE
\* writeAliveTx: the row is looked at again inside the write.
Alive(r) == entity[r] # 0

Stored == pass' = [pass EXCEPT !.answer = NoAnswer, !.done = @ + 1]
Answer == pass.answer
Storing == pass # NoPass /\ pass.answer # NoAnswer

\* A gone row gets nothing.
StoreNothing ==
  /\ Storing /\ ~Alive(Answer.row)
  /\ Stored
  /\ UNCHANGED <<table, entity, mark, slot, asked, unnamed, hands>>

\* A landing that leaves the art markers.
KeepArtMarks(marks, r) == marks
\* artistMBIDLandedTx, deleteArtBackfillMarkerTx: the art is asked again, now by MBID.
ForgetArtMarks(marks, r) == [marks EXCEPT !["front"][r] = NoMark, !["aux"][r] = NoMark]

\* setReleaseGroupMBIDTx, setAlbumMBIDTx, fillEntityFieldTx: the MBID lands once, unless another
\* row of the table has it or it is locked (held).
Lands(held) == Answer.found /\ ~held /\ slot["identity"][Answer.row] = "open"

\* What the four identity answers do: the slots they fill and the marker they leave.
StoreIdentity(lands, fills, rider) ==
  LET r == Answer.row
      base == IF lands THEN ForgetArtMarks(mark, r) ELSE mark
  IN
  /\ mark' = [base EXCEPT !["identity"][r] = Settled(@, Answer.found, Answer.failed, Answer.unasked, rider)]
  /\ slot' = [s \in Slot |-> [x \in Row |->
       IF x = r /\ slot[s][x] = "open" /\ s \in fills THEN "found" ELSE slot[s][x]]]
  /\ unnamed' = {u \in unnamed : mark'[u[1]][u[2]] # NoMark}
  /\ Stored
  /\ UNCHANGED <<table, entity, asked, hands>>

StoringIdentity(of) == Storing /\ Phase = {"identity"} /\ table = of /\ Alive(Answer.row)
LandedSlots(held) == IF Lands(held) THEN {"identity"} ELSE {}

\* ApplyArtistEnrichment
ApplyArtistEnrichment(held) ==
  /\ StoringIdentity("artist")
  /\ StoreIdentity(Lands(held), LandedSlots(held), FALSE)

\* populateReleaseGroupGenresTx: the genres that came with a match
NewGenres == IF Answer.genres THEN {"genres"} ELSE {}

\* ApplyReleaseGroupEnrichment
ApplyReleaseGroupEnrichment(held) ==
  /\ StoringIdentity("release_group")
  /\ StoreIdentity(Lands(held), LandedSlots(held) \cup NewGenres, TRUE)

\* ApplyAlbumReleaseMatch
ApplyAlbumReleaseMatch(held) ==
  /\ StoringIdentity("album")
  /\ StoreIdentity(Lands(held), LandedSlots(held), FALSE)

\* ApplyBookEnrichment: a book's identity is in its tags, and the answer fills its fields.
ApplyBookEnrichment ==
  /\ StoringIdentity("book")
  /\ StoreIdentity(FALSE, IF Answer.found THEN {"fields"} ELSE {}, FALSE)

\* A fill that does not look at the slot again.
FillAnyway(r, got) == [s \in Slot |-> [x \in Row |-> IF x = r /\ s \in got THEN "found" ELSE slot[s][x]]]
\* fillAlbumArtTx, fillEntityAuxArtTx, acceptedItemFieldsTx: only what is still open is filled.
FillOpen(r, got) ==
  [s \in Slot |-> [x \in Row |-> IF x = r /\ s \in got /\ slot[s][x] = "open" THEN "found" ELSE slot[s][x]]]

\* settleArtHalvesTx and the settling of a port lookup
SettleAsked(r) ==
  [l \in Lookup |-> [x \in Row |->
     IF x = r /\ l \in Answer.asked
     THEN Settled(mark[l][x], l \in Answer.got, l \in Answer.failed, l \in Answer.unasked, FALSE) ELSE mark[l][x]]]

StoreLookup(kind, of) ==
  LET r == Answer.row IN
  /\ Storing /\ Phase = kind /\ table \in of /\ Alive(r)
  /\ slot' = FillOpen(r, Answer.got \cap kind)
  /\ mark' = SettleAsked(r)
  /\ unnamed' = IF kind # {"front", "aux"} THEN unnamed
                ELSE IF Answer.named THEN unnamed \ {<<h, r>> : h \in Answer.asked}
                ELSE unnamed \cup {<<h, r>> : h \in Answer.asked}
  /\ Stored
  /\ UNCHANGED <<table, entity, asked, hands>>

ApplyArtistArtBackfill == StoreLookup({"front", "aux"}, {"artist"})
ApplyReleaseGroupArtBackfill == StoreLookup({"front", "aux"}, {"release_group"})
ApplyAlbumArtBackfill == StoreLookup({"front", "aux"}, {"album"})
ApplyLyricsEnrichment == StoreLookup({"lyrics"}, {"track"})
ApplyItemFields == StoreLookup({"fields"}, {"track", "book"})
ApplyAlbumFields == StoreLookup({"fields"}, {"album"})

\* MusicBrainz fails, the pass is cancelled, or the process ends: what was not stored is lost.
EndPass ==
  /\ pass # NoPass
  /\ pass' = NoPass /\ asked' = {}
  /\ UNCHANGED <<table, entity, mark, slot, unnamed, hands>>

-----------------------------------------------------------------------------
(* What goes on meanwhile                                                  *)

\* An operator fills a slot that lookups about the table fill.
SetByHand(s, r) ==
  /\ hands > 0 /\ hands' = hands - 1
  /\ s \in UNION Range(Phases) \/ (s = "genres" /\ table = "release_group")
  /\ entity[r] # 0 /\ slot[s][r] # "hand"
  /\ slot' = [slot EXCEPT ![s][r] = "hand"]
  /\ UNCHANGED <<table, entity, mark, pass, asked, unnamed>>

\* deleteArtBackfillHalfTx: an operator empties an art slot, whose half is asked again.
ClearByHand(h, r) ==
  /\ hands > 0 /\ hands' = hands - 1
  /\ entity[r] # 0 /\ slot[h][r] # "open"
  /\ slot' = [slot EXCEPT ![h][r] = "open"]
  /\ mark' = [mark EXCEPT ![h][r] = NoMark]
  /\ asked' = asked \ {<<h, r>>}
  /\ UNCHANGED <<table, entity, pass, unnamed>>

\* The markers of one kind are left behind.
DeleteIdentityOnly(marks, r) == [marks EXCEPT !["identity"][r] = NoMark]
\* deleteOrphanEntity, unionEnrichmentMarker, deleteItemTx
DeleteMarkers(marks, r) == [l \in Lookup |-> [marks[l] EXCEPT ![r] = NoMark]]

\* A row is swept or merged away.
DropRow(r) ==
  /\ hands > 0 /\ hands' = hands - 1
  /\ entity[r] # 0
  /\ entity' = [entity EXCEPT ![r] = 0]
  /\ mark' = DeleteMarkers(mark, r)
  /\ slot' = [s \in Slot |-> [slot[s] EXCEPT ![r] = "open"]]
  /\ asked' = {a \in asked : a[2] # r} /\ unnamed' = {u \in unnamed : u[2] # r}
  /\ UNCHANGED <<table, pass>>

\* A scan makes an entity, whose row takes a rowid that was given before.
TakeRow(r) ==
  /\ hands > 0 /\ hands' = hands - 1
  /\ entity[r] = 0
  /\ entity' = [entity EXCEPT ![r] = 2]
  /\ UNCHANGED <<table, mark, slot, pass, asked, unnamed>>

PassNext ==
  \/ FetchPage \/ Stall \/ PassOver
  \/ \E found \in BOOLEAN : \/ EnrichArtist(found) \/ EnrichBook(found)
                          \/ \E replies \in Replies : EnrichReleaseGroup(found, replies)
  \/ \E how \in {"identifier", "edition", "no edition", "browse cut short"} : MatchAlbumRelease(how)
  \/ \E replies \in Replies : \/ EnrichArtistArt(replies) \/ EnrichGroupArt(replies) \/ EnrichAlbumArt(replies)
                             \/ EnrichLyrics(replies) \/ EnrichFields(replies)
  \/ StoreNothing
  \/ \E held \in BOOLEAN : \/ ApplyArtistEnrichment(held) \/ ApplyReleaseGroupEnrichment(held)
                         \/ ApplyAlbumReleaseMatch(held)
  \/ ApplyBookEnrichment
  \/ ApplyArtistArtBackfill \/ ApplyReleaseGroupArtBackfill \/ ApplyAlbumArtBackfill
  \/ ApplyLyricsEnrichment \/ ApplyItemFields \/ ApplyAlbumFields

EnrichNext ==
  \/ \E how \in Forcing : StartPass(how)
  \/ PassNext
  \/ EndPass
  \/ \E r \in Row : \/ DropRow(r) \/ TakeRow(r)
                    \/ \E s \in Slot \ {"identity"} : SetByHand(s, r)
                    \/ \E h \in {"front", "aux"} : ClearByHand(h, r)

EnrichSpec == EnrichInit /\ [][EnrichNext]_enrichVars

\* Where the variables stay in a behaviour of another component.
EnrichStart == EnrichInit /\ table = "track" /\ hands = 0 /\ entity = [r \in Row |-> 0]

-----------------------------------------------------------------------------
\* A rowid no entity holds has no marker and nothing in its slots, however a pass's answers
\* and the sweep of its entity cross: the entity that takes the rowid next is asked about
\* (writeAliveTx, deleteOrphanEntity).
HeirsStartFresh ==
  \A r \in Row : entity[r] = 0 =>
    /\ \A l \in Lookup : mark[l][r] = NoMark
    /\ \A s \in Slot : slot[s][r] = "open"

\* What an operator put in a slot gives way to an operator only, even where an answer that was
\* asked for before arrives after it (fillAlbumArtTx, acceptedItemFieldsTx).
HandsWin ==
      \A s \in Slot, r \in Row : slot[s][r] = "hand" /\ slot'[s][r] = "found" => entity[r] # entity'[r]

\* No pass asks for the same thing twice, whatever its sweeps: what it leaves owed waits for a
\* later one (notEnriched, ExpireDeferredLookups).
AskedOnce ==
      \A l \in Lookup, r \in Row :
        (pass # NoPass /\ pass' # NoPass /\ pass.answer = NoAnswer /\ pass'.answer # NoAnswer
         /\ pass'.answer.row = r /\ l \in Phase /\ (Phase # {"identity"} => l \in pass'.answer.asked))
          => <<l, r>> \notin asked

\* Art that was looked up before the row had its MBID is looked up again with it
\* (artistMBIDLandedTx, ApplyAlbumReleaseMatch).
ArtAskedByName ==
  \A r \in Row, h \in {"front", "aux"} :
    (slot["identity"][r] # "open" /\ mark[h][r] # NoMark) => <<h, r>> \notin unnamed

\* A lookup that is owed is not put off by being asked again: unless an operator forces a pass,
\* it is settled by the answer, or grows old as it is until it is settled unanswered, though a
\* provider fails every time (owes, settleMarkerTx, ExpireDeferredLookups).
OwedNotRenewed ==
      \A l \in Lookup, r \in Row :
        (/\ mark[l][r] # NoMark /\ mark[l][r].owed
         /\ mark'[l][r] # NoMark /\ mark'[l][r].owed
         /\ pass # NoPass /\ pass.how = Unforced)
          => mark'[l][r].age >= mark[l][r].age

\* A row that takes another's place is asked about afresh, and art looked up
\* without an MBID is looked up again with it (store/sqlite/enrich.go).
RowsAskedRight == HeirsStartFresh /\ ArtAskedByName

\* What an operator put gives way to an operator only, no pass asks twice, and a
\* lookup that is owed is not put off by asking (enrich.go).
PassesKeep == [][HandsWin /\ AskedOnce /\ OwedNotRenewed]_enrichVars
=============================================================================
