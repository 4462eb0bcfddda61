------------------------------- MODULE Books -------------------------------
(***************************************************************************)
(* Multi-part books, cue rips and single tracks over the same files, and   *)
(* what a re-read does to the places a listener holds in them.             *)
(*                                                                         *)
(* A file is read as a track, as a part of a book at a position, or as a   *)
(* rip whose cue cuts it into windows.  Each read is one transaction       *)
(* (PutScannedTrack, PutScannedBook, PutScannedVirtualTracks): the file    *)
(* leaves the items it backed and joins others, an item left without files *)
(* folds into the one the file joined, and the listener's resume place and *)
(* bookmark follow the audio they mark.                                    *)
(*                                                                         *)
(* Left out: files that are gone (Scan has them), the fields, art and tags *)
(* of the items (Fields, Enrich), and locked kinds, which refuse a read.   *)
(* One listener with one bookmark: every statement here is per user and    *)
(* per bookmark row.                                                       *)
(***************************************************************************)
EXTENDS Integers, FiniteSets, Sequences, FiniteSetsExt, SequencesExt

CONSTANTS
    AudioFile,   \* the files, by file id
    AudioOf,     \* the audio (essence hash) of each file: copies share it
    RecordingOf, \* the recording of each file: its encodings share it
    QualityOf,   \* CompareQuality's rank of each file, higher is better
    CodecOf,     \* the codec of each file
    LengthsOf,   \* the lengths each file may be read with
    ReadingsOf,  \* the readings each file's tags and cue may give
    MaxRows,     \* bound: item rows
    MaxReads,    \* bound: reads after the first
    MaxListens,  \* bound: acts of the listener
    MaxActs      \* bound: reads and acts together

VARIABLES
    db,       \* the tables: item_file edges, items, play_state, bookmark, file lengths
    reading,  \* what each file was last read as
    reads, listens,
    spot,     \* history: the moment of audio the newest listening is at
    marked,   \* history: the moment of audio the bookmark is at
    heard,    \* history: the moments of audio the listener marked finished
    granted   \* history: the moments of a rip that joined a book with one window finished

bookVars == <<db, reading, reads, listens, spot, marked, heard, granted>>

Row == 1..MaxRows
WholeFile == -1          \* start_frames of an edge over the whole file; end_frames of an open window
NoRowItem == [kind |-> "none", key |-> "", pid |-> 0]
NoPlay == [pos |-> 0, at |-> 0, fin |-> FALSE]      \* at is last_progress_at, 0 for NULL
NoMark == [item |-> 0, pos |-> 0]
Nowhere == [at |-> 0, audio |-> "", off |-> 0]

Edge(i, f, role, pos, start, end) ==
    [item |-> i, file |-> f, role |-> role, pos |-> pos, start |-> start, end |-> end]

-----------------------------------------------------------------------------
(* Timelines.  d is the tables as the transaction has them.                *)

EdgesAt(d, f) == {e \in d.edge : e.file = f}
On(d, i) == {e \in d.edge : e.item = i}
PartsOn(d, i) == {e \in On(d, i) : e.role # "alternate"}
AltsOn(d, i) == {e \in On(d, i) : e.role = "alternate"}

\* sortBookParts: position, then the file.
Sooner(e, g) == e.pos < g.pos \/ (e.pos = g.pos /\ e.file < g.file)

NoSpan == [offset |-> 0, length |-> 0, last |-> FALSE]

\* bookTimelineTx: where a part starts, the lengths before it added up.
SpanOf(d, e) ==
    LET parts == PartsOn(d, e.item)
    IN  [offset |-> MapThenSumSet(LAMBDA g : d.len[g.file], {g \in parts : Sooner(g, e)}),
         length |-> d.len[e.file],
         last |-> \A g \in parts : ~Sooner(e, g)]

Timeline(d, i) == SetToSortSeq(PartsOn(d, i), Sooner)

\* partSpanTx: a file's stretch of a book, that of the part it is a copy of for
\* an alternate.
PartSpan(d, i, f) ==
    LET own == {e \in On(d, i) : e.file = f}
        alt == \A e \in own : e.role = "alternate"
        hits == {p \in PartsOn(d, i) : p.file = f \/ (alt /\ \E e \in own : e.pos = p.pos)}
    IN  IF own = {} \/ hits = {} THEN NoSpan
        ELSE SpanOf(d, CHOOSE p \in hits : \A q \in hits : p = q \/ Sooner(p, q))

\* clamp, inside and within: an offset into a stretch stays in it.
Clamp(s, off) ==
    LET o == IF off < 0 THEN 0 ELSE off
    IN  IF s.length > 0 /\ o > s.length - 1 THEN s.length - 1 ELSE o
Inside(s, off) == s.offset + Clamp(s, off)
Within(s, pos) == Clamp(s, pos - s.offset)

\* spanAt: the last stretch that starts at or before pos, or the first.
SpanAt(spans, pos) == Max({1} \cup {k \in DOMAIN spans : spans[k].offset <= pos})

\* Every place of an item, the resume place if there is one and the bookmark,
\* moved by To where When holds.
MovePlaces(d, i, When(_), To(_)) ==
    [d EXCEPT !.play[i].pos = IF d.play[i].at > 0 /\ When(@) THEN To(@) ELSE @,
              !.mark.pos = IF d.mark.item = i /\ When(@) THEN To(@) ELSE @]

\* remapPlacesTx: the parts moved or changed length, and a place keeps its offset
\* into its part.
RemapPlaces(d0, d, i) ==
    LET before == Timeline(d0, i)
        spans == [k \in DOMAIN before |-> SpanOf(d0, before[k])]
        now(f) == SpanOf(d, CHOOSE e \in PartsOn(d, i) : e.file = f)
        same == {e.file : e \in PartsOn(d0, i)} = {e.file : e \in PartsOn(d, i)}
        moved == \E k \in DOMAIN before :
                     \/ now(before[k].file).offset # spans[k].offset
                     \/ now(before[k].file).length # spans[k].length
        to(pos) == LET k == SpanAt(spans, pos)
                   IN  Inside(now(before[k].file), pos - spans[k].offset)
    IN  IF same /\ moved THEN MovePlaces(d, i, LAMBDA p : TRUE, to) ELSE d

\* What a shift of every place, the ones before the part too, would do.
ShiftEvery(d, i, from, delta) == MovePlaces(d, i, LAMBDA p : TRUE, LAMBDA p : p + delta)

\* shiftPositionsTx
Shift(d, i, from, delta) == MovePlaces(d, i, LAMBDA p : p >= from, LAMBDA p : p + delta)

\* A place handed to another item's row: the newer listening stays.
Arrive(d, i, pos, at) ==
    IF at > d.play[i].at THEN [d EXCEPT !.play[i].pos = pos, !.play[i].at = at] ELSE d

\* The resume place of an item cleared.
ClearPlace(d, i) == [d EXCEPT !.play[i].pos = 0, !.play[i].at = 0]

\* What a departure that shifted the rest and carried nothing along would do.
LeaveDeparted(d, b, into, f, s) == Shift(d, b, s.offset + s.length, -s.length)

\* moveDepartedPositionsTx: a part left book b.  Its places go along to the item
\* that took it, or to the part's start when none did, and the ones past it move
\* back by its length.
MoveDeparted(d, b, into, f, s) ==
    LET in(p) == p >= s.offset /\ p < s.offset + s.length
        base == IF d.item[into].kind = "book" THEN PartSpan(d, into, f).offset ELSE 0
        p == d.play[b]
        carried == IF p.at > 0 /\ in(p.pos)
                   THEN ClearPlace(Arrive(d, into, p.pos + base - s.offset, p.at), b) ELSE d
        all == IF d.mark.item = b /\ in(d.mark.pos)
               THEN [carried EXCEPT !.mark = [item |-> into, pos |-> d.mark.pos + base - s.offset]]
               ELSE carried
        stayed == MovePlaces(d, b, in, LAMBDA q : s.offset)
    IN  Shift(IF into # 0 THEN all ELSE stayed, b, s.offset + s.length, -s.length)

-----------------------------------------------------------------------------
(* Folding one item into another.                                          *)

\* What a fold that took a finished part for the finished book would do.
FoldPlayWhole(d, loser, survivor, s, part) ==
    [Arrive(d, survivor, Inside(s, d.play[loser].pos), d.play[loser].at)
        EXCEPT !.play[survivor].fin = @ \/ d.play[loser].fin]

\* foldPlayStateTx: the loser's row joins the survivor's.  A part's finished mark
\* says the part was heard and not the whole, so its place becomes its last
\* moment and the mark is dropped.
FoldPlay(d, loser, survivor, s, part) ==
    LET lo == d.play[loser]
        pos == IF part /\ lo.fin THEN Inside(s, s.length) ELSE Inside(s, lo.pos)
        fin == lo.fin /\ ~part
    IN  [Arrive(d, survivor, pos, lo.at) EXCEPT !.play[survivor].fin = @ \/ fin]

\* lostEdge.window: the stretch of the file a rip's track played.
WindowOf(e) ==
    IF e.start = WholeFile THEN NoSpan
    ELSE [offset |-> e.start, length |-> IF e.end > e.start THEN e.end - e.start ELSE 0, last |-> FALSE]

\* foldItemIntoTx, for the stretch s of the survivor the loser was.
FoldOver(d, loser, survivor, s, part) ==
    [FoldPlay(d, loser, survivor, s, part) EXCEPT
        !.mark = IF @.item # loser THEN @
                 ELSE [item |-> survivor,
                       pos |-> s.offset + (IF s.length > 0 /\ @.pos > s.length - 1 THEN s.length - 1 ELSE @.pos)]]

\* The stretch of the survivor the loser's audio is: a window of a file that is own.
WindowIn(own, total, window) ==
    [offset |-> own.offset + window.offset,
     length |-> IF window.length > 0 THEN window.length
                ELSE IF total > window.offset THEN total - window.offset ELSE 0,
     last |-> own.last]

\* foldItemIntoTx
FoldItem(d, loser, survivor, f, window) ==
    LET book == d.item[survivor].kind = "book"
        own == IF book THEN PartSpan(d, survivor, f) ELSE NoSpan
    IN  FoldOver(d, loser, survivor,
                 IF window = NoSpan THEN own
                 ELSE WindowIn(own, IF book THEN own.length ELSE d.len[f], window),
                 book \/ window # NoSpan)

\* deleteItemCascade: the item, its play state, its bookmarks and its edges.
DeleteItem(d, i) ==
    [d EXCEPT !.item[i] = NoRowItem, !.play[i] = NoPlay,
              !.mark = IF d.mark.item = i THEN NoMark ELSE @,
              !.edge = {e \in @ : e.item # i}]

\* finishedByTx and finishTx
FinishAll(d, is) == [d EXCEPT !.play = [i \in Row |-> IF i \in is THEN [@[i] EXCEPT !.fin = TRUE] ELSE @[i]]]

\* What a fold that let the new pid stand would do.
HandNothing(d, i, pid) == d

\* handPIDTx: the item of row i goes on under a pid nothing else holds.
HandPID(d, i, pid) ==
    IF \E j \in Row : d.item[j].pid = pid THEN d ELSE [d EXCEPT !.item[i].pid = pid]

-----------------------------------------------------------------------------
(* Edges.                                                                  *)

\* model.OtherEncoding: one recording in two encodings, by length and codec.
OtherEncoding(d, f, g) == /\ AudioOf[f] # AudioOf[g] /\ d.len[f] = d.len[g]
                          /\ CodecOf[f] # CodecOf[g]

\* outranksPrimaryTx for files of one library that are on disk.
Outdoes(f, g) == AudioOf[f] # AudioOf[g] /\ QualityOf[f] > QualityOf[g]

\* bestAlternateTx
BestAlt(alts) ==
    CHOOSE e \in alts : \A g \in alts :
        \/ e = g
        \/ QualityOf[e.file] > QualityOf[g.file]
        \/ QualityOf[e.file] = QualityOf[g.file] /\ Sooner(e, g)

Reposition(d, e, role, pos) == [d EXCEPT !.edge = (@ \ {e}) \cup {[e EXCEPT !.role = role, !.pos = pos]}]

\* promoteLostTx: what may take the place of the edge an item lost.
Substitutes(d, i, lost) ==
    {c \in AltsOn(d, i) :
        CASE lost.role = "alternate" -> FALSE
          [] lost.start # WholeFile -> c.start = lost.start /\ c.end = lost.end
          [] d.item[i].kind = "book" -> \/ AudioOf[c.file] = AudioOf[lost.file]
                                        \/ c.pos = lost.pos /\ OtherEncoding(d, lost.file, c.file)
          [] OTHER -> lost.role = "primary"}

\* What a book whose first part left would be without a new one.
EnsureNothing(d, i) == d

\* ensurePrimary: a book's first part, or else the best alternate.
EnsurePrimary(d, i) ==
    LET parts == {e \in On(d, i) : e.role = "part"}
    IN  IF \E e \in On(d, i) : e.role = "primary" THEN d
        ELSE IF parts # {}
        THEN LET p == CHOOSE e \in parts : \A g \in parts : e = g \/ Sooner(e, g)
             IN  Reposition(d, p, "primary", p.pos)
        ELSE IF AltsOn(d, i) = {} THEN d
        ELSE Reposition(d, BestAlt(AltsOn(d, i)), "primary", 0)

\* promoteLostTx, or ensurePrimary when nothing qualifies.
Fill(d, i, lost) ==
    LET subs == Substitutes(d, i, lost)
    IN  IF subs = {} THEN EnsurePrimary(d, i) ELSE Reposition(d, BestAlt(subs), lost.role, lost.pos)

\* departingTx: the edges a file holds before it joins into, and its stretch of
\* each book it leaves as a part.  minted: the read made into.
Departing(d, f, into, minted) ==
    [file |-> f, into |-> into, minted |-> minted, lost |-> EdgesAt(d, f),
     span |-> [i \in {e.item : e \in {g \in EdgesAt(d, f) : /\ d.item[g.item].kind = "book"
                                                         /\ g.item # into /\ g.role # "alternate"
                                                         /\ g.start = WholeFile}} |-> PartSpan(d, i, f)]]

\* reconcileOrphansTx, an item that kept a file.
KeepItem(d, i, dep) ==
    LET lost == CHOOSE e \in dep.lost : e.item = i
    IN  IF i \in DOMAIN dep.span /\ Substitutes(d, i, lost) = {}
        THEN MoveDeparted(Fill(d, i, lost), i, dep.into, dep.file, dep.span[i]) ELSE Fill(d, i, lost)

\* reconcileOrphansTx, an item the file was the last of.
AbsorbItem(d, i, dep) ==
    LET lost == CHOOSE e \in dep.lost : e.item = i
    IN  DeleteItem(IF dep.into = 0 THEN d ELSE FoldItem(d, i, dep.into, dep.file, WindowOf(lost)), i)

\* The rip track that opens the file and hands its pid to the item the read made.
Opener(dep, orphans) ==
    LET cuts == {e \in dep.lost : e.item \in orphans /\ e.start # WholeFile}
    IN  IF ~dep.minted \/ cuts = {} THEN 0
        ELSE (CHOOSE e \in cuts : \A g \in cuts : e.start <= g.start).item

OpenerHands(d, settled, o, into) ==
    IF o # 0 /\ On(d, o) = {} THEN HandPID(settled, into, d.item[o].pid) ELSE settled

\* reconcileOrphansTx.  Who finished every window of a file heard all of an item
\* that is that file alone.
ReconcileOrphans(d, orphans, dep) ==
    LET windows == {e.item : e \in {g \in dep.lost : g.start # WholeFile}}
        heardAll == /\ dep.into # 0 /\ windows # {} /\ Cardinality(PartsOn(d, dep.into)) = 1
                    /\ \A i \in windows : d.play[i].fin
        settle(i, t) == IF On(t, i) # {} THEN KeepItem(t, i, dep) ELSE AbsorbItem(t, i, dep)
    IN  FinishAll(OpenerHands(d, FoldSet(settle, d, orphans), Opener(dep, orphans), dep.into),
                  IF heardAll THEN {dep.into} ELSE {})

-----------------------------------------------------------------------------
(* The reads.                                                              *)

FreeItem(d) == Min({i \in Row : d.item[i].kind = "none"})
FreePID(d) == Min((1..(MaxRows + 1)) \ {d.item[i].pid : i \in Row})
ItemsWith(d, kind, key) == {i \in Row : d.item[i].kind = kind /\ d.item[i].key = key}

\* upsertItem for a key no item holds.
NewItem(d, kind, key) ==
    [d EXCEPT !.item[FreeItem(d)] = [kind |-> kind, key |-> key, pid |-> FreePID(d)]]

\* rekindItemForFileTx: the item of another kind that f alone is.
Rekindable(d, f, kind) ==
    {i \in Row : /\ d.item[i].kind \in {"track", "book"} \ {kind}
                 /\ Cardinality(PartsOn(d, i)) = 1
                 /\ \E e \in EdgesAt(d, f) : e.item = i /\ e.role = "primary" /\ e.start = WholeFile}

Rekind(d, i, kind, key) == [d EXCEPT !.item[i].kind = kind, !.item[i].key = key]

\* resolveItemTx, the rekind and upsertItem: the item a read joins.
Resolve(d, f, kind, key) ==
    LET have == ItemsWith(d, kind, key)
        re == Rekindable(d, f, kind)
    IN  CASE have # {} -> [d |-> d, i |-> CHOOSE i \in have : TRUE, made |-> FALSE, rekinded |-> FALSE]
          [] have = {} /\ re # {} ->
               LET i == CHOOSE j \in re : TRUE
               IN  [d |-> Rekind(d, i, kind, key), i |-> i, made |-> FALSE, rekinded |-> TRUE]
          [] OTHER -> [d |-> NewItem(d, kind, key), i |-> FreeItem(d), made |-> TRUE, rekinded |-> FALSE]

\* updateFileRow
FileRow(d, f, len) == [d EXCEPT !.len[f] = len]

LastPos(d, i) == Max({0} \cup {e.pos : e \in On(d, i)})
OthersOf(d, f, i) == {e.item : e \in {g \in EdgesAt(d, f) : g.item # i}}

\* attachCopyTx with linkAlternateFile.
AttachCopyTo(d, f, i) ==
    LET dep == Departing(d, f, i, FALSE)
        held == \E e \in EdgesAt(d, f) : e.item = i /\ e.role = "alternate"
        linked == [d EXCEPT !.edge = {e \in @ : e.file # f} \cup {Edge(i, f, "alternate", LastPos(d, i) + 1, WholeFile, WholeFile)}]
    IN  IF held /\ Cardinality(EdgesAt(d, f)) = 1 THEN d
        ELSE ReconcileOrphans(linked, OthersOf(d, f, i), dep)

\* linkPrimaryFile and what follows it in PutScannedTrack.
TakeTrack(d, f, i, minted) ==
    LET dep == Departing(d, f, i, minted)
        linked == [d EXCEPT !.edge = {e \in @ : e.file # f /\ ~(e.item = i /\ e.role = "primary")}
                                     \cup {Edge(i, f, "primary", 0, WholeFile, WholeFile)}]
    IN  ReconcileOrphans(linked, OthersOf(d, f, i), dep)

\* PutScannedTrack, once the item is resolved.
PutInTrack(t, f) ==
    LET prims == {e \in On(t.d, t.i) : e.role = "primary"}
        prim == CHOOSE e \in prims : TRUE
        better == {c \in AltsOn(t.d, t.i) : c.start = WholeFile /\ Outdoes(c.file, f)}
        low(e) == Reposition(t.d, e, "alternate", LastPos(t.d, t.i) + 1)
    IN  CASE prims # {} /\ prim.file = f /\ better # {} ->
               AttachCopyTo(Reposition(low(prim), BestAlt(better), "primary", 0), f, t.i)
          [] prims # {} /\ prim.file # f /\ ~Outdoes(f, prim.file) -> AttachCopyTo(t.d, f, t.i)
          [] prims # {} /\ prim.file # f /\ Outdoes(f, prim.file) -> TakeTrack(low(prim), f, t.i, FALSE)
          [] OTHER -> TakeTrack(t.d, f, t.i, t.made)

\* PutScannedTrack
PutTrack(d, f, r) == PutInTrack(Resolve(d, f, "track", r.key), f)

\* bookTwinTx and partEncodingTx: the part f is a copy of, or another encoding of.
Twins(d, i, f) == {e \in PartsOn(d, i) : e.file # f /\ AudioOf[e.file] = AudioOf[f]}
Encodings(d, i, f, pos) == {e \in PartsOn(d, i) : e.file # f /\ e.pos = pos /\ OtherEncoding(d, f, e.file)}
PrimaryFirst(es) == CHOOSE e \in es : \A g \in es :
    \/ e = g \/ e.role = "primary" \/ (g.role # "primary" /\ e.file < g.file)

\* linkBookFile: the role and position f takes in book i, and the part it puts
\* aside for it.
BookRole(d, i, f, pos) ==
    LET cur == {e \in On(d, i) : e.file = f}
        role == IF cur = {} THEN "" ELSE (CHOOSE e \in cur : TRUE).role
        curPos == IF cur = {} THEN 0 ELSE (CHOOSE e \in cur : TRUE).pos
        twins == Twins(d, i, f)
        twin == PrimaryFirst(twins)
        encs == Encodings(d, i, f, pos)
        enc == PrimaryFirst(encs)
        better == {c \in AltsOn(d, i) : /\ c.start = WholeFile /\ Outdoes(c.file, f) /\ c.pos = pos
                                        /\ OtherEncoding(d, f, c.file)}
        none == {}
        fresh == IF \E e \in On(d, i) : e.role = "primary" THEN "part" ELSE "primary"
        gives(ro, po, aside, up) == [role |-> ro, pos |-> po, aside |-> aside, up |-> up]
    IN  CASE role # "primary" /\ twins # {} /\ (role # "part" \/ twin.role = "primary" \/ twin.file < f) ->
               gives("alternate", twin.pos, none, none)
          [] role = "alternate" /\ twins = {} -> gives("alternate", curPos, none, none)
          [] role = "" /\ twins = {} /\ encs # {} ->
               IF Outdoes(f, enc.file) THEN gives(enc.role, pos, {enc}, none)
               ELSE gives("alternate", pos, none, none)
          [] role = "" /\ twins = {} /\ encs = {} -> gives(fresh, pos, none, none)
          [] role \in {"primary", "part"} /\ better # {} -> gives("alternate", pos, none, {BestAlt(better)})
          [] OTHER -> gives(role, pos, none, none)

\* linkBookFile with the role it decided.
LinkAs(d, out, b, i, f) ==
    LET cur == {e \in On(out, i) : e.file = f}
        curRole == IF cur = {} THEN "" ELSE (CHOOSE e \in cur : TRUE).role
        swapped == ((out.edge \ b.aside) \cup {[e EXCEPT !.role = "alternate"] : e \in b.aside})
        raised == (swapped \ b.up) \cup {[e EXCEPT !.role = curRole] : e \in b.up}
        mine == Edge(i, f, b.role, b.pos, WholeFile, WholeFile)
    IN  [d |-> [out EXCEPT !.edge = (raised \ cur) \cup {mine}],
         role |-> b.role, replaced |-> b.aside # {}, changed |-> out.edge # d.edge \/ cur # {mine}]

LinkBook(d, i, f, pos) ==
    LET out == [d EXCEPT !.edge = {e \in @ : e.file # f \/ e.item = i}]
    IN  LinkAs(d, out, BookRole(out, i, f, pos), i, f)

\* PutScannedBook, a part that arrived: the places after it move on by its
\* length, and the book is no longer finished for who had not finished it.
ArrivePart(d, i, f, from) ==
    LET s == PartSpan(d, i, f)
        d2 == IF s.last THEN d ELSE Shift(d, i, s.offset, s.length)
    IN  [d2 EXCEPT !.play[i].fin = @ /\ from # {} /\ \E j \in from : d.play[j].fin]

\* PutScannedBook, with file f linked as k into book i.  oldLen is the length the file
\* row had, made whether the read made the book, and from the items f leaves.
PlaceInBook(k, dep, i, f, oldLen, made, from) ==
    LET stood == {e \in dep.lost : e.item = i /\ e.role # "alternate" /\ e.start = WholeFile}
        mine == CHOOSE e \in On(k.d, i) : e.file = f
        d0 == [k.d EXCEPT !.len[f] = oldLen,
                          !.edge = {IF e = mine THEN [e EXCEPT !.pos = (CHOOSE g \in stood : TRUE).pos] ELSE e : e \in @}]
        arrived == \/ stood = {} /\ from # {}
                   \/ dep.lost = {} /\ ~made
        d3 == IF stood # {} /\ k.role # "alternate" THEN RemapPlaces(d0, k.d, i) ELSE k.d
    IN  IF k.changed /\ k.role # "alternate" /\ ~k.replaced /\ arrived
        THEN ArrivePart(d3, i, f, from) ELSE d3

\* PutScannedBook, once the item is resolved.
PutInBook(t, f, pos, oldLen, from) ==
    LET dep == Departing(t.d, f, t.i, t.made)
        copiesMove == {IF e.item = t.i /\ e.role = "alternate" THEN [e EXCEPT !.pos = pos] ELSE e : e \in t.d.edge}
        d2 == [t.d EXCEPT !.edge = IF t.rekinded THEN copiesMove ELSE @]
    IN  ReconcileOrphans(PlaceInBook(LinkBook(d2, t.i, f, pos), dep, t.i, f, oldLen, t.made, from), from, dep)

\* PutScannedBook
PutBook(d, f, r, oldLen) ==
    LET t == Resolve(d, f, "book", r.key)
    IN  PutInBook(t, f, r.pos, oldLen, OthersOf(d, f, t.i))

\* PutScannedVirtualTracks, the windows a changed cue no longer declares: handed
\* to another rip's file, or deleted.
DropWindows(d, f, cue) ==
    LET keys == {cue[k].key : k \in DOMAIN cue}
        gone == {e \in EdgesAt(d, f) : e.role = "primary" /\ e.start # WholeFile /\ d.item[e.item].key \notin keys}
        drop(e, t) == LET off == [t EXCEPT !.edge = @ \ {e}]
                      IN  IF On(off, e.item) = {} THEN DeleteItem(t, e.item) ELSE Fill(off, e.item, e)
    IN  FoldSet(drop, d, gone)

\* dropUndeclaredVirtualAlternatesTx
DropAlternates(d, f, cue) ==
    LET keys == {cue[k].key : k \in DOMAIN cue}
    IN  [d EXCEPT !.edge = {e \in @ : ~(/\ e.file = f /\ e.role = "alternate" /\ e.start # WholeFile
                                        /\ d.item[e.item].key \notin keys)}]

\* One track of the cue: virtualCopyOfTx and linkVirtualAlternateFile when
\* another file backs it, linkVirtualTrackFile otherwise.
PutWindow(d, f, w) ==
    LET have == ItemsWith(d, "track", w.key)
        i == IF have = {} THEN FreeItem(d) ELSE CHOOSE j \in have : TRUE
        d2 == IF have = {} THEN NewItem(d, "track", w.key) ELSE d
        prims == {e \in On(d2, i) : e.role = "primary"}
        copy == prims # {} /\ \A e \in prims : e.file # f
        alt == {e \in AltsOn(d2, i) : e.file = f /\ e.start = w.start /\ e.end = w.end}
    IN  IF copy
        THEN IF alt # {} THEN d2
             ELSE [d2 EXCEPT !.edge = {e \in @ : e.item # i \/ e.file # f}
                                      \cup {Edge(i, f, "alternate", LastPos(d2, i) + 1, w.start, w.end)}]
        ELSE [d2 EXCEPT !.edge = {e \in @ : e.item # i \/ (e.role # "primary" /\ e.file # f)}
                                 \cup {Edge(i, f, "primary", 0, w.start, w.end)}]

\* detachWholeFileItems: the items that held the whole file lose it.
DetachWhole(d, f) ==
    LET dep == Departing(d, f, 0, FALSE)
        prev == {e.item : e \in {g \in EdgesAt(d, f) : g.start = WholeFile}}
        off == [d EXCEPT !.edge = {e \in @ : e.file # f \/ e.start # WholeFile}]
        kept == {i \in prev : On(off, i) # {}}
    IN  [d |-> ReconcileOrphans(off, kept, dep), gone |-> prev \ kept]

\* movePlacesIntoRipTx: each place to the window that holds it.
MoveIntoRip(d, i, ws, spans) ==
    LET at(pos) == SpanAt(spans, pos)
        p == d.play[i]
        m == at(d.mark.pos)
    IN  [IF p.at > 0 THEN ClearPlace(Arrive(d, ws[at(p.pos)].item, Within(spans[at(p.pos)], p.pos), p.at), i) ELSE d
            EXCEPT !.mark = IF @.item # i THEN @ ELSE [item |-> ws[m].item, pos |-> Within(spans[m], @.pos)]]

\* foldIntoRipTx: the items the rip replaces fold into the track that opens it,
\* which goes on under the first one's pid when the read made it.
OpenerTakesPID(folded, d, gone, o, fresh) ==
    IF gone # {} /\ o \in fresh THEN HandPID(folded, o, d.item[CHOOSE i \in gone : TRUE].pid) ELSE folded

FoldIntoRip(d, gone, f, fresh) ==
    LET ws == SetToSortSeq({e \in EdgesAt(d, f) : e.start # WholeFile}, LAMBDA e, g : e.start < g.start)
        spans == [k \in DOMAIN ws |-> WindowOf(ws[k])]
        tracks == {ws[k].item : k \in DOMAIN ws}
        finish(i, t) == IF d.play[i].fin THEN FinishAll(t, tracks) ELSE t
        fold(i, t) == DeleteItem(FoldItem(finish(i, MoveIntoRip(t, i, ws, spans)), i, ws[1].item, f, NoSpan), i)
    IN  IF ws = << >> THEN FoldSet(LAMBDA i, t : DeleteItem(t, i), d, gone)
        ELSE OpenerTakesPID(FoldSet(fold, d, gone), d, gone, ws[1].item, fresh)

\* PutScannedVirtualTracks, once the file is let go as a whole: d has its other
\* windows, and gone were left without a file.
PutWindows(d, gone, f, cue) ==
    LET put[k \in 0..Len(cue)] == IF k = 0 THEN d ELSE PutWindow(put[k - 1], f, cue[k])
        fresh(t) == {i \in Row : d.item[i].kind = "none" /\ t.item[i].kind # "none"}
    IN  FoldIntoRip(put[Len(cue)], gone, f, fresh(put[Len(cue)]))

\* PutScannedVirtualTracks
PutRip(d, f, cue) ==
    LET w == DetachWhole(DropWindows(d, f, cue), f)
    IN  PutWindows(DropAlternates(w.d, f, cue), w.gone, f, cue)

ReadInto(d, f, r, len) ==
    LET d2 == FileRow(d, f, len)
    IN  CASE r.as = "track" -> PutTrack(d2, f, r)
          [] r.as = "book" -> PutBook(d2, f, r, d.len[f])
          [] r.as = "rip" -> PutRip(d2, f, r.cue)

-----------------------------------------------------------------------------
(* What a place names.                                                     *)

PrimaryEdge(d, i) == CHOOSE e \in On(d, i) : e.role = "primary"

\* The moment of audio a position of item i is at: through the window of a rip,
\* through the timeline of a book (bookPartAt's reading of it).
MomentAt(d, i, pos) ==
    LET e == PrimaryEdge(d, i)
        parts == Timeline(d, i)
        spans == [k \in DOMAIN parts |-> SpanOf(d, parts[k])]
        k == SpanAt(spans, pos)
    IN  IF d.item[i].kind = "book"
        THEN [audio |-> RecordingOf[parts[k].file], off |-> pos - spans[k].offset]
        ELSE [audio |-> RecordingOf[e.file], off |-> pos + (IF e.start = WholeFile THEN 0 ELSE e.start)]

\* How much there is of an item, and every moment of audio in it.
LengthOfItem(d, i) ==
    LET e == PrimaryEdge(d, i)
        end == IF e.end = WholeFile THEN d.len[e.file] ELSE e.end
    IN  IF d.item[i].kind = "book" THEN MapThenSumSet(LAMBDA g : d.len[g.file], PartsOn(d, i))
        ELSE IF e.start = WholeFile THEN d.len[e.file] ELSE end - e.start
Stretch(d, i) == {MomentAt(d, i, p) : p \in 0..(LengthOfItem(d, i) - 1)}

Items(d) == {i \in Row : d.item[i].kind # "none"}

\* The moment a read of f takes away: its length no longer reaches it, a changed
\* cue cuts elsewhere, or the file leaves a longer book for a rip, which has no
\* one item for the part's places.
TakesAway(f, r, len, m) ==
    LET cuts == {<<e.start, e.end>> : e \in {g \in EdgesAt(db, f) : g.start # WholeFile}}
    IN  /\ m.audio = RecordingOf[f]
        /\ \/ m.off >= len
           \/ /\ r.as = "rip"
              /\ \/ cuts # {} /\ cuts # {<<r.cue[k].start, r.cue[k].end>> : k \in DOMAIN r.cue}
                 \/ \E e \in EdgesAt(db, f) : Cardinality(PartsOn(db, e.item)) > 1

\* A part whose audio another part of its book holds too folds into an alternate
\* of it when it is read again, and linkBookFile leaves the places of the book
\* where they were.
FoldsTwin(f, r) ==
    \E e \in EdgesAt(db, f) :
        /\ r.as = "book" /\ e.role # "alternate"
        /\ db.item[e.item].kind = "book" /\ db.item[e.item].key = r.key
        /\ Twins(db, e.item, f) # {}

-----------------------------------------------------------------------------
(* The steps.                                                              *)

MayRead == reads < MaxReads /\ reads + listens < MaxActs
MayListen == listens < MaxListens /\ reads + listens < MaxActs

\* A scan reads f as r.  A file that changed its length is read as before.
Read(f, r, len) ==
    /\ MayRead
    /\ len # db.len[f] => r = reading[f]
    /\ <<r, len>> # <<reading[f], db.len[f]>>
    /\ reads' = reads + 1
    /\ db' = ReadInto(db, f, r, len)
    /\ reading' = [reading EXCEPT ![f] = r]
    /\ spot' = IF TakesAway(f, r, len, spot) \/ FoldsTwin(f, r) THEN Nowhere ELSE spot
    /\ marked' = IF TakesAway(f, r, len, marked) \/ FoldsTwin(f, r) THEN Nowhere ELSE marked
    /\ heard' = IF len # db.len[f] /\ \A o \in 0..(db.len[f] - 1) : [audio |-> RecordingOf[f], off |-> o] \in heard
                THEN heard \cup {[audio |-> RecordingOf[f], off |-> o] : o \in 0..(len - 1)}
                ELSE heard
    /\ granted' = IF /\ r.as = "book" /\ ItemsWith(db, "book", r.key) # {}
                     /\ \E e \in EdgesAt(db, f) : e.start # WholeFile /\ db.play[e.item].fin
                  THEN granted \cup {[audio |-> RecordingOf[f], off |-> o] : o \in 0..(len - 1)}
                  ELSE granted
    /\ UNCHANGED listens

\* FollowFile: a file joins, as an alternate, the item its copy backs.
FollowFile(f, anchor) ==
    LET homes == {e \in EdgesAt(db, anchor) : e.role # "alternate" /\ e.start = WholeFile}
        home == CHOOSE e \in homes : TRUE
        i == home.item
        pos == IF db.item[i].kind = "book" THEN home.pos ELSE LastPos(db, i) + 1
        dep == Departing(db, f, i, FALSE)
        linked == [db EXCEPT !.edge = {e \in @ : e.file # f} \cup {Edge(i, f, "alternate", pos, WholeFile, WholeFile)}]
    IN  /\ MayRead
        /\ f # anchor /\ AudioOf[f] = AudioOf[anchor] /\ homes # {} /\ EdgesAt(db, f) # {}
        /\ ~\E e \in EdgesAt(db, f) : e.item = i
        /\ reads' = reads + 1
        /\ db' = ReconcileOrphans(linked, OthersOf(db, f, i), dep)
        /\ UNCHANGED <<reading, listens, spot, marked, heard, granted>>

\* SetProgress: the listener is at pos of item i, the newest of their places.
Listen(i, pos) ==
    /\ MayListen
    /\ listens' = listens + 1
    /\ db' = [db EXCEPT !.play[i].pos = pos, !.play[i].at = listens + 1]
    /\ spot' = MomentAt(db, i, pos) @@ [at |-> listens + 1]
    /\ UNCHANGED <<reading, reads, marked, heard, granted>>

\* CreateBookmark, the listener's only one.
Bookmark(i, pos) ==
    /\ MayListen
    /\ listens' = listens + 1
    /\ db' = [db EXCEPT !.mark = [item |-> i, pos |-> pos]]
    /\ marked' = MomentAt(db, i, pos) @@ [at |-> listens + 1]
    /\ UNCHANGED <<reading, reads, spot, heard, granted>>

\* SetPlayed: the listener heard all of item i.
Finish(i) ==
    /\ MayListen
    /\ ~db.play[i].fin
    /\ listens' = listens + 1
    /\ db' = FinishAll(db, {i})
    /\ heard' = heard \cup Stretch(db, i)
    /\ UNCHANGED <<reading, reads, spot, marked, granted>>

EmptyTables ==
    [edge |-> {}, item |-> [i \in Row |-> NoRowItem], play |-> [i \in Row |-> NoPlay],
     mark |-> NoMark, len |-> [f \in AudioFile |-> Min(LengthsOf[f])]]

\* A first scan read every file.
FirstRead(r) ==
    LET in[f \in 0..Cardinality(AudioFile)] ==
            IF f = 0 THEN EmptyTables ELSE ReadInto(in[f - 1], f, r[f], Min(LengthsOf[f]))
    IN  in[Cardinality(AudioFile)]

BooksInit ==
    /\ reading \in {r \in [AudioFile -> UNION {ReadingsOf[f] : f \in AudioFile}] : \A f \in AudioFile : r[f] \in ReadingsOf[f]}
    /\ db = FirstRead(reading)
    /\ reads = 0 /\ listens = 0
    /\ spot = Nowhere /\ marked = Nowhere /\ heard = {} /\ granted = {}

BooksNext ==
    \/ \E f \in AudioFile : \E r \in ReadingsOf[f], len \in LengthsOf[f] : Read(f, r, len)
    \/ \E f, g \in AudioFile : FollowFile(f, g)
    \/ \E i \in Items(db) : \/ Finish(i)
                           \/ \E pos \in 0..(LengthOfItem(db, i) - 1) : Listen(i, pos) \/ Bookmark(i, pos)

BooksSpec == BooksInit /\ [][BooksNext]_bookVars

-----------------------------------------------------------------------------
(* What the reads keep.                                                    *)

BooksTypeOK ==
    /\ db.edge \subseteq [item : Row, file : AudioFile, role : {"primary", "part", "alternate"},
                          pos : Nat, start : Nat \cup {WholeFile}, end : Nat \cup {WholeFile}]
    /\ db.play \in [Row -> [pos : Nat, at : 0..MaxListens, fin : BOOLEAN]]
    /\ db.mark.item \in Row \cup {0} /\ db.mark.pos \in Nat
    /\ spot.at \in 0..MaxListens /\ marked.at \in 0..MaxListens

\* Whatever the order of the reads (linkBookFile, linkPrimaryFile,
\* linkVirtualTrackFile, reconcileOrphansTx), an item has exactly one primary, a
\* file is held whole by one item or cut into windows and never both, and no pid is
\* held twice.
EdgesWellFormed ==
    /\ \A i \in Row : Cardinality({e \in On(db, i) : e.role = "primary"}) = (IF i \in Items(db) THEN 1 ELSE 0)
    /\ \A f \in AudioFile : \/ Cardinality(EdgesAt(db, f)) = 1
                           \/ \A e, g \in EdgesAt(db, f) : e.start # WholeFile /\ (e.item = g.item => e = g)
    /\ \A i, j \in Items(db) : db.item[i].pid = db.item[j].pid => i = j

\* Places follow their audio (fold.go): after any reads, the newest listening and
\* the bookmark are still at the moment of the recording they were made at,
\* whichever item plays it now.  Only a place whose part was marked finished may
\* stand further on in it, past audio the listener heard.
PlacesFollowAudio ==
    /\ spot.at > 0 => \E i \in Items(db) :
          /\ db.play[i].at = spot.at
          /\ LET m == MomentAt(db, i, db.play[i].pos)
             IN  /\ m.audio = spot.audio /\ m.off >= spot.off
                 /\ m.off > spot.off => [audio |-> m.audio, off |-> m.off] \in heard
    /\ marked.at > 0 =>
          /\ db.mark.item \in Items(db)
          /\ LET m == MomentAt(db, db.mark.item, db.mark.pos)
             IN  m.audio = marked.audio /\ m.off = marked.off

\* An item is marked finished only for a listener who heard all of it: a part or
\* a window heard never finishes a book, and a part that arrives unheard
\* un-finishes it (unfinishForArrivalTx, foldPlayStateTx, reconcileOrphansTx).  A
\* cue rip that joins a finished book as a part is granted: it leaves the book
\* finished for a listener who finished any one of its windows.
FinishedUnlessGranted ==
    \A i \in Items(db) : db.play[i].fin => Stretch(db, i) \subseteq heard \cup granted

\* A file read another way keeps an identity a client knows: when every item it
\* backed is gone and the ones it backs now are new, one goes on under an old pid
\* (handPIDTx, rekindItemForFileTx).  A cue edited into other tracks is the
\* exception: the tracks it no longer declares are deleted.
IdentityKept ==
       \A f \in AudioFile :
        LET old == {db.item[e.item].pid : e \in EdgesAt(db, f)}
            now == {db'.item[e.item].pid : e \in EdgesAt(db', f)}
            stays(pids) == \E i \in Row : db'.item[i].pid \in pids
            stood == {db.item[i].pid : i \in Items(db)}
        IN  (reads' > reads /\ old # now /\ "rip" \notin {reading[f].as} \cap {reading'[f].as})
                => (stays(old) \/ now \cap stood # {})

=============================================================================
