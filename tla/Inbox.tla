------------------------------- MODULE Inbox --------------------------------
(***************************************************************************)
(* Importing staged audio into the managed libraries.                      *)
(*                                                                         *)
(* A plan reads the staged files, the catalog and the disk, and says what  *)
(* becomes of each file; it is applied later, perhaps after another plan,  *)
(* perhaps never.  An apply checks each file again, then places and        *)
(* catalogs them one by one.  In between, files come and go, libraries are *)
(* flagged read-only and drives are unplugged.                             *)
(*                                                                         *)
(* A place is a library, a name up to case and Unicode form, a part number *)
(* (0 for none) and a copy number.  One extension, one author per book and *)
(* one spelling per name are assumed; the links an import refuses to       *)
(* follow, the companions that travel with the audio and the folders       *)
(* pruned after it are left out.                                           *)
(***************************************************************************)
EXTENDS Integers, Sequences, FiniteSets, FiniteSetsExt, SequencesExt

CONSTANTS
    Managed,      \* the managed libraries, in order
    MediaOf,      \* each library's declared media type: "music", "audiobook" or "mixed"
    TagsOf,       \* what a read of each staged file says
    StagedOrder,  \* the staged files in the order a walk meets them
    Asks,         \* the requests a plan is made for
    Foreign,      \* the audio another program may put at a place
    CatalogAtStart, \* the file rows an import finds: sequences of [at, row, gone]
    MaxApplies,   \* plans applied
    MaxMeddling   \* changes from outside

VARIABLES
    staged,    \* the files in staging
    disk,      \* the audio standing at each place
    fileRows,  \* the catalog's file at each place
    readOnly,  \* the libraries flagged read-only; "staging" is one that holds the staged files
    away,      \* the libraries whose root is not there
    plans,     \* plans made and not applied
    apply,     \* the apply under way, or NoApply
    lastApply, \* how the last apply ended
    viaSkip,   \* the places an import that skips duplicates has placed and cataloged
    inboxLeft  \* [applies, meddling] left

inboxVars == <<staged, disk, fileRows, readOnly, away, plans, apply, lastApply, viaSkip, inboxLeft>>

At(lib, name, no, copy) == [lib |-> lib, name |-> name, no |-> no, copy |-> copy]
NoPlace == At("", "", 0, 0)
Nothing == "nothing"
FileRow(audio, item, kind, role, pos) == [audio |-> audio, item |-> item, kind |-> kind, role |-> role, pos |-> pos]
NoFileRow == FileRow(Nothing, "", "", "", 0)

Standing(d) == IF d \in DOMAIN disk THEN disk[d] ELSE Nothing
RowAt(d) == IF d \in DOMAIN fileRows THEN fileRows[d] ELSE NoFileRow
OnDiskAt(d) == Standing(d) # Nothing /\ d.lib \notin away

NoApply == [acts |-> << >>, next |-> 0, stage |-> "idle", ask |-> [dup |-> "skip", copy |-> FALSE], clean |-> TRUE, landed |-> {}]

-----------------------------------------------------------------------------
(* Where a file goes.                                                      *)

Accepts(lib, kind) == MediaOf[lib] = IF kind = "book" THEN "audiobook" ELSE "music"

\* routeManaged: one library of the type, else one mixed library
RouteManaged(kind) ==
    LET libs == {Managed[i] : i \in DOMAIN Managed}
        typed == {l \in libs : Accepts(l, kind)}
        mixed == {l \in libs : MediaOf[l] = "mixed"}
    IN  IF Cardinality(typed) = 1 THEN CHOOSE l \in typed : TRUE
        ELSE IF typed = {} /\ Cardinality(mixed) = 1 THEN CHOOSE l \in mixed : TRUE
        ELSE ""

\* resolveLibrary, routeWritable: a read-only library takes its kind from no other
ResolveLibrary(ask, kind) ==
    IF ask.lib # "" THEN ask.lib ELSE LET l == RouteManaged(kind) IN IF l \in readOnly THEN "" ELSE l

\* EffectiveKind
KindOf(ask, f) ==
    IF ask.kind # "" THEN ask.kind
    ELSE IF ask.lib # "" /\ MediaOf[ask.lib] = "audiobook" THEN "book"
    ELSE TagsOf[f].kind

Better(a, b) == TagsOf[a.f].rank > TagsOf[b.f].rank
SameAudio(a, b) == TagsOf[a.f].audio = TagsOf[b.f].audio
\* model.OtherEncoding
OtherEncoding(a, b) == TagsOf[a.f].audio # TagsOf[b.f].audio /\ TagsOf[a.f].work = TagsOf[b.f].work

\* Refuse, keepsDestination
KeepsDestination == {"claimed", "exists", "cataloged", "read-only-source", "read-only-library"}
Refuse(a, outcome, code) ==
    [a EXCEPT !.outcome = outcome, !.code = code, !.restores = "", !.dst = IF code \in KeepsDestination THEN @ ELSE NoPlace]

\* FilesByEssence
Holding(audio) == {d \in DOMAIN fileRows : fileRows[d].audio = audio}

\* heldAudio
HeldAudio(audio, kind, lib) ==
    LET there == {d \in Holding(audio) : OnDiskAt(d) \/ d.lib \in away}
        gone == {d \in Holding(audio) \ there : fileRows[d].kind = kind /\ d.lib = lib}
        other == Holding(audio) \ (there \cup gone)
    IN  IF there # {} THEN there ELSE IF gone = {} THEN other ELSE {}
GoneAudio(audio, kind, lib) ==
    IF HeldAudio(audio, kind, lib) # {} THEN {}
    ELSE {d \in Holding(audio) : fileRows[d].kind = kind /\ d.lib = lib}

\* classify
Classify(ask, f) ==
    LET t == TagsOf[f]
        kind == KindOf(ask, f)
        lib == ResolveLibrary(ask, kind)
        base == [f |-> f, kind |-> kind, forced |-> ask.kind # "", lib |-> lib, dst |-> NoPlace,
                 book |-> IF kind = "book" THEN t.album ELSE "", place |-> t.place, outcome |-> "import", code |-> "",
                 joined |-> FALSE, alt |-> FALSE, unit |-> "", restores |-> ""]
        gone == GoneAudio(t.audio, kind, lib)
    IN  IF f \notin staged \/ ~t.readable THEN Refuse([base EXCEPT !.kind = "", !.lib = "", !.book = ""], "quarantine", "unreadable")
        ELSE IF lib = "" THEN Refuse(base, "quarantine", "no-library")
        ELSE IF ask.dup = "skip" /\ HeldAudio(t.audio, kind, lib) # {} THEN Refuse(base, "duplicate", "duplicate")
        ELSE IF ~ask.copy /\ "staging" \in readOnly THEN Refuse(base, "quarantine", "read-only-source")
        ELSE [base EXCEPT !.restores = IF gone = {} THEN "" ELSE fileRows[CHOOSE d \in gone : TRUE].item,
                          !.dst = At(lib, t.slot, 0, 1)]

-----------------------------------------------------------------------------
(* A folder's book, and how a book's files are numbered.  S is the plan so *)
(* far, a sequence of actions.                                             *)

Importing(S) == {i \in DOMAIN S : S[i].outcome = "import"}

\* joinFolders: the books a staging folder holds, and whether one is sure enough to take a track in
FolderBooks(S, folder) ==
    {S[i].book : i \in {i \in DOMAIN S : /\ S[i].outcome \in {"import", "duplicate"} /\ S[i].lib # ""
                                         /\ TagsOf[S[i].f].folder = folder /\ S[i].kind = "book" /\ S[i].book # ""}}
StrongBook(S, folder, b) ==
    LET of == {i \in DOMAIN S : S[i].outcome \in {"import", "duplicate"} /\ TagsOf[S[i].f].folder = folder /\ S[i].book = b}
    IN  Cardinality(of) > 1 \/ \E i \in of : TagsOf[S[i].f].strong \/ MediaOf[S[i].lib] = "audiobook"

\* makeBook
MakeBook(ask, a, b, joined) ==
    LET lib == ResolveLibrary(ask, "book")
        made == [a EXCEPT !.kind = "book", !.book = b, !.joined = joined, !.lib = lib, !.dst = At(lib, b, 0, 1)]
    IN  IF lib = "" THEN Refuse(made, "quarantine", "no-library") ELSE made

JoinFolder(ask, S, i) ==
    LET a == S[i]
        t == TagsOf[a.f]
        books == FolderBooks(S, t.folder)
        only == CHOOSE b \in books : TRUE
        part == t.album = "" /\ t.part
        music == ask.lib # "" /\ MediaOf[ask.lib] = "music"
    IN  IF a.outcome # "import" \/ t.folder = "" THEN a
        ELSE IF a.kind = "track"
        THEN IF a.forced \/ music THEN a
             ELSE IF t.album \in books /\ StrongBook(S, t.folder, t.album) THEN MakeBook(ask, a, t.album, TRUE)
             ELSE IF part /\ Cardinality(books) = 1 /\ StrongBook(S, t.folder, only) THEN MakeBook(ask, a, only, TRUE)
             ELSE a
        ELSE IF ~part THEN a
        ELSE IF Cardinality(books) = 1 THEN MakeBook(ask, a, only, TRUE)
        ELSE MakeBook(ask, a, t.folder, FALSE)
JoinFolders(ask, S) == [i \in DOMAIN S |-> JoinFolder(ask, S, i)]

\* NumberParts: every place stated and no two alike, or 1, 2, 3
NumberParts(places) ==
    IF \A i, j \in DOMAIN places : places[i] >= 1 /\ (places[i] = places[j] => i = j) THEN places
    ELSE [i \in DOMAIN places |-> i]
\* LonePart
LonePart(place) == IF place > 1 THEN place ELSE 0

\* the indexes of one book's files in reading order
InOrder(S, ids) == SetToSortSeq(ids, LAMBDA i, j : S[i].place < S[j].place \/ (S[i].place = S[j].place /\ i < j))

\* numberBook: a copy or another encoding of a part is its alternate; the better leads
Leads(S, G) ==
    LET alike(i, j) == SameAudio(S[i], S[j]) \/ (S[i].place = S[j].place /\ OtherEncoding(S[i], S[j]))
    IN  SelectSeq(G, LAMBDA i : \A k \in DOMAIN G : G[k] # i /\ alike(i, G[k]) =>
                                  ~Better(S[G[k]], S[i]) /\ (Better(S[i], S[G[k]]) \/ i < G[k]))
LeadOf(S, G, i) ==
    LET L == Leads(S, G)
    IN  L[CHOOSE k \in DOMAIN L : L[k] = i \/ SameAudio(S[i], S[L[k]]) \/ (S[i].place = S[L[k]].place /\ OtherEncoding(S[i], S[L[k]]))]

\* BookByKey: the parts the catalog holds of a book, in reading order
CatalogBook(lib, b) ==
    SetToSortSeq({d \in DOMAIN fileRows : d.lib = lib /\ fileRows[d].item = b /\ fileRows[d].role = "part"},
                 LAMBDA d, e : fileRows[d].pos < fileRows[e].pos)

\* catalogNumbers: a staged copy of a cataloged part takes the part's number, the others theirs among the parts
TwinOf(S, i, parts) ==
    {k \in DOMAIN parts : \/ fileRows[parts[k]].audio = TagsOf[S[i].f].audio
                          \/ S[i].place > 0 /\ S[i].place = fileRows[parts[k]].pos /\ \E g \in DOMAIN TagsOf :
                               TagsOf[g].audio = fileRows[parts[k]].audio /\ TagsOf[g].work = TagsOf[S[i].f].work}
CatalogNumbers(S, L, parts) ==
    LET own == SelectSeq(L, LAMBDA i : TwinOf(S, i, parts) = {})
        unstated == SelectSeq(own, LAMBDA i : S[i].place = 0)
        top == Max({0} \cup {fileRows[parts[k]].pos : k \in DOMAIN parts} \cup {S[own[k]].place : k \in DOMAIN own})
        posOf(i) == IF S[i].place > 0 THEN S[i].place ELSE top + CHOOSE n \in DOMAIN unstated : unstated[n] = i
        all == [k \in DOMAIN parts |-> [pos |-> fileRows[parts[k]].pos, tie |-> k, id |-> 0]]
                 \o [k \in DOMAIN own |-> [pos |-> posOf(own[k]), tie |-> Len(parts) + k, id |-> own[k]]]
        sorted == SortSeq(all, LAMBDA x, y : x.pos < y.pos \/ (x.pos = y.pos /\ x.tie < y.tie))
        numbers == NumberParts([k \in DOMAIN sorted |-> sorted[k].pos])
        numberOf(k) == numbers[CHOOSE n \in DOMAIN sorted : sorted[n].id = 0 /\ sorted[n].tie = k]
        twin(i) == CHOOSE k \in TwinOf(S, i, parts) : TRUE
        restores(i) == fileRows[parts[twin(i)]].audio = TagsOf[S[i].f].audio /\ ~OnDiskAt(parts[twin(i)])
    IN  [i \in {L[k] : k \in DOMAIN L} |->
           IF \E k \in DOMAIN own : own[k] = i
           THEN [no |-> numbers[CHOOSE n \in DOMAIN sorted : sorted[n].id = i], pos |-> posOf(i), alt |-> FALSE]
           ELSE [no |-> numberOf(twin(i)), pos |-> fileRows[parts[twin(i)]].pos, alt |-> ~restores(i)]]

\* stagedNumbers
StagedNumbers(S, L) ==
    LET places == [k \in DOMAIN L |-> S[L[k]].place]
        numbers == IF Len(L) = 1 THEN <<LonePart(places[1])>> ELSE NumberParts(places)
    IN  [i \in {L[k] : k \in DOMAIN L} |->
           LET k == CHOOSE k \in DOMAIN L : L[k] = i IN [no |-> numbers[k], pos |-> S[i].place, alt |-> FALSE]]

Numbers(S, G) ==
    LET L == Leads(S, G)
        parts == CatalogBook(S[G[1]].lib, S[G[1]].book)
    IN  IF parts = << >> THEN StagedNumbers(S, L) ELSE CatalogNumbers(S, L, parts)

\* CopyRelPath: the first copy number free on disk and in the plan
CopyPlace(lib, b, no, used) ==
    At(lib, b, no, CHOOSE n \in 1..9 : /\ At(lib, b, no, n) \notin used /\ Standing(At(lib, b, no, n)) = Nothing
                                       /\ \A k \in 1..n - 1 : At(lib, b, no, k) \in used \/ Standing(At(lib, b, no, k)) # Nothing)

\* the copies, each beside the part it is of, under the first number free
RECURSIVE PlaceCopies(_, _, _, _, _)
PlaceCopies(S, G, no, copies, used) ==
    IF copies = << >> THEN << >>
    ELSE LET a == S[Head(copies)]
             lead == no[LeadOf(S, G, Head(copies))]
             d == CopyPlace(a.lib, a.book, lead.no, used)
         IN  <<[a EXCEPT !.dst = d, !.alt = TRUE, !.place = lead.pos, !.unit = a.book]>>
               \o PlaceCopies(S, G, no, Tail(copies), used \cup {d})

\* the part that lands first in a new book: the first that is sure of it
OwnerOf(S, L) ==
    LET sure == SelectSeq(L, LAMBDA i : TagsOf[S[i].f].strong)
    IN  IF sure = << >> THEN L[1] ELSE sure[1]

\* the parts as they land: the owner of a new book, then what joined it last
LandOrder(S, parts, owner) ==
    owner \o SelectSeq(parts, LAMBDA i : i \notin ToSet(owner) /\ ~S[i].joined)
          \o SelectSeq(parts, LAMBDA i : i \notin ToSet(owner) /\ S[i].joined)

PlaceParts(S, no, order, lib, b) ==
    [k \in DOMAIN order |-> [S[order[k]] EXCEPT !.dst = At(lib, b, no[order[k]].no, 1), !.place = no[order[k]].pos, !.unit = b]]

PlaceBook(S, G, L, no, lib, b) ==
    LET alt(i) == i \notin ToSet(L) \/ no[i].alt
        parts == SelectSeq(L, LAMBDA i : ~alt(i))
        owner == IF CatalogBook(lib, b) = << >> THEN <<OwnerOf(S, L)>> ELSE << >>
        taken == {At(lib, b, no[i].no, 1) : i \in ToSet(parts)}
                   \cup {At(lib, b, d.no, 1) : d \in {d \in DOMAIN fileRows : d.lib = lib /\ fileRows[d].item = b}}
    IN  PlaceParts(S, no, LandOrder(S, parts, owner), lib, b)
          \o PlaceCopies(S, G, no, SelectSeq(G, alt), taken)

NumberOrdered(S, G) == PlaceBook(S, G, Leads(S, G), Numbers(S, G), S[G[1]].lib, S[G[1]].book)

\* numberBook: the files of one book with their places, in the order they land
NumberBook(S, ids) == NumberOrdered(S, InOrder(S, ids))

\* numberBooks: each book's files stand together where its first one stood
NumberBooks(S) ==
    LET inBook == {i \in Importing(S) : S[i].kind = "book" /\ S[i].book # ""}
        group(i) == {j \in inBook : S[j].book = S[i].book /\ S[j].lib = S[i].lib}
    IN  FlattenSeq([i \in DOMAIN S |-> IF i \notin inBook THEN <<S[i]>>
                                       ELSE IF \E j \in group(i) : j < i THEN << >>
                                       ELSE NumberBook(S, group(i))])

-----------------------------------------------------------------------------
(* The plan.                                                               *)

AnyUnit == "*"

\* planUnits, copyOfPart
PlanUnits(ask, S) ==
    LET copyOfPart(a) ==
          \/ \E k \in Importing(S) : S[k].unit = a.book /\ (SameAudio(a, S[k]) \/ (S[k].place = a.place /\ OtherEncoding(a, S[k])))
          \/ \E d \in DOMAIN fileRows : fileRows[d].item = a.book /\ fileRows[d].role = "part" /\ fileRows[d].audio = TagsOf[a.f].audio
        unit(a) == CASE a.outcome = "duplicate" -> a.unit
                     [] a.code = "unreadable" -> AnyUnit
                     [] a.kind = "track" -> TagsOf[a.f].album
                     [] a.outcome # "import" /\ a.lib # "" /\ a.book # "" /\ ~copyOfPart(a) -> a.book
                     [] OTHER -> a.unit
    IN  IF ask.hold THEN [i \in DOMAIN S |-> [S[i] EXCEPT !.unit = unit(S[i])]] ELSE S

HeldOnDisk(a) == IF OnDiskAt(a.dst) THEN "exists" ELSE ""
\* DestinationHold
DestinationHold(a) ==
    IF OnDiskAt(a.dst) THEN "exists"
    ELSE IF RowAt(a.dst) # NoFileRow /\ RowAt(a.dst).audio # TagsOf[a.f].audio THEN "cataloged"
    ELSE ""

\* settle, claim: in the order they land, a second claim on a place or, skipping duplicates, on audio is turned away
RECURSIVE Settle(_, _, _, _)
Settle(ask, S, places, audio) ==
    IF S = << >> THEN << >>
    ELSE LET a == Head(S)
             own == TagsOf[a.f].audio
             after == IF a.outcome # "import" THEN a
                      ELSE IF ask.dup = "skip" /\ own \in audio THEN Refuse(a, "duplicate", "duplicate-in-batch")
                      ELSE IF a.dst \in places THEN Refuse(a, "quarantine", "claimed")
                      ELSE IF DestinationHold(a) # "" THEN Refuse(a, "quarantine", DestinationHold(a))
                      ELSE a
             claims == after.outcome = "import"
         IN  <<after>> \o Settle(ask, Tail(S), IF claims THEN places \cup {a.dst} ELSE places, IF claims THEN audio \cup {own} ELSE audio)

\* HoldUnits
HoldUnits(S) ==
    LET holds == {S[i].unit : i \in {i \in DOMAIN S : /\ S[i].unit # "" /\ ~S[i].joined /\ ~S[i].alt /\ S[i].outcome # "import"
                                                      /\ (S[i].kind = "book" \/ S[i].outcome = "quarantine")}}
        held(a) == a.outcome = "import" /\ a.unit # "" /\ (a.unit \in holds \/ AnyUnit \in holds)
    IN  [i \in DOMAIN S |-> IF held(S[i]) THEN Refuse(S[i], "quarantine", IF S[i].kind = "book" THEN "book-held" ELSE "album-held")
                            ELSE S[i]]

\* PlanPaths
PlanPaths(ask) ==
    LET classified == [i \in DOMAIN ask.files |-> Classify(ask, ask.files[i])]
        numbered == NumberBooks(JoinFolders(ask, classified))
    IN  HoldUnits(Settle(ask, PlanUnits(ask, numbered), {}, {}))

\* PlanImport, ImportAcquired: an explicit target that is read-only is refused
PlanImport(ask) ==
    /\ Len(plans) < 2 /\ apply = NoApply /\ inboxLeft.applies > 0
    /\ ask.lib \notin readOnly
    /\ plans' = Append(plans, [ask |-> ask, acts |-> PlanPaths(ask)])
    /\ UNCHANGED <<staged, disk, fileRows, readOnly, away, apply, lastApply, viaSkip, inboxLeft>>

-----------------------------------------------------------------------------
(* The apply, under the lease of what moves files.                         *)

\* ApplyImport's second look at one file
Recheck(ask, a) ==
    IF a.outcome # "import" THEN a
    ELSE IF a.lib \in readOnly THEN Refuse(a, "quarantine", "read-only-library")
    ELSE IF ask.dup = "skip" /\ HeldAudio(TagsOf[a.f].audio, a.kind, a.lib) # {} THEN Refuse(a, "duplicate", "landed-since")
    ELSE IF DestinationHold(a) # "" THEN Refuse(a, "quarantine", DestinationHold(a))
    ELSE IF ~ask.copy /\ "staging" \in readOnly THEN Refuse(a, "quarantine", "read-only-source")
    ELSE a

LivePlanAlone(p) == [i \in DOMAIN p.acts |-> Recheck(p.ask, p.acts[i])]
LivePlan(p) == HoldUnits([i \in DOMAIN p.acts |-> Recheck(p.ask, p.acts[i])])

\* ApplyImport; a preflight that cannot see a target's root refuses the whole
ApplyImport(k) ==
    LET live == LivePlan(plans[k])
    IN  /\ apply = NoApply /\ inboxLeft.applies > 0 /\ k \in DOMAIN plans
        /\ plans' = RemoveAt(plans, k)
        /\ inboxLeft' = [inboxLeft EXCEPT !.applies = @ - 1]
        /\ IF \E i \in Importing(live) : live[i].lib \in away THEN UNCHANGED apply
           ELSE apply' = [acts |-> live, next |-> 1, stage |-> "place", ask |-> plans[k].ask, clean |-> TRUE, landed |-> {}]
        /\ UNCHANGED <<staged, disk, fileRows, readOnly, away, lastApply, viaSkip>>

Current == apply.acts[apply.next]

\* importOne: the file is placed beside nothing, or it failed
PlaceFile ==
    /\ apply.stage = "place" /\ apply.next <= Len(apply.acts)
    /\ IF Current.outcome # "import"
       THEN apply' = [apply EXCEPT !.next = @ + 1] /\ UNCHANGED <<staged, disk>>
       ELSE IF Current.f \notin staged \/ Standing(Current.dst) # Nothing
       THEN apply' = [apply EXCEPT !.next = @ + 1, !.clean = FALSE] /\ UNCHANGED <<staged, disk>>
       ELSE /\ disk' = [d \in DOMAIN disk \cup {Current.dst} |-> IF d = Current.dst THEN TagsOf[Current.f].audio ELSE disk[d]]
            /\ staged' = IF apply.ask.copy THEN staged ELSE staged \ {Current.f}
            /\ apply' = [apply EXCEPT !.stage = "catalog"]
    /\ UNCHANGED <<fileRows, readOnly, away, plans, lastApply, viaSkip, inboxLeft>>

\* ScanFileWith, the put of one placed file: the row at its place stands for the same audio, a gone file's
\* row comes back by its audio, standing audio of the kind takes a copy, a book takes a part, and anything else is new
PutFile(d, audio, kind, b, pos, f) ==
    LET gone == {e \in Holding(audio) : ~OnDiskAt(e) /\ e.lib = d.lib /\ e.lib \notin away /\ fileRows[e].kind = kind}
        back == CHOOSE e \in gone : TRUE
        alike == {e \in Holding(audio) : e # d /\ fileRows[e].kind = kind /\ e.lib = d.lib}
        own == RowAt(d).audio = audio
        row == CASE own -> fileRows[d]
                 [] ~own /\ gone # {} -> fileRows[back]
                 [] ~own /\ gone = {} /\ alike # {} -> FileRow(audio, fileRows[CHOOSE e \in alike : TRUE].item, kind, "copy", pos)
                 [] OTHER -> FileRow(audio, IF kind = "book" THEN b ELSE f, kind, "part", pos)
        kept == (DOMAIN fileRows \ (IF ~own /\ gone # {} THEN {back} ELSE {})) \cup {d}
    IN  fileRows' = [e \in kept |-> IF e = d THEN row ELSE fileRows[e]]

\* importOne, after the file has landed; a failed put leaves it placed and uncataloged
CatalogFile ==
    /\ apply.stage = "catalog"
    /\ \/ /\ PutFile(Current.dst, TagsOf[Current.f].audio, Current.kind, Current.book, Current.place, Current.f)
          /\ viaSkip' = IF apply.ask.dup = "skip" THEN viaSkip \cup {Current.dst} ELSE viaSkip \ {Current.dst}
          /\ apply' = [apply EXCEPT !.stage = "place", !.next = @ + 1, !.landed = @ \cup {apply.next}]
          /\ UNCHANGED inboxLeft
       \/ /\ inboxLeft.meddling > 0 /\ inboxLeft' = [inboxLeft EXCEPT !.meddling = @ - 1]
          /\ apply' = [apply EXCEPT !.stage = "place", !.next = @ + 1, !.clean = FALSE]
          /\ UNCHANGED <<fileRows, viaSkip>>
    /\ UNCHANGED <<staged, disk, readOnly, away, plans, lastApply>>

\* Execute's end, and its end on a cancelled call
FinishApply ==
    /\ apply.stage = "place"
    /\ \/ apply.next > Len(apply.acts) /\ lastApply' = apply /\ UNCHANGED inboxLeft
       \/ /\ apply.next <= Len(apply.acts) /\ inboxLeft.meddling > 0
          /\ inboxLeft' = [inboxLeft EXCEPT !.meddling = @ - 1] /\ lastApply' = [apply EXCEPT !.clean = FALSE]
    /\ apply' = NoApply
    /\ UNCHANGED <<staged, disk, fileRows, readOnly, away, plans, viaSkip>>

-----------------------------------------------------------------------------
(* What else happens.                                                      *)

Meddle == inboxLeft.meddling > 0 /\ inboxLeft' = [inboxLeft EXCEPT !.meddling = @ - 1]

Targets == {a.dst : a \in UNION ({Range(plans[k].acts) : k \in DOMAIN plans} \cup {Range(apply.acts)})} \ {NoPlace}

ImporterDies ==
    /\ Meddle /\ apply # NoApply /\ apply' = NoApply /\ lastApply' = [apply EXCEPT !.clean = FALSE]
    /\ UNCHANGED <<staged, disk, fileRows, readOnly, away, plans, viaSkip>>
FileAppears ==
    /\ Meddle /\ \E d \in Targets : Standing(d) = Nothing /\ disk' = [e \in DOMAIN disk \cup {d} |-> IF e = d THEN Foreign ELSE disk[e]]
    /\ UNCHANGED <<staged, fileRows, readOnly, away, plans, apply, lastApply, viaSkip>>
FileGoes ==
    /\ Meddle /\ \E d \in DOMAIN disk : Standing(d) # Nothing /\ disk' = [disk EXCEPT ![d] = Nothing]
    /\ UNCHANGED <<staged, fileRows, readOnly, away, plans, apply, lastApply, viaSkip>>
StagingChanges ==
    /\ Meddle /\ \E f \in Range(StagedOrder) : staged' = IF f \in staged THEN staged \ {f} ELSE staged \cup {f}
    /\ UNCHANGED <<disk, fileRows, readOnly, away, plans, apply, lastApply, viaSkip>>
FlagLibrary ==
    /\ Meddle /\ \E l \in Range(Managed) \cup {"staging"} : readOnly' = IF l \in readOnly THEN readOnly \ {l} ELSE readOnly \cup {l}
    /\ UNCHANGED <<staged, disk, fileRows, away, plans, apply, lastApply, viaSkip>>
RootComesOrGoes ==
    /\ Meddle /\ apply = NoApply /\ \E l \in Range(Managed) : away' = IF l \in away THEN away \ {l} ELSE away \cup {l}
    /\ UNCHANGED <<staged, disk, fileRows, readOnly, plans, apply, lastApply, viaSkip>>
\* a scan takes in what a failed import left
ScanTakesIn ==
    /\ Meddle /\ apply = NoApply
    /\ \E d \in DOMAIN disk : OnDiskAt(d) /\ RowAt(d) = NoFileRow /\ PutFile(d, Standing(d), "track", "", 0, "scanned")
    /\ UNCHANGED <<staged, disk, readOnly, away, plans, apply, lastApply, viaSkip>>

InboxInit ==
    /\ staged \in {Range(StagedOrder)} /\ readOnly = {} /\ away = {} /\ plans = << >>
    /\ \E c \in CatalogAtStart :
         /\ fileRows = [d \in {c[i].at : i \in DOMAIN c} |-> c[CHOOSE i \in DOMAIN c : c[i].at = d].row]
         /\ disk = [d \in {c[i].at : i \in DOMAIN c} |->
                      LET i == CHOOSE i \in DOMAIN c : c[i].at = d IN IF c[i].gone THEN Nothing ELSE c[i].row.audio]
    /\ apply = NoApply /\ lastApply = NoApply /\ viaSkip = {}
    /\ inboxLeft = [applies |-> MaxApplies, meddling |-> MaxMeddling]

InboxNext ==
    \/ \E ask \in Asks : PlanImport(ask)
    \/ \E k \in 1..2 : ApplyImport(k)
    \/ PlaceFile \/ CatalogFile \/ FinishApply \/ ImporterDies
    \/ FileAppears \/ FileGoes \/ StagingChanges \/ FlagLibrary \/ RootComesOrGoes \/ ScanTakesIn

InboxSpec == InboxInit /\ [][InboxNext]_inboxVars

-----------------------------------------------------------------------------
(* Properties.                                                             *)

(* An apply in which no file failed lands a book's own parts together or   *)
(* leaves them all, its copies and joined files with them, whatever        *)
(* changed since the plan (HoldUnits, ApplyImport).                        *)
BooksLandWhole ==
    lastApply.clean =>
      \A i, j \in DOMAIN lastApply.acts :
        LET a == lastApply.acts[i] b == lastApply.acts[j]
        IN  a.kind = "book" /\ b.kind = "book" /\ a.unit = b.unit /\ a.unit # "" /\ ~a.joined /\ ~a.alt /\ j \in lastApply.landed
              => i \in lastApply.landed

(* Imports that skip duplicates never leave one recording cataloged and on *)
(* disk at two places they placed it at, even when two plans made together *)
(* are applied one after the other (claim, ApplyImport).                   *)
LandedOnce ==
    \A d, e \in viaSkip : d # e /\ OnDiskAt(d) /\ OnDiskAt(e) => RowAt(d).audio # RowAt(e).audio \/ Standing(d) # Standing(e)

(* The two together.                                                       *)
ImportsWhole == BooksLandWhole /\ LandedOnce

(* An import replaces no file and takes no catalog row over: a row is left *)
(* alone, or goes with its item to where its audio landed (DestinationHold,*)
(* importOne).                                                             *)
ImportsTakeNothing ==
       apply' # apply =>
         /\ \A d \in DOMAIN disk : disk[d] # Nothing => disk'[d] = disk[d]
         /\ \A d \in DOMAIN fileRows :
              \/ d \in DOMAIN fileRows' /\ fileRows'[d].item = fileRows[d].item /\ fileRows'[d].audio = fileRows[d].audio
              \/ \E e \in DOMAIN fileRows' : fileRows'[e] = fileRows[d] /\ e \notin DOMAIN fileRows
=============================================================================
