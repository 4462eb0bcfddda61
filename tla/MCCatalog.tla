----------------------------- MODULE MCCatalog -----------------------------
(***************************************************************************)
(* A library whose catalog and disk should agree (Trash), and the reads of *)
(* books, rips and tracks: a file and its copy, a better encoding of it,   *)
(* and a second part that may grow (Books); the pictures of a track, its   *)
(* album and its group (Art), and the callers that ask for thumbnails of   *)
(* them (Thumbs).  Each behaviour is one of one part, so that one run      *)
(* checks all four.                                                        *)
(***************************************************************************)
EXTENDS Trash, Books, Art, Thumbs

VARIABLE runs  \* the part this behaviour is of

AsTrack(k) == [as |-> "track", key |-> k, pos |-> 0, cue |-> << >>]
AsPart(k, p) == [as |-> "book", key |-> k, pos |-> p, cue |-> << >>]
AsRip(c) == [as |-> "rip", key |-> "", pos |-> 0, cue |-> c]
CueTrack(k, s, e) == [key |-> k, start |-> s, end |-> e]
TwoWindows == << CueTrack("w1", 0, 1), CueTrack("w2", 1, WholeFile) >>
OneWindow == << CueTrack("v1", 0, WholeFile) >>

MCAudioOf == <<"a", "b", "a", "c">>
MCRecordingOf == <<"a", "b", "a", "a">>
MCQualityOf == <<1, 1, 1, 2>>
MCCodecOf == <<"x", "x", "x", "y">>
MCLengthsOf == <<{2}, {2, 3}, {2}, {2}>>
MCReadingsOf ==
  << {AsTrack("t1"), AsPart("B", 1), AsPart("B", 3), AsRip(TwoWindows), AsRip(OneWindow)},
     {AsTrack("t2"), AsPart("B", 2)},
     {AsPart("B", 1), AsRip(TwoWindows)},
     {AsTrack("t1"), AsPart("B", 1)} >>

MCAlbumOf == [t \in {"t1"} |-> "al"]
MCGroupOf == [a \in {"al"} |-> "rg"]
MCSlots == {<<"t1", "front">>, <<"al", "front">>, <<"al", "back">>, <<"rg", "front">>}
MCRequests == {[lock |-> "", force |-> FALSE], [lock |-> "on", force |-> FALSE], [lock |-> "off", force |-> TRUE]}
MCPictures ==
  [h \in {"big", "odd"} |-> IF h = "big" THEN [longest |-> 300, displayable |-> TRUE, decodes |-> TRUE]
                            ELSE [longest |-> 100, displayable |-> FALSE, decodes |-> FALSE]]
MCWeight(box) == box

\* The variables of the parts a behaviour is not of keep one value.  Those of the library
\* keep the state it starts in, where what Trash says of it holds too.
TrashStart == Init
BooksIdle == db = 0 /\ reading = 0 /\ reads = 0 /\ listens = 0 /\ spot = 0 /\ marked = 0 /\ heard = 0 /\ granted = 0
ArtIdle == life = 0 /\ artMap = 0 /\ artLock = 0 /\ artSource = 0 /\ artResized = 0 /\ examined = 0 /\ carrier = 0
   /\ artStep = 0 /\ artLeft = 0
ThumbsIdle == sources = 0 /\ caller = 0 /\ calls = 0 /\ thumbMem = 0 /\ thumbFail = 0 /\ memCharge = 0
   /\ thumbFile = 0 /\ aside = 0 /\ writer = 0 /\ readers = 0 /\ thumbsStored = 0 /\ thumbsDamaged = 0
   /\ noting = 0 /\ lateMark = 0 /\ reattaching = 0 /\ thumbsLeft = 0
MCInit ==
  \/ runs = "trash" /\ TrashStart /\ BooksIdle /\ ArtIdle /\ ThumbsIdle
  \/ runs = "books" /\ BooksInit /\ TrashStart /\ ArtIdle /\ ThumbsIdle
  \/ runs = "art" /\ ArtInit /\ TrashStart /\ BooksIdle /\ ThumbsIdle
  \/ runs = "thumbs" /\ ThumbsInit /\ TrashStart /\ BooksIdle /\ ArtIdle

AtBound ==
  \/ runs = "trash" /\ strayed # {}
  \/ runs = "books" /\ ~MayRead /\ ~MayListen
  \/ runs = "art" /\ artLeft <= 0 /\ carrier = NoCarrier
  \/ runs = "thumbs" /\ thumbsLeft = 0

MCNext ==
  \/ runs = "trash" /\ strayed = {} /\ Next /\ UNCHANGED <<bookVars, artVars, thumbVars, runs>>
  \/ runs = "books" /\ BooksNext /\ UNCHANGED <<vars, artVars, thumbVars, runs>>
  \/ runs = "art" /\ ArtNext /\ UNCHANGED <<vars, bookVars, thumbVars, runs>>
  \/ runs = "thumbs" /\ ThumbsNext /\ UNCHANGED <<vars, bookVars, artVars, runs>>
  \/ AtBound /\ UNCHANGED <<vars, bookVars, artVars, thumbVars, runs>>

MCVars == <<vars, bookVars, artVars, thumbVars, runs>>
MCSpec == MCInit /\ [][MCNext]_MCVars

(***************************************************************************)
(* The properties of the other parts, each over the behaviours of its own; *)
(* CatalogMatchesDisk and FilesNamed are those of Trash.                   *)
(***************************************************************************)
\* Every edge joins what it should, each place is kept against audio that is
\* still there, and what is finished was heard or granted (book.go, fold.go).
BooksHold == runs = "books" => BooksTypeOK /\ EdgesWellFormed /\ PlacesFollowAudio /\ FinishedUnlessGranted

\* A file read another way keeps a pid that a client knows (rekind.go).
PidsKept == [][runs = "books" => IdentityKept]_MCVars

\* Every caller is answered with the thumbnail it asked for (thumbs.go).
ThumbsHold == runs = "thumbs" => ThumbsAnswer

\* What is shown is stored, and nobody's curation is undone (art.go).
ArtStands == [](runs = "art" => ArtSound) /\ [][runs = "art" => ArtCurated]_MCVars
=============================================================================
