----------------------------- MODULE MCEntities ----------------------------
(***************************************************************************)
(* The artists and the album chains of a catalog: each behaviour is one of *)
(* either, so that one run checks both.                                    *)
(***************************************************************************)
EXTENDS Artists, Albums, TLC

VARIABLE runs  \* the part this behaviour is of

\* The variables of the parts a behaviour is not of keep one value.
ArtistsIdle == fileTags = 0 /\ heldBy = 0 /\ tables = 0 /\ made = 0 /\ rollup = 0 /\ dirty = 0 /\ candidate = 0
   /\ now = 0 /\ merges = 0 /\ ruled = 0 /\ left = 0
AlbumsIdle == file = 0 /\ stored = 0 /\ locked = 0 /\ journal = 0 /\ chain = 0 /\ rowsMade = 0 /\ became = 0
   /\ decided = 0 /\ opsLeft = 0
MCInit ==
  \/ runs = "artists" /\ ArtistsInit /\ AlbumsIdle
  \/ runs = "albums" /\ AlbumsInit /\ ArtistsIdle

MCNext ==
  \/ runs = "artists" /\ ArtistsNext /\ UNCHANGED <<albumVars, runs>>
  \/ runs = "albums" /\ AlbumsNext /\ UNCHANGED <<artistVars, runs>>

MCVars == <<artistVars, albumVars, runs>>
MCSpec == MCInit /\ [][MCNext]_MCVars

Names == Permutations(Name) \cup Permutations(Title)

(***************************************************************************)
(* The properties of the parts, each over the behaviours of its own part.  *)
(***************************************************************************)
\* A name leads to one artist and a ruling decides which, stale rollups are
\* queued, and an opinion goes where its artist's music goes (entities.go,
\* merge.go, rollups.go).
ArtistsHold ==
  /\ [](runs = "artists" => NamesAnswered /\ RulingsHold /\ RollupsQueued)
  /\ [][runs = "artists" => OpinionsKept]_MCVars

\* The chain of track, album and group is whole, a key somebody decided on leads
\* to its row, and a star goes where its tracks go (entities.go, editrename.go).
AlbumsHold ==
  /\ [](runs = "albums" => ChainWhole /\ KeysDecided)
  /\ [][runs = "albums" => StarsFollow /\ NotLeftBehind]_MCVars
=============================================================================
