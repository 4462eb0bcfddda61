-------------------------------- MODULE Art ---------------------------------
(***************************************************************************)
(* Artwork: which picture each entity shows in each role, who may change   *)
(* it, and which pictures the catalog keeps.                               *)
(*                                                                         *)
(* A picture is examined off the write lock (an oversized one is scaled,   *)
(* and what it became is remembered) and written later in a transaction.   *)
(* Rows are keyed by type and row id without a foreign key, and SQLite     *)
(* gives a deleted row's id away again.                                    *)
(***************************************************************************)
EXTENDS Naturals, Sequences, FiniteSets

CONSTANTS
    Arrivals,    \* the pictures that arrive
    Oversized,   \* those over MaxSourceDim
    Scalable,    \* those of them a scaled copy of would be smaller
    Tracks, Albums, Groups, Others,  \* row ids: items, albums, release groups, and entities without ancestors
    AlbumOf,     \* each track's album, or ""
    GroupOf,     \* each album's release group, or ""
    Roles,       \* "front" and others
    Slots,       \* the (entity, role) pairs in use, every entity's front among them
    Requests,    \* what a hand asks beside the picture: [lock |-> "on", "off" or "", force |-> BOOLEAN]
    MemoryMax,   \* examinedMemMax
    MaxArtOps

VARIABLES
    life,        \* each entity's life: odd when the row is there, one up at each birth and death
    artMap,      \* (entity, role) -> [hash, source, life], or NoArt
    artLock,     \* (entity, field) -> the life it was set in, or 0
    artSource,   \* the stored pictures
    artResized,  \* arrivals and what each is stored as
    examined,    \* the oversized arrivals this process examined lately
    carrier,     \* the picture a writer examined and has not written yet, or NoCarrier
    artStep,     \* who took the last step
    artLeft

artVars == <<life, artMap, artLock, artSource, artResized, examined, carrier, artStep, artLeft>>

Entities == Tracks \cup Albums \cup Groups \cup Others
Field(role) == IF role = "front" THEN "art" ELSE "art." \o role
Fields == {Field(r) : r \in Roles}
NoArt == [hash |-> "", source |-> "", life |-> 0]
Plain == [lock |-> "", force |-> FALSE]
NoCarrier == [by |-> "", entity |-> "", role |-> "", hash |-> "", from |-> "", known |-> FALSE, life |-> 0, ask |-> Plain]
Alive(e) == life[e] % 2 = 1

-----------------------------------------------------------------------------
(* Pictures.                                                               *)

\* Bound, boundArrival
Bound(p) == IF p \in Scalable THEN p \o "/2000" ELSE p

ResizedTo(p) == {r \in artResized : r.from = p}

\* examinedMem: the arrival examined last comes first
Remember(p) == LET lru == <<p>> \o SelectSeq(examined, LAMBDA q : q # p)
               IN  SubSeq(lru, 1, IF Len(lru) < MemoryMax THEN Len(lru) ELSE MemoryMax)

\* examineArt: from memory, from art_resized, or by decoding; a picture within the bound is kept as it is
Examine(by, e, role, p, ask) ==
    /\ artLeft > 0 /\ carrier = NoCarrier /\ Alive(e)
    /\ LET big == p \in Oversized
       IN  /\ carrier' = [by |-> by, entity |-> e, role |-> role, hash |-> Bound(p), from |-> IF big THEN p ELSE "",
                          known |-> big /\ ((\E k \in DOMAIN examined : examined[k] = p) \/ ResizedTo(p) # {}),
                          life |-> life[e], ask |-> ask]
           /\ examined' = IF big THEN Remember(p) ELSE examined
    /\ artStep' = "examine"
    /\ UNCHANGED <<life, artMap, artLock, artSource, artResized, artLeft>>

\* trusting what the examination found stored
InsertUnlessKnown(c) == artSource' = IF c.known THEN artSource ELSE artSource \cup {c.hash}
\* insertArtSourceTx: the bytes travel with the carrier, and are stored again if the source is gone
InsertSource(c) == artSource' = artSource \cup {c.hash}

\* setEntityArtRoleTx
SetRole(c, source) ==
    /\ artMap' = [artMap EXCEPT ![c.entity, c.role] = [hash |-> c.hash, source |-> source, life |-> life[c.entity]]]
    /\ InsertSource(c)
    /\ artResized' = IF c.from = "" \/ ResizedTo(c.from) # {} THEN artResized ELSE artResized \cup {[from |-> c.from, hash |-> c.hash]}

\* attachEntityArtTxChanged: the same picture is only attributed anew
Attach(c, source) ==
    IF artMap[c.entity, c.role].hash = c.hash
    THEN artMap' = [artMap EXCEPT ![c.entity, c.role].source = source] /\ UNCHANGED <<artSource, artResized>>
    ELSE SetRole(c, source)

-----------------------------------------------------------------------------
(* Locks.                                                                  *)

Locked(e, field) == artLock[e, field] # 0
\* artRoleLockedTx: a hand's gate
RoleLocked(e, role) == Locked(e, Field(role))
\* artFillBlockedTx: everyone else's
FillBlocked(e, role) == Locked(e, "art") \/ RoleLocked(e, role)

SetLock(e, role, change) ==
    artLock' = CASE change = "on" -> [artLock EXCEPT ![e, Field(role)] = life[e]]
                 [] change = "off" -> [artLock EXCEPT ![e, Field(role)] = 0]
                 [] OTHER -> artLock

-----------------------------------------------------------------------------
(* What an entity shows.                                                   *)

Covers(al) == {t \in Tracks : AlbumOf[t] = al /\ Alive(t) /\ artMap[t, "front"] # NoArt}
\* artInChain at one level: its own row or, for an album's front, a member's
RungShows(e, role) ==
    IF artMap[e, role] # NoArt THEN {artMap[e, role].hash}
    ELSE IF e \in Albums /\ role = "front" THEN {artMap[t, "front"].hash : t \in Covers(e)}
    ELSE {}
\* albumResolvesFrontArt
AlbumResolves(al) == RungShows(al, "front") # {}

\* trackArtChain, albumArtChain, releaseGroupArtChain: the level asked first, and its living ancestors
Chain(e) ==
    LET al == IF e \in Tracks THEN AlbumOf[e] ELSE IF e \in Albums THEN e ELSE ""
        rg == IF al = "" THEN "" ELSE GroupOf[al]
        with(x) == IF x = "" \/ x = e THEN << >> ELSE <<x>>
    IN  <<e>> \o with(al) \o with(rg)
\* ResolveArt: only a front falls back
ResolveArt(e, role) ==
    LET chain == IF role = "front" THEN Chain(e) ELSE <<e>>
        shown == {k \in DOMAIN chain : RungShows(chain[k], role) # {}}
    IN  IF shown = {} THEN {} ELSE RungShows(chain[CHOOSE k \in shown : \A j \in shown : k <= j], role)

\* ArtRoles, artLockRows: the roles an entity has a picture or a lock of its own in
ArtRoles(e) ==
    {[role |-> r, hash |-> artMap[e, r].hash, locked |-> FillBlocked(e, r), roleLocked |-> RoleLocked(e, r)] :
       r \in {q \in Roles : <<e, q>> \in Slots /\ (artMap[e, q] # NoArt \/ RoleLocked(e, q))}}

-----------------------------------------------------------------------------
(* The writers.  A picture is written to the entity its pid resolves to;   *)
(* one that died since it was examined is refused.                         *)

\* without the look at the members' covers
AlbumOwnOpen(al) == artMap[al, "front"] = NoArt /\ ~FillBlocked(al, "front")
\* albumFrontOpenTx
AlbumFrontOpen(al) == ~AlbumResolves(al) /\ ~FillBlocked(al, "front")

ArtKept == UNCHANGED <<artMap, artSource, artResized>>
ArtRefused(c) == ~c.ask.force /\ IF c.by = "hand" THEN RoleLocked(c.entity, c.role) ELSE FillBlocked(c.entity, c.role)

\* SetItemArt, SetEntityArt with bytes
HandSets(c) ==
    IF ArtRefused(c) THEN ArtKept /\ UNCHANGED artLock
    ELSE SetRole(c, "user") /\ SetLock(c.entity, c.role, c.ask.lock)
\* attachArtRespectingLockTx
ScanAttaches(c) == IF ArtRefused(c) THEN ArtKept ELSE Attach(c, "embedded")
\* fillEntityAuxArtTx
FillAux(c) == IF ArtRefused(c) \/ artMap[c.entity, c.role] # NoArt THEN ArtKept ELSE SetRole(c, "enrichment")
\* fillAlbumArtTx
FillAlbum(c) == IF AlbumFrontOpen(c.entity) THEN Attach(c, "enrichment") ELSE ArtKept
\* attachEntityArtUnlessLockedTx: a group's front, a feed's picture
AttachUnlessLocked(c) == IF ArtRefused(c) THEN ArtKept ELSE Attach(c, "enrichment")

Land ==
    LET c == carrier
        gone == IF c.by = "scan" THEN ~Alive(c.entity) ELSE life[c.entity] # c.life
    IN  /\ c # NoCarrier /\ carrier' = NoCarrier /\ artLeft' = artLeft - 1 /\ artStep' = c.by
        /\ IF gone THEN ArtKept /\ UNCHANGED artLock
           ELSE IF c.by = "hand" THEN HandSets(c)
           ELSE /\ UNCHANGED artLock
                /\ IF c.by = "scan" THEN ScanAttaches(c)
                   ELSE IF c.role # "front" THEN FillAux(c)
                   ELSE IF c.entity \in Albums THEN FillAlbum(c) ELSE AttachUnlessLocked(c)
        /\ UNCHANGED <<life, examined>>

Quiet(by) == artLeft > 0 /\ artLeft' = artLeft - 1 /\ artStep' = by

\* fillAlbumArtFromGroupTx: the group's enrichment front, if it is still the one the provider meant
FillAlbumFromGroup(al, hash) ==
    /\ Quiet("provider") /\ Alive(al) /\ AlbumFrontOpen(al) /\ GroupOf[al] # ""
    /\ artMap[GroupOf[al], "front"].hash = hash /\ artMap[GroupOf[al], "front"].source = "enrichment"
    /\ artMap' = [artMap EXCEPT ![al, "front"] = [hash |-> hash, source |-> "enrichment", life |-> life[al]]]
    /\ UNCHANGED <<life, artLock, artSource, artResized, examined, carrier>>

\* SetItemArt, SetEntityArt with nothing: the role is cleared, and locked as asked
ClearArt(e, role, ask) ==
    /\ Quiet("hand") /\ Alive(e) /\ (ask.force \/ ~RoleLocked(e, role))
    /\ artMap' = [artMap EXCEPT ![e, role] = NoArt] /\ SetLock(e, role, ask.lock)
    /\ UNCHANGED <<life, artSource, artResized, examined, carrier>>

\* SetArtLock
SetArtLock(e, role, lock) ==
    /\ Quiet("lock") /\ Alive(e) /\ RoleLocked(e, role) # lock /\ SetLock(e, role, IF lock THEN "on" ELSE "off")
    /\ UNCHANGED <<life, artMap, artSource, artResized, examined, carrier>>

\* clearEnrichmentArtTx: an identity is disowned, and what was fetched under it with it
DisownIdentity(e) ==
    /\ Quiet("disown") /\ Alive(e)
    /\ artMap' = [s \in Slots |-> IF s[1] = e /\ artMap[s].source = "enrichment" /\ ~FillBlocked(e, s[2]) THEN NoArt ELSE artMap[s]]
    /\ UNCHANGED <<life, artLock, artSource, artResized, examined, carrier>>

\* deleteEntityArtTx, deleteEntityArtLockTx, with the row they belonged to
DeleteEntity(e) ==
    /\ Quiet("delete") /\ Alive(e) /\ life' = [life EXCEPT ![e] = @ + 1]
    /\ artMap' = [s \in Slots |-> IF s[1] = e THEN NoArt ELSE artMap[s]]
    /\ artLock' = [l \in Entities \X Fields |-> IF l[1] = e THEN 0 ELSE artLock[l]]
    /\ UNCHANGED <<artSource, artResized, examined, carrier>>
ReuseId(e) ==
    /\ Quiet("create") /\ ~Alive(e) /\ life' = [life EXCEPT ![e] = @ + 1]
    /\ UNCHANGED <<artMap, artLock, artSource, artResized, examined, carrier>>

\* GCArt; a source takes its art_resized rows with it
GCArt ==
    /\ Quiet("gc")
    /\ artMap' = [s \in Slots |-> IF Alive(s[1]) THEN artMap[s] ELSE NoArt]
    /\ artSource' = {h \in artSource : \E s \in Slots : artMap'[s].hash = h}
    /\ artResized' = {r \in artResized : r.hash \in artSource'}
    /\ UNCHANGED <<life, artLock, examined, carrier>>
ProcessEnds ==
    /\ Quiet("restart") /\ examined' = << >> /\ carrier' = NoCarrier
    /\ UNCHANGED <<life, artMap, artLock, artSource, artResized>>

ArtInit ==
    /\ life = [e \in Entities |-> 1] /\ artMap = [s \in Slots |-> NoArt] /\ artLock = [l \in Entities \X Fields |-> 0]
    /\ \E orphans \in SUBSET Arrivals :   \* what earlier rows left for the collector
         /\ artSource = {Bound(p) : p \in orphans}
         /\ artResized = {[from |-> p, hash |-> Bound(p)] : p \in orphans \cap Oversized}
    /\ examined = << >> /\ carrier = NoCarrier
    /\ artStep = "" /\ artLeft = MaxArtOps

ArtNext ==
    \/ \E s \in Slots, p \in Arrivals, ask \in Requests : Examine("hand", s[1], s[2], p, ask)
    \/ \E e \in Tracks, p \in Arrivals, ignoreLocks \in BOOLEAN : Examine("scan", e, "front", p, [Plain EXCEPT !.force = ignoreLocks])
    \/ \E s \in Slots, p \in Arrivals : s[1] \notin Tracks /\ Examine("provider", s[1], s[2], p, Plain)
    \/ Land
    \/ \E al \in Albums, h \in artSource : FillAlbumFromGroup(al, h)
    \/ \E s \in Slots, ask \in Requests : ClearArt(s[1], s[2], ask)
    \/ \E s \in Slots, lock \in BOOLEAN : SetArtLock(s[1], s[2], lock)
    \/ \E e \in Albums \cup Groups : DisownIdentity(e)
    \/ \E e \in Entities : DeleteEntity(e) \/ ReuseId(e)
    \/ GCArt \/ ProcessEnds

ArtSpec == ArtInit /\ [][ArtNext]_artVars

-----------------------------------------------------------------------------
(* Properties.                                                             *)

(* Whatever is shown has its bytes, though a picture is written long after *)
(* it was examined and the collector may run in between (examineArt,       *)
(* insertArtSourceTx, GCArt); a picture that can be scaled is stored       *)
(* scaled; no row and no lock of a dead entity is there for the one that   *)
(* takes its id (deleteEntityArtTx); and a slot that a provider may not    *)
(* fill can be told from the listing: its own entry, or the front's, says  *)
(* locked (ArtRoles).                                                      *)
ArtSound ==
    /\ \A s \in Slots : ResolveArt(s[1], s[2]) \subseteq artSource
    /\ \A x \in artResized : x.hash \in artSource
    /\ artSource \cap Scalable = {}
    /\ \A s \in Slots : artMap[s] # NoArt => artMap[s].life = life[s[1]]
    /\ \A l \in Entities \X Fields : artLock[l] \in {0, life[l[1]]}
    /\ \A s \in Slots : FillBlocked(s[1], s[2]) <=> \E i \in ArtRoles(s[1]) : i.roleLocked /\ i.role \in {s[2], "front"}

(* Nobody but a hand, a scan told to ignore locks or the entity's end      *)
(* changes a slot that a lock holds, or the entity's lock; a hand does not *)
(* overrule the slot's own lock unless it says so; and a provider never    *)
(* changes what an album already shows (fillAlbumArtTx, artFillBlockedTx). *)
ArtCurated ==
       \A s \in Slots :
         LET e == s[1] r == s[2]
             changed == artMap'[s].hash # artMap[s].hash
         IN  /\ (changed /\ FillBlocked(e, r)) => artStep' \in {"hand", "scan", "delete"}
             /\ (changed /\ FillBlocked(e, r) /\ artStep' = "scan") => carrier.ask.force
             /\ (changed /\ RoleLocked(e, r) /\ artStep' = "hand" /\ carrier # carrier') => carrier.ask.force
             /\ (artStep' = "provider" /\ r = "front" /\ e \in Albums /\ AlbumResolves(e)) => RungShows(e, r)' = RungShows(e, r)
=============================================================================
