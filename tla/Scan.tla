-------------------------------- MODULE Scan --------------------------------
(***************************************************************************)
(* Cataloguing one library's tracks (scan/scan.go) and settling what the   *)
(* walk found against the catalog (store/sqlite/catalog.go, scanindex.go,  *)
(* copies.go).  A scan preloads the files it knows, walks the folders,     *)
(* puts each new or changed file in a transaction of its own, and at the   *)
(* end marks what it did not meet as missing, behind a gate that must not  *)
(* take an unplugged drive for a deletion.                                 *)
(*                                                                         *)
(* Several files may hold one recording: the item has one primary, whose   *)
(* tags it shows, and alternates that wait to take its place.  A file is   *)
(* modelled by its content: KeyOf gives the identity key of the item it    *)
(* belongs to, EssenceOf its audio, RankOf its quality (higher wins).  A   *)
(* retag keeps the audio and changes the key.  File rows are indexed by    *)
(* path, which the catalog keeps unique, so a relink moves a row.          *)
(*                                                                         *)
(* Books, rips and a second library are left to other modules.             *)
(***************************************************************************)
EXTENDS Naturals, Sequences, FiniteSets, SequencesExt

CONSTANTS
    Path, FolderOf,     \* the paths of the library and the folder of each
    Folders,            \* the folders in the order WalkDir enters them
    PathOrder,          \* the paths in the order a folder lists them
    Content, KeyOf, EssenceOf, RankOf,
    MaxChanges,         \* bound: what happens to the disk
    MaxScans,           \* bound: scans and single-file reads
    MaxScanFaults       \* bound: entries that cannot be read

NoFile == "no file"
NoItem == "no item"
NoRow == [c |-> NoFile, stamped |-> FALSE, item |-> NoItem, role |-> "none"]
Key == {KeyOf[c] : c \in Content}

VARIABLES
    disk,       \* what stands at each path of the library's drive
    rootUp,     \* the drive is plugged in
    rows,       \* the file rows: [c, stamped, item, role], or NoRow
    items,      \* each key's item: [state, tags], state "none" for no row
    scan,       \* the scan under way
    scanBounds, \* [changes, scans, faults] left
    settled     \* the last scan met a still disk and was not held back: "fast",
                \* or "full" when it read every file

scanVars == <<disk, rootUp, rows, items, scan, scanBounds, settled>>

Idle == [st |-> "idle"]

ScanInit ==
    /\ disk \in [Path -> Content \cup {NoFile}]
    /\ rootUp = TRUE
    /\ rows = [p \in Path |-> NoRow]
    /\ items = [k \in Key |-> [state |-> "none", tags |-> NoFile]]
    /\ scan = Idle
    /\ scanBounds = [changes |-> MaxChanges, scans |-> MaxScans, faults |-> MaxScanFaults]
    /\ settled = "no"

-----------------------------------------------------------------------------
(* The store's side: what one put or one reconciliation does to the rows   *)
(* and the items.  R and I are the tables as the transaction has them.     *)

\* pathExists, and reachOf for the one root of this model.
OnDisk(p) == rootUp /\ disk[p] # NoFile

EdgesOf(R, k) == {p \in Path : R[p] # NoRow /\ R[p].item = k}
PrimaryOf(R, k) == {p \in EdgesOf(R, k) : R[p].role = "primary"}
AlternatesOf(R, k) == {p \in EdgesOf(R, k) : R[p].role = "alternate"}

\* bestAlternateTx: a file on disk before one that is not, then the better
\* encoding.  What is left of a tie (position, then file id) the model does not
\* tell apart: the tied files hold one recording in one quality.
BestOf(R, cands) ==
    CHOOSE p \in cands : \A q \in cands :
        \/ OnDisk(p) /\ ~OnDisk(q)
        \/ OnDisk(p) = OnDisk(q) /\ RankOf[R[p].c] >= RankOf[R[q].c]

\* What a promotion that forgets the stamp would do.
PromoteStamped(R, p) == [R EXCEPT ![p].role = "primary"]

\* promoteTx, with unstampTx: the next scan reads the promoted file in full.
Promote(R, p) == [R EXCEPT ![p].role = "primary", ![p].stamped = FALSE]

\* demoteToAlternateTx
Demote(R, ps) == [p \in Path |-> IF p \in ps THEN [R[p] EXCEPT !.role = "alternate"] ELSE R[p]]

\* What a departure that promotes nothing in its place would leave.
PromotedNone(R, k) == {}

\* promoteLostTx and, failing it, ensurePrimary: the files promoted.
Promoted(R, k) ==
    IF PrimaryOf(R, k) # {} \/ AlternatesOf(R, k) = {} THEN {}
    ELSE {BestOf(R, AlternatesOf(R, k))}

PromoteAll(R, ps) == [p \in Path |-> IF p \in ps THEN Promote(R, p)[p] ELSE R[p]]

\* markUnreachableMissingTx: a present item none of whose files is on disk.
Unreachable(R, I, k, gone) ==
    /\ I[k].state = "present" /\ EdgesOf(R, k) # {}
    /\ \A p \in EdgesOf(R, k) : p \in gone \/ ~OnDisk(p)

MarkMissing(I, ks) == [k \in Key |-> IF k \in ks THEN [I[k] EXCEPT !.state = "missing"] ELSE I[k]]

SettlePromoted(R, I, k, up) ==
    [R |-> R, up |-> up, I |-> IF Unreachable(R, I, k, {}) THEN MarkMissing(I, {k}) ELSE I]
SettlePromoting(R, I, k, up) == SettlePromoted(PromoteAll(R, up), I, k, up)

\* reconcileOrphansTx: the item the file left keeps a primary, or is marked
\* missing, or, with no file, folds into the item the file joined.
SettleOrphan(R, I, k) ==
    IF k = NoItem THEN [R |-> R, I |-> I, up |-> {}]
    ELSE IF EdgesOf(R, k) = {}
    THEN [R |-> R, I |-> [I EXCEPT ![k] = [state |-> "none", tags |-> NoFile]], up |-> {}]
    ELSE SettlePromoting(R, I, k, Promoted(R, k))

\* fileByEssenceGoneTx: the gone row a moved file relinks to.  The row must back
\* nothing or the item the file joins; a key no item holds takes the only one.
RelinkTargets(p, c) ==
    LET gone == {q \in Path : /\ rows[q] # NoRow /\ ~OnDisk(q)
                              /\ EssenceOf[rows[q].c] = EssenceOf[c]}
        own == {q \in gone : rows[q].item \in {NoItem, KeyOf[c]}}
    IN  IF items[KeyOf[c]].state = "none"
        THEN IF Cardinality(gone) = 1 THEN gone ELSE {q \in gone : rows[q].item = NoItem}
        ELSE own

RelinkTo(p, c) ==
    LET ts == RelinkTargets(p, c)
        same == {q \in ts : rows[q].c = c}
    IN  CHOOSE q \in ts : same # {} => q \in same

\* resolveFile: the row a file at p is read into, by path or by a relink, or a
\* new one.
ResolveFile(p, c) ==
    CASE rows[p] # NoRow -> [rows EXCEPT ![p].c = c, ![p].stamped = TRUE]
      [] rows[p] = NoRow /\ RelinkTargets(p, c) # {} ->
           LET q == RelinkTo(p, c)
           IN  [rows EXCEPT ![q] = NoRow, ![p] = [rows[q] EXCEPT !.c = c, !.stamped = TRUE]]
      [] OTHER -> [rows EXCEPT ![p] = [c |-> c, stamped |-> TRUE, item |-> NoItem, role |-> "none"]]

\* The path a put relinked from, which leaves the scan's index.
RelinkedFrom(p, c) ==
    IF rows[p] = NoRow /\ RelinkTargets(p, c) # {} THEN {RelinkTo(p, c)} ELSE {}

\* outranksPrimaryTx: only other audio, and only of better quality.
Outranks(c, d) == EssenceOf[c] # EssenceOf[d] /\ RankOf[c] > RankOf[d]

\* arrivalTakesOverTx: a primary that is gone yields only once its item is marked
\* missing, since it may have moved to a folder the walk has not reached.
TakesOver(R, k, c, prim) ==
    IF OnDisk(prim) THEN Outranks(c, R[prim].c) ELSE items[k].state = "missing"

\* What the walk would settle on if a re-read primary never yielded.
OutrankingNone(R, k, c) == {}

\* outrankingAlternateTx: what the item already holds that outranks c.
Outranking(R, k, c) == {q \in AlternatesOf(R, k) : OnDisk(q) /\ Outranks(R[q].c, c)}

\* linkPrimaryFile and linkAlternateFile: p joins k and leaves every other item.
Link(R, p, k, role) == [R EXCEPT ![p].item = k, ![p].role = role]

\* attachCopyTx: p joins k as an alternate, and k is present again.
AttachCopy(R, p, k) ==
    SettleOrphan(Link(R, p, k, "alternate"),
                 [items EXCEPT ![k].state = "present"],
                 IF R[p].item = k THEN NoItem ELSE R[p].item)

\* upsertItem, upsertTrack and the link: p becomes k's primary, its tags k's.
TakeItem(R, p, c, k) ==
    SettleOrphan(Link(R, p, k, "primary"),
                 [items EXCEPT ![k] = [state |-> "present", tags |-> c]],
                 IF R[p].item = k THEN NoItem ELSE R[p].item)

\* p yields its place to the copy b.
YieldTo(R, p, k, b) ==
    [AttachCopy(Promote(Demote(R, {p}), b), p, k) EXCEPT !.up = @ \cup {b}]

\* p is the primary already: it stays so unless a copy on disk outranks it.
PutPrimary(R, p, c, k, better) ==
    IF better = {} THEN TakeItem(R, p, c, k) ELSE YieldTo(R, p, k, BestOf(R, better))

PutBeside(R, p, c, k, prim) ==
    CASE prim = p -> PutPrimary(R, p, c, k, Outranking(R, k, c))
      [] prim # p /\ TakesOver(R, k, c, prim) -> TakeItem(Demote(R, {prim}), p, c, k)
      [] OTHER -> AttachCopy(R, p, k)

PutResolved(R, p, c, k) ==
    IF items[k].state = "none" \/ PrimaryOf(R, k) = {} THEN TakeItem(R, p, c, k)
    ELSE PutBeside(R, p, c, k, CHOOSE q \in PrimaryOf(R, k) : TRUE)

\* PutScannedTrack: the tables after a file holding c was read at p, and the
\* files it promoted.
Put(p, c) == PutResolved(ResolveFile(p, c), p, c, KeyOf[c])

\* MarkFilesMissing with settleMissingTx: an item whose every file is in gone is
\* marked; one that keeps a file lets an alternate on disk take a gone primary's
\* place, drops its gone alternates, and is marked when nothing of it is left on
\* disk.  A gone row no item holds is deleted.
MarkFilesMissing(gone) ==
    LET touched == {k \in Key : EdgesOf(rows, k) \cap gone # {}}
        whole == {k \in touched : EdgesOf(rows, k) \subseteq gone}
        keeping == touched \ whole
        heirs(k) == {p \in AlternatesOf(rows, k) : OnDisk(p)}
        lost(k) == PrimaryOf(rows, k) \cap gone
        up == {BestOf(rows, heirs(k)) : k \in {j \in keeping : lost(j) # {} /\ heirs(j) # {}}}
        R == PromoteAll(rows, up)
        off(p) == /\ p \in gone /\ rows[p].item \in keeping /\ p \notin up
                  /\ rows[p].role = "primary" => heirs(rows[p].item) # {}
        R2 == [p \in Path |-> IF p \in gone /\ (off(p) \/ rows[p].item = NoItem) THEN NoRow ELSE R[p]]
        dead == {k \in keeping : Unreachable(R2, items, k, gone)}
    IN  [R |-> R2, up |-> up, I |-> MarkMissing(items, dead \cup {k \in whole : items[k].state = "present"})]

-----------------------------------------------------------------------------
(* The scan.  index is what the scan knew when it started and has not met: *)
(* the path of each file and the content its stamp stands for.             *)

\* LoadScopedFileIndex: the files of present items, and of none.
LoadScopedFileIndex ==
    [p \in {q \in Path : /\ rows[q] # NoRow
                         /\ rows[q].item # NoItem => items[rows[q].item].state = "present"}
       |-> IF rows[p].stamped THEN rows[p].c ELSE NoFile]

Without(f, S) == [x \in DOMAIN f \ S |-> f[x]]

\* Scan up to the walk.  A root that is down ends it here with nothing changed.
StartScan ==
    /\ scan = Idle /\ scanBounds.scans > 0 /\ rootUp
    /\ \E force, sweep \in BOOLEAN :
        scan' = [st |-> "walk", folders |-> Folders, todo |-> <<>>,
                 index |-> LoadScopedFileIndex, known |-> Cardinality(DOMAIN LoadScopedFileIndex),
                 read |-> 0, fresh |-> 0, unread |-> {}, up |-> {}, force |-> force, sweep |-> sweep,
                 still |-> TRUE, away |-> FALSE, skipped |-> FALSE, stood |-> {p \in Path : OnDisk(p)}]
    /\ scanBounds' = [scanBounds EXCEPT !.scans = @ - 1]
    /\ settled' = "no"
    /\ UNCHANGED <<disk, rootUp, rows, items>>

Walking == scan.st = "walk"
InFolder(f) == SelectSeq(PathOrder, LAMBDA p : FolderOf[p] = f /\ disk[p] # NoFile)

\* WalkDir enters a folder and lists it.
EnterFolder ==
    /\ Walking /\ scan.todo = <<>> /\ scan.folders # <<>> /\ rootUp
    /\ scan' = [scan EXCEPT !.todo = InFolder(Head(scan.folders)), !.folders = Tail(@)]
    /\ UNCHANGED <<disk, rootUp, rows, items, scanBounds, settled>>

\* The walk's error callback: the folder is noted, and the walk goes on.  A root
\* that cannot be read ends it, with every folder unread.
FolderUnread ==
    /\ Walking /\ scan.todo = <<>> /\ scan.folders # <<>>
    /\ rootUp => scanBounds.faults > 0
    /\ scanBounds' = [scanBounds EXCEPT !.faults = IF rootUp THEN @ - 1 ELSE @]
    /\ LET f == Head(scan.folders) IN
         scan' = IF f = Head(Folders)
                 THEN [scan EXCEPT !.unread = {FolderOf[p] : p \in Path}, !.folders = <<>>, !.still = FALSE]
                 ELSE [scan EXCEPT !.unread = @ \cup {f}, !.folders = Tail(@), !.still = FALSE]
    /\ UNCHANGED <<disk, rootUp, rows, items, settled>>

Met(p) == [scan EXCEPT !.todo = Tail(@), !.index = Without(@, {p})]

\* scanAudioFile, the file gone since it was listed: its index entry stays.
FileGone ==
    /\ Walking /\ scan.todo # <<>> /\ ~OnDisk(Head(scan.todo))
    /\ scan' = [scan EXCEPT !.todo = Tail(@)]
    /\ UNCHANGED <<disk, rootUp, rows, items, scanBounds, settled>>

\* What a walk that forgets to keep a file it could not read would do.
FileUnreadForgets ==
    /\ Walking /\ scan.todo # <<>> /\ OnDisk(Head(scan.todo)) /\ scanBounds.faults > 0
    /\ scan' = [scan EXCEPT !.todo = Tail(@), !.still = FALSE]
    /\ scanBounds' = [scanBounds EXCEPT !.faults = @ - 1]
    /\ UNCHANGED <<disk, rootUp, rows, items, settled>>

\* The file is there and cannot be read: it counts as unread, and is not gone.
FileUnread ==
    /\ Walking /\ scan.todo # <<>> /\ OnDisk(Head(scan.todo)) /\ scanBounds.faults > 0
    /\ scan' = [Met(Head(scan.todo)) EXCEPT !.still = FALSE]
    /\ scanBounds' = [scanBounds EXCEPT !.faults = @ - 1]
    /\ UNCHANGED <<disk, rootUp, rows, items, settled>>

\* The fast path trusts the stamp the index holds, which is the one from when the
\* scan started.
Unchanged(p) == p \in DOMAIN scan.index /\ scan.index[p] = disk[p] /\ ~scan.force

FastPath ==
    /\ Walking /\ scan.todo # <<>>
    /\ LET p == Head(scan.todo) IN
         /\ OnDisk(p) /\ Unchanged(p)
         /\ scan' = [Met(p) EXCEPT !.read = @ + 1]
    /\ UNCHANGED <<disk, rootUp, rows, items, scanBounds, settled>>

\* What the walk does with a file it put.
WalkPut(p, put) ==
    /\ rows' = put.R /\ items' = put.I
    /\ scan' = [Met(p) EXCEPT !.read = @ + 1, !.up = @ \cup put.up,
                              !.fresh = IF p \in DOMAIN scan.index THEN @ ELSE @ + 1,
                              !.index = Without(@, {p} \cup RelinkedFrom(p, disk[p]))]

\* The full path: the file is read, put, and its old path leaves the index.
ScanAudioFile ==
    /\ Walking /\ scan.todo # <<>>
    /\ LET p == Head(scan.todo) IN
         /\ OnDisk(p) /\ ~Unchanged(p)
         /\ WalkPut(p, Put(p, disk[p]))
    /\ UNCHANGED <<disk, rootUp, scanBounds, settled>>

\* The survival gate of reconcileMissing.
Gated == ~scan.sweep /\ (scan.read = 0 \/ scan.read * 2 < scan.known)

\* The files reconcileMissing takes for gone: the index's rest, less what lies
\* under a folder the walk could not read.
Residual == {p \in DOMAIN scan.index : FolderOf[p] \notin scan.unread}

WalkEnds == Walking /\ scan.folders = <<>> /\ scan.todo = <<>>

WalkMarked(m) ==
    /\ rows' = m.R /\ items' = m.I
    /\ scan' = [scan EXCEPT !.st = "reread", !.up = @ \cup m.up]

\* reconcileMissing held back: the root is gone by now, or the gate holds.
Reconcile ==
    /\ WalkEnds
    /\ IF DOMAIN scan.index = {} \/ ~rootUp \/ Gated
       THEN /\ scan' = [scan EXCEPT !.st = "reread", !.skipped = DOMAIN scan.index # {}]
            /\ UNCHANGED <<rows, items>>
       ELSE WalkMarked(MarkFilesMissing(Residual))
    /\ UNCHANGED <<disk, rootUp, scanBounds, settled>>

StorePut(put) == rows' = put.R /\ items' = put.I

\* rereadPromoted: each promoted file still there is read in full, so its item
\* follows its tags.  What such a read promotes in turn is left to the next scan.
Reread(p) ==
    /\ scan.st = "reread" /\ p \in scan.up
    /\ IF OnDisk(p)
       THEN StorePut(Put(p, disk[p]))
       ELSE UNCHANGED <<rows, items>>
    /\ scan' = [scan EXCEPT !.up = @ \ {p}]
    /\ UNCHANGED <<disk, rootUp, scanBounds, settled>>

ScanDone ==
    /\ scan.st = "reread" /\ scan.up = {}
    /\ settled' = CASE ~scan.still \/ scan.skipped -> "no"
                    [] scan.still /\ ~scan.skipped /\ scan.force -> "full"
                    [] OTHER -> "fast"
    /\ scan' = Idle
    /\ UNCHANGED <<disk, rootUp, rows, items, scanBounds>>

\* A canceled scan, or a process that ends: nothing is reconciled or re-read.
CancelScan ==
    /\ scan # Idle
    /\ scan' = Idle
    /\ UNCHANGED <<disk, rootUp, rows, items, scanBounds, settled>>

SinglePut(put) ==
    /\ StorePut(put)
    /\ scan' = IF put.up = {} THEN Idle
               ELSE [st |-> "reread", up |-> put.up, still |-> FALSE, skipped |-> FALSE]

\* ScanFileWith: one file, in full, with what it promoted read at once.
ScanFile(p) ==
    /\ scan = Idle /\ scanBounds.scans > 0 /\ OnDisk(p)
    /\ SinglePut(Put(p, disk[p]))
    /\ scanBounds' = [scanBounds EXCEPT !.scans = @ - 1]
    /\ settled' = "no"
    /\ UNCHANGED <<disk, rootUp>>

\* MarkItemMissing: a user says that an item is gone, whatever its files say.
MarkItemMissing(k) ==
    /\ scan = Idle /\ items[k].state = "present" /\ scanBounds.changes > 0
    /\ items' = MarkMissing(items, {k})
    /\ scanBounds' = [scanBounds EXCEPT !.changes = @ - 1]
    /\ settled' = "no"
    /\ UNCHANGED <<disk, rootUp, rows, scan>>

-----------------------------------------------------------------------------
(* The drive: files come, go, move and are rewritten outside WaxBin, and   *)
(* the whole drive can be unplugged and plugged in.                        *)

Happens(away, moved) ==
    /\ scanBounds.changes > 0
    /\ scanBounds' = [scanBounds EXCEPT !.changes = @ - 1]
    /\ settled' = "no"
    /\ scan' = IF "stood" \notin DOMAIN scan THEN scan
               ELSE [scan EXCEPT !.still = FALSE, !.away = @ \/ away, !.stood = @ \ moved]
    /\ UNCHANGED <<rows, items>>

Rewrite(p, c) ==
    /\ rootUp /\ disk[p] # c /\ Happens(FALSE, {p})
    /\ disk' = [disk EXCEPT ![p] = c]
    /\ UNCHANGED rootUp

MoveAway(p, q) ==
    /\ rootUp /\ disk[p] # NoFile /\ disk[q] = NoFile /\ Happens(FALSE, {p, q})
    /\ disk' = [disk EXCEPT ![p] = NoFile, ![q] = disk[p]]
    /\ UNCHANGED rootUp

Plug ==
    /\ Happens(TRUE, {})
    /\ rootUp' = ~rootUp
    /\ UNCHANGED disk

ScanStep ==
    \/ StartScan \/ EnterFolder \/ FolderUnread \/ FileGone \/ FileUnread \/ FastPath
    \/ ScanAudioFile \/ Reconcile \/ ScanDone \/ CancelScan
    \/ \E p \in Path : Reread(p) \/ ScanFile(p)
    \/ \E k \in Key : MarkItemMissing(k)

ScanNext ==
    \/ ScanStep
    \/ \E p \in Path : \/ \E c \in Content \cup {NoFile} : Rewrite(p, c)
                       \/ \E q \in Path : MoveAway(p, q)
    \/ Plug

ScanSpec == ScanInit /\ [][ScanNext]_scanVars

-----------------------------------------------------------------------------
\* ensurePrimary, linkPrimaryFile and the promotions together: whatever order the
\* walk meets copies, moves, retags and losses in, an item in the catalog has files
\* and exactly one of them is its primary, and no file backs an item that is gone
\* (copies.go:866, the hazard of a read between a demotion and a promotion).
OnePrimary ==
    \A k \in Key : IF items[k].state = "none" THEN EdgesOf(rows, k) = {}
                   ELSE Cardinality(PrimaryOf(rows, k)) = 1

\* A scan over a still disk that nothing held back leaves the catalog as the disk
\* is, whatever came before it: cancelled scans, lost re-reads, unplugged drives,
\* copies met in any order.  Every file on disk is catalogued under its item, an
\* item is present exactly when a file of it is there, and a present item's primary
\* is on disk and gave the item its tags (unstampTx, copies.go:903, and the re-read
\* of scan.go:595).  After a scan that read every file, no other file outranks the
\* primary: the order the walk met them in is forgotten.  (A primary that left and
\* came back with its old stamp passes a plain scan unread, so a better encoding that
\* arrived meanwhile waits for a forced one.)
ScanSettles ==
    settled # "no" =>
        /\ \A p \in Path : OnDisk(p) => /\ rows[p] # NoRow
                                        /\ rows[p].c = disk[p] /\ rows[p].item = KeyOf[disk[p]]
        /\ \A k \in Key :
             LET there == {p \in Path : OnDisk(p) /\ KeyOf[disk[p]] = k} IN
             /\ (items[k].state = "present") = (there # {})
             /\ there # {} =>
                  \E p \in PrimaryOf(rows, k) :
                      /\ p \in there /\ items[k].tags = disk[p]
                      /\ settled = "full" => \A q \in there : ~Outranks(disk[q], disk[p])

\* The survival gate (scan.go:550): a reconciliation marks an item missing while a
\* file of it stood on the drive through the whole scan only when the drive was away
\* at some point of the walk, and then for no more than half of the files it knew
\* and the ones it met for the first time, which the gate counts as read too.
NotLost ==
        (WalkEnds /\ scan'.st = "reread" /\ ~scan.sweep) =>
            LET lost == {p \in scan.stood : /\ rows[p] # NoRow /\ rows[p].item # NoItem
                                            /\ items[rows[p].item].state = "present"
                                            /\ items'[rows[p].item].state = "missing"}
            IN  /\ lost # {} => scan.away
                /\ Cardinality(lost) * 2 <= scan.known + 2 * scan.fresh
=============================================================================
