------------------------------- MODULE Kinds -------------------------------
(***************************************************************************)
(* Turning items into tracks or books, and what is told of it when the     *)
(* change is cut off.                                                      *)
(*                                                                         *)
(* A kind change reads the files of the items it was asked about again,    *)
(* each in a transaction of its own, and the items may fold into one       *)
(* another or be made on the way.  Those transactions leave a lineage      *)
(* under the change's job, from which the next open completes the report   *)
(* of a change a crash cut off, and from which the same change, asked      *)
(* again, finds what became of a pid that is gone.                         *)
(*                                                                         *)
(* Left out: the places of a listener (Books), cue rips, episodes and      *)
(* files two items share, which kindTargets refuses, the tag write-back    *)
(* (Origins), and qualities: a copy is never better than its file.         *)
(***************************************************************************)
EXTENDS Integers, FiniteSets, Sequences, FiniteSetsExt, SequencesExt

CONSTANTS
    KindFile,     \* the files, in the order of their positions
    CopyFile,     \* the files that are copies and are not on disk
    AnchorOf,     \* the file each copy is of
    BookKeyOf,    \* the key of the book a file's tags name, none of them a file
    KindStart,    \* the catalogs the checker starts from
    Asks,         \* the requests: pids in order, kind and force
    MaxPid,       \* bound: pids
    MaxKindJobs,  \* bound: kind changes
    MaxKindScans, \* bound: reads by a scan
    MaxKindFaults \* bound: reads that fail, reports that could not be completed

VARIABLES
    cat,       \* the tables: items, owners and roles of files, item_lineage
    change,    \* the kind change that runs, or NoChange
    kindJobs,  \* the set-kind rows of the job table, by id
    up,        \* a process has the catalog open
    kindScans, kindFaults,
    word,      \* the report the last step wrote, or NoWord
    went,      \* history: the item each pid was folded into, 0 for none
    foldedBy,  \* history: the job that folded it, 0 for a scan
    clouded,   \* history: the changes whose lineage was dropped, or was overtaken while their
               \* reports were owed: by a scan, or by a change that finished and dropped its own
    freed      \* history: the items unlocked since the change began

kindVars == <<cat, change, kindJobs, up, kindScans, kindFaults, word, went, foldedBy, clouded, freed>>

Pid == 1..MaxPid
NoStanding == [kind |-> "none", key |-> 0, locked |-> FALSE]
NoChange == [phase |-> "none"]
NoWord == [job |-> 0]
NoReport == [complete |-> FALSE, absorbed |-> << >>, created |-> << >>, converted |-> {}]
NoMap == [p \in {} |-> p]

-----------------------------------------------------------------------------
(* What one read of a file does to the items (Books has it in full).       *)

Stands(c, p) == c.item[p].kind # "none"
OwnedBy(c, p) == {f \in KindFile : c.owner[f] = p}
PartsIn(c, p) == {f \in OwnedBy(c, p) : f \notin c.alt}
PrimaryFile(c, p) == Min(PartsIn(c, p))
AudioId(f) == IF f \in CopyFile THEN AnchorOf[f] ELSE f
KeyAs(f, kind) == IF kind = "book" THEN BookKeyOf[AudioId(f)] ELSE AudioId(f)

\* What a record kept apart from the write it is of would leave behind.
RecordNothing(c, job, absorbed, minted) == c

\* recordLineageTx
RecordLineage(c, job, absorbed, minted) ==
    LET row(p, a, other) == [pid |-> p, absorbed |-> a, job |-> job, other |-> other, at |-> c.clock]
        new == {row(p, TRUE, absorbed[p]) : p \in DOMAIN absorbed}
               \cup {row(p, FALSE, minted[p]) : p \in DOMAIN minted}
        replaced == {r \in c.lin : \E n \in new : n.pid = r.pid /\ n.absorbed = r.absorbed /\ n.job = r.job}
    IN  IF job = 0 \/ new = {} THEN c
        ELSE [c EXCEPT !.lin = (@ \ replaced) \cup new, !.clock = @ + 1]

\* The file moves to item p, and the item it leaves fills the gap from its copies
\* or, left with no file, folds away.
MoveTo(c, f, p, asAlt) ==
    LET old == c.owner[f]
        heirs == {g \in OwnedBy(c, old) \ {f} : g \in c.alt /\ AudioId(g) = AudioId(f)}
        gap == f \notin c.alt /\ old # p
        moved == [c EXCEPT !.owner[f] = p,
                           !.alt = (IF asAlt THEN @ \cup {f} ELSE @ \ {f}) \ (IF gap /\ heirs # {} THEN {Min(heirs)} ELSE {})]
        left == old # p /\ OwnedBy(moved, old) = {}
    IN  [c |-> IF left THEN [moved EXCEPT !.item[old] = NoStanding] ELSE moved,
         absorbed |-> IF left THEN [q \in {old} |-> p] ELSE NoMap]

ItemOf(c, kind, key) == {p \in Pid : c.item[p].kind = kind /\ c.item[p].key = key}
FreshPid(c) == Min({p \in Pid : ~Stands(c, p) /\ went[p] = 0 /\ p >= c.next})

\* PutScannedTrack and PutScannedBook with rekindItemForFileTx: the item that has
\* the key takes the file, else the item the file alone is turns into the kind,
\* else an item is made.  pin: KindForced with a job, the write locks the kind.
ReadAs(c, f, kind, pin, job) ==
    LET key == KeyAs(f, kind)
        have == ItemOf(c, kind, key)
        old == c.owner[f]
        sole == PartsIn(c, old) = {f} /\ c.item[old].kind # kind
        made == have = {} /\ ~sole
        fresh == FreshPid(c)
        into == CASE have # {} -> CHOOSE p \in have : TRUE
                  [] have = {} /\ sole -> old
                  [] OTHER -> fresh
        set == [c EXCEPT !.item[into] = [kind |-> kind, key |-> key, locked |-> @.locked \/ pin],
                         !.next = IF made THEN fresh + 1 ELSE @]
        beside == PartsIn(c, into) \ {f}
        asAlt == (kind = "track" /\ have # {} /\ beside # {}) \/ \E g \in beside : AudioId(g) = AudioId(f)
        m == MoveTo(set, f, into, asAlt)
        minted == IF made THEN [q \in {into} |-> old] ELSE NoMap
    IN  [c |-> RecordLineage(m.c, job, m.absorbed, minted), absorbed |-> m.absorbed, minted |-> minted, into |-> into]

\* LockKinds
LockKinds(c, ps) == [c EXCEPT !.item = [p \in Pid |-> IF p \in ps THEN [@[p] EXCEPT !.locked = TRUE] ELSE @[p]]]

\* FollowFile: a copy goes where the file it copies went.
FollowCopy(c, f, job) ==
    LET a == AnchorOf[f]
        p == c.owner[a]
        m == MoveTo(c, f, p, TRUE)
    IN  IF a \in c.alt \/ (c.owner[f] = p /\ f \in c.alt) THEN [c |-> c, absorbed |-> NoMap]
        ELSE [c |-> RecordLineage(m.c, job, m.absorbed, NoMap), absorbed |-> m.absorbed]

-----------------------------------------------------------------------------
(* Lineage and the report.                                                 *)

RECURSIVE SettleFrom(_, _, _, _)
\* SettleIdentities: the end of a chain, a cycle stopping where it would come back.
SettleFrom(m, start, at, n) ==
    IF n = 0 \/ at \notin DOMAIN m \/ m[at] = start THEN at ELSE SettleFrom(m, start, m[at], n - 1)
SettleIdentities(converted, absorbed, created) ==
    LET ends == [p \in DOMAIN absorbed |-> SettleFrom(absorbed, p, absorbed[p], Cardinality(DOMAIN absorbed))]
        made == DOMAIN created \ DOMAIN absorbed
    IN  [converted |-> converted \ DOMAIN absorbed, absorbed |-> ends,
         created |-> [p \in made |-> IF created[p] \in DOMAIN ends THEN ends[created[p]] ELSE created[p]]]

\* jobLineage
JobLineage(c, job, absorbed) ==
    LET rows == {r \in c.lin : r.job = job /\ r.absorbed = absorbed}
    IN  [p \in {r.pid : r \in rows} |-> (CHOOSE r \in rows : r.pid = p).other]

\* The newest fold of each pid, whatever job made it.
LaterFolds(c) ==
    LET folds == {r \in c.lin : r.absorbed}
    IN  [p \in {r.pid : r \in folds} |->
            (CHOOSE r \in folds : r.pid = p /\ \A s \in folds : s.pid = p => s.at <= r.at).other]

FollowedTo(c, first, ends) ==
    LET end(p) == IF first[p] \in DOMAIN ends THEN ends[first[p]] ELSE first[p]
    IN  [p \in {q \in DOMAIN first : Stands(c, end(q))} |-> end(p)]

\* AbsorbedInto
AbsorbedInto(c, job) ==
    FollowedTo(c, JobLineage(c, job, TRUE), SettleIdentities({}, LaterFolds(c), NoMap).absorbed)

\* MintedFrom
MintedFrom(c, job) ==
    LET m == JobLineage(c, job, FALSE) IN [p \in {q \in DOMAIN m : Stands(c, q)} |-> m[p]]

\* DropLineage
DropLineage(c, job) == [c EXCEPT !.lin = {r \in @ : r.job # job}]

\* The left map, with the right one where both have a value.
Over(m, n) == [p \in DOMAIN m \cup DOMAIN n |-> IF p \in DOMAIN n THEN n[p] ELSE m[p]]

ReportOf(s) == [complete |-> TRUE, absorbed |-> s.absorbed, created |-> s.created, converted |-> s.converted]

\* kindRun.report
RunReport(ch) == ReportOf(SettleIdentities(ch.converted, Over(ch.folded, ch.retried), ch.created))

-----------------------------------------------------------------------------
(* What a change applies to.                                               *)

Ended == {"failed", "crashed"}

\* The changes a crash cut off whose reports are still to be completed.
Owed == {j \in DOMAIN kindJobs : kindJobs[j].state = "crashed" /\ ~kindJobs[j].report.complete}

\* UnfinishedJobs
UnfinishedJobs == {j \in DOMAIN kindJobs : kindJobs[j].state \in Ended}

\* What a retry that followed any fold of a pid, a scan's too, would take it for.
AnyFold(c, pids) ==
    LET gone == {p \in ToSet(pids) : ~Stands(c, p) /\ went[p] # 0}
    IN  [p \in {q \in gone : Stands(c, went[q])} |-> went[p]]

FoldsFor(gone, folds) ==
    LET js(p) == {j \in DOMAIN folds : p \in ToSet(kindJobs[j].targets) /\ p \in DOMAIN folds[j]}
    IN  [p \in {q \in gone : js(q) # {}} |-> folds[Max(js(p))][p]]

\* cutOffAbsorbed: a pid that is gone, for the newest change cut off that had it
\* among its targets and folded it itself.
CutOffAbsorbed(c, pids) ==
    LET folds == [j \in UnfinishedJobs |-> AbsorbedInto(c, j)]
    IN  FoldsFor({p \in ToSet(pids) : ~Stands(c, p)}, folds)

Uniq(s) == FoldLeft(LAMBDA out, p : IF p \in ToSet(out) THEN out ELSE Append(out, p), << >>, s)

Refused(c, r, p) ==
    /\ c.item[p].kind # r.kind
    /\ PartsIn(c, p) \cap CopyFile # {} \/ (c.item[p].locked /\ ~r.force)

TargetsAre(c, r, asked, retried) ==
    [ok |-> \A n \in DOMAIN asked : Stands(c, asked[n]) /\ ~Refused(c, r, asked[n]),
     targets |-> asked, retried |-> retried]

TargetsFor(c, r, retried) ==
    TargetsAre(c, r, Uniq([n \in DOMAIN r.pids |-> IF r.pids[n] \in DOMAIN retried THEN retried[r.pids[n]] ELSE r.pids[n]]),
               retried)

\* kindTargets: the items in order, each once, or nothing when one is refused.
KindTargets(c, r) == TargetsFor(c, r, CutOffAbsorbed(c, r.pids))

\* kindReadOrder: a book's parts before its first, a part's copies after it; a
\* track's alternates after its primary.  Copies here are those not on disk.
KindReadOrder(c, p) ==
    LET parts == PartsIn(c, p)
        inOrder(fs) == SetToSortSeq(fs, <)
        rest == inOrder(parts \ {PrimaryFile(c, p)}) \o <<PrimaryFile(c, p)>>
    IN  [read |-> IF c.item[p].kind = "book" THEN rest ELSE inOrder(parts), follow |-> inOrder(OwnedBy(c, p) \ parts)]

-----------------------------------------------------------------------------
(* The change, step by step.                                               *)

\* The histories after a write: what it folded, and by whom.
Note(absorbed, job) ==
    /\ went' = [p \in Pid |-> IF p \in DOMAIN absorbed THEN absorbed[p] ELSE went[p]]
    /\ foldedBy' = [p \in Pid |-> IF p \in DOMAIN absorbed THEN job ELSE foldedBy[p]]

Quiet == word' = NoWord
SameFolds == UNCHANGED <<went, foldedBy>>

KindInit ==
    /\ cat \in KindStart
    /\ change = NoChange /\ kindJobs = << >> /\ up = TRUE
    /\ kindScans = 0 /\ kindFaults = 0
    /\ word = NoWord /\ clouded = {} /\ freed = {}
    /\ went = [p \in Pid |-> 0] /\ foldedBy = [p \in Pid |-> 0]

\* SetItemKind: the request is checked, and the job starts under the lease.
AskKind(r) ==
    /\ up /\ change.phase = "none" /\ Len(kindJobs) < MaxKindJobs
    /\ KindTargets(cat, r).ok
    /\ kindJobs' = Append(kindJobs, [state |-> "running", targets |-> << >>, kind |-> r.kind, pinned |-> {}, report |-> NoReport])
    /\ change' = [phase |-> "begin", request |-> r]
    /\ Quiet /\ SameFolds /\ UNCHANGED <<cat, up, kindScans, kindFaults, clouded, freed>>

\* The files held when the change was asked, which it must not leave behind.
NamedPids(c, t) == {f \in KindFile : c.owner[f] \in ToSet(t)}

BeginWith(job, t, kind) ==
    IF t.ok
    THEN /\ kindJobs' = [kindJobs EXCEPT ![job].targets = t.targets,
                                         ![job].pinned = {p \in ToSet(t.targets) : cat.item[p].kind = kind}]
         /\ change' = [phase |-> "target", request |-> change.request, targets |-> t.targets, at |-> 1,
                       read |-> << >>, follow |-> << >>, done |-> {}, retried |-> t.retried, failed |-> FALSE,
                       converted |-> {}, folded |-> NoMap, created |-> NoMap, named |-> NamedPids(cat, t.targets),
                       files |-> [n \in DOMAIN t.targets |-> KindReadOrder(cat, t.targets[n])],
                       pin |-> {p \in ToSet(t.targets) : cat.item[p].kind = kind}]
    ELSE /\ kindJobs' = [kindJobs EXCEPT ![job].state = "failed"]
         /\ change' = NoChange

\* setKindWork: the targets are read again under the job and recorded.
BeginKind ==
    /\ change.phase = "begin"
    /\ BeginWith(Len(kindJobs), KindTargets(cat, change.request), change.request.kind)
    /\ freed' = {}
    /\ Quiet /\ SameFolds /\ UNCHANGED <<cat, up, kindScans, kindFaults, clouded>>

Target == change.targets[change.at]

\* Mutant: a target that is of the kind already is left unlocked.
NextTargetUnlocked ==
    /\ change.phase = "target" /\ change.at <= Len(change.targets)
    /\ change' = IF Target \in change.pin
                 THEN IF Stands(cat, Target) THEN [change EXCEPT !.at = @ + 1]
                      ELSE [change EXCEPT !.phase = "finish", !.failed = TRUE]
                 ELSE [change EXCEPT !.phase = "read", !.read = change.files[change.at].read,
                                     !.follow = change.files[change.at].follow]
    /\ Quiet /\ SameFolds /\ UNCHANGED <<cat, kindJobs, up, kindScans, kindFaults, clouded, freed>>

\* The next target: one already of the kind is pinned, the files of another are
\* laid out to be read.
NextTarget ==
    /\ change.phase = "target" /\ change.at <= Len(change.targets)
    /\ IF Target \in change.pin
       THEN IF Stands(cat, Target)
            THEN /\ cat' = LockKinds(cat, {Target})
                 /\ change' = [change EXCEPT !.at = @ + 1]
            ELSE /\ UNCHANGED cat
                 /\ change' = [change EXCEPT !.phase = "finish", !.failed = TRUE]
       ELSE /\ UNCHANGED cat
            /\ change' = [change EXCEPT !.phase = "read", !.read = change.files[change.at].read,
                                        !.follow = change.files[change.at].follow]
    /\ Quiet /\ SameFolds /\ UNCHANGED <<kindJobs, up, kindScans, kindFaults, clouded, freed>>

NoteRead(w) ==
    /\ cat' = w.c
    /\ Note(w.absorbed, Len(kindJobs))
    /\ change' = [change EXCEPT !.read = Tail(@), !.done = @ \cup {Head(change.read)},
                                !.folded = Over(@, w.absorbed), !.created = Over(@, w.minted)]

\* readAsKind: one file, its folds and mints noted by the run and recorded by the
\* write.
ReadFile ==
    /\ change.phase = "read" /\ change.read # << >>
    /\ NoteRead(ReadAs(cat, Head(change.read), change.request.kind, TRUE, Len(kindJobs)))
    /\ Quiet /\ UNCHANGED <<kindJobs, up, kindScans, kindFaults, clouded, freed>>

\* A read fails, or the change is canceled: what it did so far is reported.
ReadFails ==
    /\ kindFaults < MaxKindFaults
    /\ change.phase = "read"
    /\ kindFaults' = kindFaults + 1
    /\ change' = [change EXCEPT !.phase = "finish", !.failed = TRUE]
    /\ Quiet /\ SameFolds /\ UNCHANGED <<cat, kindJobs, up, kindScans, clouded, freed>>

\* A copy that cannot be read goes where its file went.
FollowNext ==
    LET w == FollowCopy(cat, Head(change.follow), Len(kindJobs))
    IN  /\ change.phase = "read" /\ change.read = << >> /\ change.follow # << >>
        /\ cat' = w.c
        /\ Note(w.absorbed, Len(kindJobs))
        /\ change' = [change EXCEPT !.follow = Tail(@), !.folded = Over(@, w.absorbed)]
        /\ Quiet /\ UNCHANGED <<kindJobs, up, kindScans, kindFaults, clouded, freed>>

\* settleKindTarget: the target stands as the kind, or is gone to where its files
\* went.
SettleTarget ==
    LET t == Target
        fs == change.files[change.at]
        went1 == cat.owner[Head(fs.read \o fs.follow)]
    IN  /\ change.phase = "read" /\ change.read = << >> /\ change.follow = << >>
        /\ change' = [change EXCEPT
             !.phase = "target", !.at = @ + 1,
             !.converted = IF cat.item[t].kind = change.request.kind THEN @ \cup {t} ELSE @,
             !.folded = IF Stands(cat, t) \/ t \in DOMAIN @ THEN @ ELSE Over(@, [p \in {t} |-> went1])]
        /\ Quiet /\ SameFolds /\ UNCHANGED <<cat, kindJobs, up, kindScans, kindFaults, clouded, freed>>

\* finishKind, and the lineage of a change that finished dropped.
FinishKind ==
    /\ change.phase = "finish" \/ (change.phase = "target" /\ change.at > Len(change.targets))
    /\ LET kept == LockKinds(cat, {cat.owner[f] : f \in change.done})
       IN  cat' = IF change.failed THEN kept ELSE DropLineage(kept, Len(kindJobs))
    /\ change' = [change EXCEPT !.phase = "report"]
    /\ clouded' = IF change.failed THEN clouded ELSE clouded \cup Owed \cup {Len(kindJobs)}
    /\ Quiet /\ SameFolds /\ UNCHANGED <<kindJobs, up, kindScans, kindFaults, freed>>

\* Manager.finalize: the job's state and the report go to its row together.
ReportKind ==
    LET job == Len(kindJobs)
        rep == RunReport(change)
    IN  /\ change.phase = "report"
        /\ kindJobs' = [kindJobs EXCEPT ![job].state = IF change.failed THEN "failed" ELSE "done", ![job].report = rep]
        /\ word' = [job |-> job, report |-> rep, done |-> ~change.failed, files |-> change.named, kind |-> change.request.kind,
                    gone |-> ToSet(change.targets), sure |-> TRUE]
        /\ change' = NoChange
        /\ SameFolds /\ UNCHANGED <<cat, up, kindScans, kindFaults, clouded, freed>>

-----------------------------------------------------------------------------
(* Crashes, the next open, and the other writers.                          *)

\* The process dies, and what the change knew is gone.
Die ==
    /\ up /\ change.phase # "none"
    /\ up' = FALSE
    /\ change' = [phase |-> "dead"]
    /\ Quiet /\ SameFolds /\ UNCHANGED <<cat, kindJobs, kindScans, kindFaults, clouded, freed>>

\* completeCutOffKindChanges, for one job.
CutOffReport(j) ==
    LET absorbed == AbsorbedInto(cat, j)
        now == {t \in ToSet(kindJobs[j].targets) \ (DOMAIN absorbed \cup kindJobs[j].pinned) :
                   cat.item[t].kind = kindJobs[j].kind}
    IN  ReportOf(SettleIdentities(now, absorbed, MintedFrom(cat, j)))

\* A read-write open reclaims the job as crashed and completes its report, or
\* fails to, which it only warns of.
Reopen(j) ==
    LET cut == {k \in DOMAIN kindJobs : kindJobs[k].state \in {"running", "crashed"} /\ ~kindJobs[k].report.complete}
        able == j \in cut /\ kindJobs[j].targets # << >>
        reclaimed == [k \in DOMAIN kindJobs |-> IF kindJobs[k].state = "running" THEN [kindJobs[k] EXCEPT !.state = "crashed"] ELSE kindJobs[k]]
    IN  /\ change.phase \in {"none", "dead"} /\ cut # {}
        /\ up' = TRUE /\ change' = NoChange
        /\ \/ /\ able
              /\ kindJobs' = [reclaimed EXCEPT ![j].report = CutOffReport(j)]
              /\ word' = [job |-> j, report |-> CutOffReport(j), done |-> FALSE, files |-> {}, kind |-> kindJobs[j].kind,
                          gone |-> ToSet(kindJobs[j].targets), sure |-> j \notin clouded]
              /\ UNCHANGED kindFaults
           \/ /\ kindFaults < MaxKindFaults \/ ~able
              /\ change.phase = "dead"
              /\ kindFaults' = IF able THEN kindFaults + 1 ELSE kindFaults
              /\ kindJobs' = reclaimed /\ Quiet
        /\ SameFolds /\ UNCHANGED <<cat, kindScans, clouded, freed>>

\* A scan reads a file by its own rule, the lock of its item keeping the kind.
ScanReads(f, kind) ==
    LET held == cat.item[cat.owner[f]].locked
        w == ReadAs(cat, f, IF held THEN cat.item[cat.owner[f]].kind ELSE kind, FALSE, 0)
    IN  /\ kindScans < MaxKindScans
        /\ up /\ change.phase = "none" /\ f \notin CopyFile
        /\ cat' = w.c /\ cat' # cat
        /\ kindScans' = kindScans + 1 /\ clouded' = clouded \cup Owed
        /\ Note(w.absorbed, 0)
        /\ Quiet /\ UNCHANGED <<change, kindJobs, up, kindFaults, freed>>

\* A curator locks or unlocks the kind of an item, with or without a change running.
SetLock(p) ==
    /\ kindScans < MaxKindScans
    /\ up /\ Stands(cat, p)
    /\ cat' = [cat EXCEPT !.item[p].locked = ~@]
    /\ kindScans' = kindScans + 1
    /\ freed' = IF cat.item[p].locked THEN freed \cup {p} ELSE freed
    /\ Quiet /\ SameFolds /\ UNCHANGED <<change, kindJobs, up, kindFaults, clouded>>

KindNext ==
    \/ \E r \in Asks : AskKind(r)
    \/ BeginKind \/ NextTarget \/ ReadFile \/ ReadFails \/ FollowNext \/ SettleTarget \/ FinishKind \/ ReportKind
    \/ Die
    \/ \E j \in DOMAIN kindJobs : Reopen(j)
    \/ \E f \in KindFile, kind \in {"track", "book"} : ScanReads(f, kind)
    \/ \E p \in Pid : SetLock(p)

KindSpec == KindInit /\ [][KindNext]_kindVars

-----------------------------------------------------------------------------

RECURSIVE WentTo(_)
\* Where a pid's audio is, through every fold there was.
WentTo(p) == IF went[p] = 0 THEN p ELSE WentTo(went[p])

(***************************************************************************)
(* What a change says of itself is so, whether it finished, failed or was  *)
(* completed after a crash: a pid it names as folded is gone and the item  *)
(* it names is where that pid's audio stands; an item it names as made or  *)
(* converted stands; and no target it folded away goes unnamed, unless a    *)
(* scan or a change that finished wrote before the report could be         *)
(* completed, or the crash came after the change had dropped its lineage   *)
(* and before its report was stored.  A change that finished left every file of what it was asked    *)
(* about with an item of the kind, locked unless it was unlocked since.    *)
(***************************************************************************)
ReportsHold ==
    word # NoWord =>
      LET r == word.report IN
        /\ \A p \in DOMAIN r.absorbed : /\ ~Stands(cat, p)
                                        /\ Stands(cat, r.absorbed[p])
                                        /\ WentTo(p) = r.absorbed[p]
        /\ \A p \in DOMAIN r.created \cup r.converted : Stands(cat, p)
        /\ \A p \in r.converted : cat.item[p].kind = word.kind
        /\ word.sure => \A p \in word.gone : foldedBy[p] = word.job => p \in DOMAIN r.absorbed
        /\ word.done => \A f \in word.files : LET p == cat.owner[f] IN
             cat.item[p].kind = word.kind /\ (cat.item[p].locked \/ p \in freed)

(***************************************************************************)
(* A change asked again reaches only what was named: each of its targets   *)
(* was named itself, or is where a cut-off change put an item named, never *)
(* where a scan's fold alone put one.                                      *)
(***************************************************************************)
RetriesReachNamed ==
    change.phase \in {"target", "read"} =>
      \A n \in DOMAIN change.targets :
        \/ change.targets[n] \in ToSet(change.request.pids)
        \/ \E p \in DOMAIN change.retried : /\ change.targets[n] = change.retried[p]
                                         /\ foldedBy[p] \in 1..(Len(kindJobs) - 1)
                                         /\ p \in ToSet(kindJobs[foldedBy[p]].targets)
=============================================================================
