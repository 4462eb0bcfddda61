------------------------------- MODULE Roots -------------------------------
(***************************************************************************)
(* The library roots of a catalog: the roots a process is configured with  *)
(* and the ones registered while it runs, the checks that keep them apart  *)
(* (as spelled, and through links a mount may not answer for), and what a  *)
(* removal or a relocation of a root does to the file rows, the items and  *)
(* the trash entries below it.                                             *)
(*                                                                         *)
(* A path is the sequence of its names.  The last name of a file stands    *)
(* for its audio, so two files of one name are copies of one item.  Media  *)
(* type, profile and display spelling of a library are left out, and so    *)
(* are the case folds of Windows paths.  Which alternate a removal         *)
(* promotes is Books' and Fields' concern: here it is some alternate.      *)
(***************************************************************************)
EXTENDS Naturals, Sequences, FiniteSets, SequencesExt

CONSTANTS
  Folder,     \* the folders a root may name
  Reach,      \* Folder -> Folder: the folder a path reaches, its links followed
  Walkable,   \* the folders that are there
  OnDisk,     \* the audio files that are there, by the folder they lie in
  Configs,    \* the configurations a process may open the catalog with:
              \* [roots: a sequence of [path, mode], inbox: a set, pod: a set of at most one]
  RemoveSize, \* removeBatch: the files one transaction of a removal detaches
  MaxLibs,    \* bound: the libraries registered at once
  MaxRootOps  \* bound: the operations

VARIABLES
  up,         \* "open": this process has the catalog; "handed": another does; "down"
  conf,       \* l.opts: the configuration of the open handle
  libs,       \* library rows: [id, root, mode, fallback, readOnly]
  reopenOwed, \* a step after the store reopened failed and is owed
  rows,       \* file rows: [lib, path, rel, role]
  items,      \* audio -> "none", "present", "trash" or "root-removed"
  entries,    \* active trash entries: [lib, orig, item]
  removal,    \* the removal under way, or NoRemoval
  scanning,   \* the libraries a scan resolved before it asked for the lease, or {}
  left,       \* ghost: roots a removal or relocation of this handle took away
  unchecked,  \* ghost: roots registered with a check left out
  unanswered, \* ghost: roots registered while some mount did not answer
  staleScan,  \* ghost: a scan ran on a library that had moved, or whose id another had taken
  rootOps
rootVars == <<up, conf, libs, reopenOwed, rows, items, entries, removal, scanning, left,
              unchecked, unanswered, staleScan, rootOps>>

Audio == {Last(f) : f \in OnDisk}
NoRemoval == [phase |-> "none", lib |-> 0, root |-> << >>, promoted |-> << >>, detached |-> {}]

UnderRoot(root, p) == IsPrefix(root, p)
Overlap(a, b) == UnderRoot(a, b) \/ UnderRoot(b, a)
Reroot(p, old, new) == IF UnderRoot(old, p) THEN new \o SubSeq(p, Len(old) + 1, Len(p)) ELSE p

UserLibs(L) == {l \in L : l.mode # "podcast"}
PodcastLibs(L) == L \ UserLibs(L)
PathsOf(roots) == {roots[i].path : i \in DOMAIN roots}

\* Config.pairs: what a configuration keeps apart.
ConfigPairs(rootPaths, inbox, pod) ==
  {<<a, b>> \in rootPaths \X rootPaths : a # b} \cup (inbox \X rootPaths)
    \cup (pod \X (rootPaths \cup inbox))

ValidConfig(roots, inbox, pod) ==
  /\ \A i, j \in DOMAIN roots : i # j => ~ Overlap(roots[i].path, roots[j].path)
  /\ \A pair \in ConfigPairs(PathsOf(roots), inbox, pod) : ~ Overlap(pair[1], pair[2])

\* A bounded resolution: a path of deaf did not answer in time and stands for itself.
Resolve(p, deaf) == IF p \in deaf THEN p ELSE Reach[p]

LinkedOverlap(a, b, deaf) ==
  ~ Overlap(a, b) /\ Overlap(Resolve(a, deaf), Resolve(b, deaf))

LinksApart(rootPaths, inbox, pod, candidates, deaf) ==
  \A pair \in ConfigPairs(rootPaths, inbox, pod) :
    {pair[1], pair[2]} \cap candidates # {} => ~ LinkedOverlap(pair[1], pair[2], deaf)

\* checkConfiguredRoots: the stored podcast libraries are not compared.
ConfiguredRootsApart(c, L, deaf) ==
  /\ LinksApart(PathsOf(c.roots), c.inbox, c.pod, Folder, deaf)
  /\ \A r \in PathsOf(c.roots), l \in UserLibs(L) :
       l.root # r => ~ Overlap(l.root, r) /\ ~ LinkedOverlap(r, l.root, deaf)

\* The id of a new row: library.id is a rowid, so the highest is taken again once removed.
NewLibrary(L, spec) ==
  [id |-> 1 + Max({0} \cup {l.id : l \in L}), root |-> spec.path, mode |-> spec.mode,
   fallback |-> FALSE, readOnly |-> FALSE]
WithinLibs(L) == Cardinality(L) <= MaxLibs

RefreshKeepsFallback(l, mode) == [l EXCEPT !.mode = mode]

\* The row a root's registration leaves: an existing root keeps its row.
RefreshLibrary(l, mode) == [l EXCEPT !.mode = mode, !.fallback = @ /\ mode = "in-place"]

\* As if a root registered before were registered anew.
EnsureAnew(L, spec) == L \cup {NewLibrary(L, spec)}

EnsureLibrary(L, spec) ==
  LET at == {l \in L : l.root = spec.path}
  IN IF at # {} THEN (L \ at) \cup {RefreshLibrary(l, spec.mode) : l \in at}
     ELSE L \cup {NewLibrary(L, spec)}

EnsureRoots(L, roots) == FoldLeft(EnsureLibrary, L, roots)

\* podcastLibraryAt: another library at the dir, or nesting with it, is refused; the
\* dir's own library is found and nothing is written.
PodcastLibraryFits(L, dir) ==
  /\ \A l \in L : l.root # dir
  /\ \A l \in UserLibs(L) : ~ Overlap(l.root, dir)

EnsurePodcastLibrary(L, pod) ==
  IF \E dir \in pod : PodcastLibraryFits(L, dir)
    THEN EnsureLibrary(L, [path |-> CHOOSE dir \in pod : TRUE, mode |-> "podcast"])
    ELSE L

WithinBound == rootOps < MaxRootOps /\ rootOps' = rootOps + 1

\* A process opens the catalog read-write: the configuration is validated, compared with
\* what is stored, and registered.
OpenCatalog(c, deaf) ==
  /\ WithinBound
  /\ up = "down" /\ ValidConfig(c.roots, c.inbox, c.pod)
  /\ ConfiguredRootsApart(c, libs, deaf)
  /\ libs' = EnsurePodcastLibrary(EnsureRoots(libs, c.roots), c.pod) /\ WithinLibs(libs')
  /\ up' = "open" /\ conf' = c /\ left' = {}
  /\ unchecked' = unchecked \cup
       {r \in PathsOf(c.roots) : \E l \in PodcastLibs(libs) : Overlap(l.root, r)}
  /\ unanswered' = unanswered \cup (IF deaf = {} THEN {} ELSE PathsOf(c.roots) \cup c.pod)
  /\ UNCHANGED <<rows, items, entries, removal, scanning, reopenOwed, staleScan>>

CrashRoots ==
  /\ WithinBound
  /\ up = "open"
  /\ up' = "down" /\ removal' = NoRemoval /\ scanning' = {} /\ left' = {} /\ reopenOwed' = FALSE
  /\ UNCHANGED <<conf, libs, rows, items, entries, unchecked, unanswered, staleScan>>

\* A maintenance hand-off, once no job runs and no reopen is owed.  The other process may add or remove a root
\* of the catalog (or replace the catalog by one with other roots) before it is given back.
HandOverRoots ==
  /\ WithinBound
  /\ up = "open" /\ removal = NoRemoval /\ ~ reopenOwed
  /\ up' = "handed"
  /\ UNCHANGED <<conf, libs, reopenOwed, rows, items, entries, removal, scanning, left,
                 unchecked, unanswered, staleScan>>

\* finishReopenLocked: the configured roots are ensured, and not compared with what the
\* catalog holds now (an open compares them).  A root, or a step after them, may fail.
FinishReopen(fails) ==
  /\ WithinBound
  /\ \E k \in 0..Len(conf.roots) :
       LET whole == k = Len(conf.roots)
           L == EnsureRoots(libs, SubSeq(conf.roots, 1, k))
       IN (whole \/ fails) /\ libs' = IF whole THEN EnsurePodcastLibrary(L, conf.pod) ELSE L
  /\ WithinLibs(libs')
  /\ unchecked' = unchecked \cup ({l.root : l \in libs'} \ {l.root : l \in libs})
  /\ reopenOwed' = fails /\ up' = "open"
  /\ UNCHANGED <<conf, rows, items, entries, removal, scanning, left, unanswered, staleScan>>

ReopenRoots(fails) == up = "handed" /\ FinishReopen(fails)

\* BeginMaintenance finishes an owed reopen first, also where a running job then refuses it.
FinishOwedReopen(fails) == up = "open" /\ reopenOwed /\ FinishReopen(fails)

\* As if only the roots of the configuration were compared.
ConfiguredSetApart(L, c, path, deaf) ==
  /\ \A r \in PathsOf(c.roots) \ {path} : ~ Overlap(r, path)
  /\ LinksApart(PathsOf(c.roots) \cup {path}, c.inbox, c.pod, {path}, deaf)

\* validateRootSet: the candidate against every registered root but the one it lands on.
RootSetApart(L, c, path, deaf) ==
  LET roots == {l.root : l \in UserLibs(L)} \cup {path}
  IN /\ \A l \in UserLibs(L) : ~ Overlap(l.root, path)
     /\ \A pair \in ConfigPairs(roots, c.inbox, c.pod) : ~ Overlap(pair[1], pair[2])
     /\ LinksApart(roots, c.inbox, c.pod, {path}, deaf)
     /\ \A l \in PodcastLibs(L) :
          ~ Overlap(l.root, path) /\ ~ LinkedOverlap(path, l.root, deaf)

AddRoot(path, mode, absent, deaf) ==
  /\ WithinBound
  /\ up = "open"
  /\ RootSetApart({l \in libs : l.root # path \/ l.mode = "podcast"}, conf, path, deaf)
  /\ removal.root # path
  /\ absent \/ (Reach[path] \in Walkable /\ path \notin deaf)
  /\ libs' = EnsureLibrary(libs, [path |-> path, mode |-> mode]) /\ WithinLibs(libs')
  /\ left' = left \ {path}
  /\ unchecked' = unchecked \ {path}
  /\ unanswered' = IF deaf = {} THEN unanswered ELSE unanswered \cup {path}
  /\ UNCHANGED <<up, conf, reopenOwed, rows, items, entries, removal, scanning, staleScan>>

SetFolderFallback(l, on) ==
  /\ WithinBound
  /\ up = "open" /\ l \in libs /\ l.fallback # on
  /\ on => l.mode = "in-place"
  /\ libs' = (libs \ {l}) \cup {[l EXCEPT !.fallback = on]}
  /\ UNCHANGED <<up, conf, reopenOwed, rows, items, entries, removal, scanning, left,
                 unchecked, unanswered, staleScan>>

SetReadOnly(l, on) ==
  /\ WithinBound
  /\ up = "open" /\ l \in UserLibs(libs) /\ l.readOnly # on
  /\ libs' = (libs \ {l}) \cup {[l EXCEPT !.readOnly = on]}
  /\ UNCHANGED <<up, conf, reopenOwed, rows, items, entries, removal, scanning, left,
                 unchecked, unanswered, staleScan>>

-----------------------------------------------------------------------------
(* Scans: the libraries are read first, the filesystem lease is asked for  *)
(* after, so a removal or relocation may end in between.                   *)

LeaseFree == removal = NoRemoval

ResolveLibraries ==
  /\ WithinBound
  /\ up = "open" /\ scanning = {} /\ UserLibs(libs) # {}
  /\ scanning' = UserLibs(libs)
  /\ UNCHANGED <<up, conf, libs, reopenOwed, rows, items, entries, removal, left,
                 unchecked, unanswered, staleScan>>

\* The rows a walk of library l (as it was read) adds: its audio files that have no row.
WalkFinds(l) ==
  {[lib |-> l.id, path |-> l.root \o SubSeq(f, Len(Reach[l.root]) + 1, Len(f)),
    rel |-> SubSeq(f, Len(Reach[l.root]) + 1, Len(f)), role |-> "alternate"] :
     f \in {g \in OnDisk : UnderRoot(Reach[l.root], g)}}

\* A scanned file backs its item: as the primary when none stands, else as a copy.
Link(R, f) ==
  IF \E r \in R : r.path = f.path THEN R
  ELSE IF \E r \in R : Last(r.path) = Last(f.path) /\ r.role = "primary"
    THEN R \cup {f} ELSE R \cup {[f EXCEPT !.role = "primary"]}

Present(R, was) ==
  [a \in Audio |-> IF \E r \in R : Last(r.path) = a THEN "present" ELSE was[a]]

\* scanLibraries under the lease.  A library removed since takes no row, its id gone,
\* unless a library added since took the id; one relocated since is walked where it was.
ScanLibraries ==
  /\ WithinBound
  /\ up = "open" /\ scanning # {} /\ LeaseFree
  /\ LET live == {l \in scanning : \E k \in libs : k.id = l.id}
         found == UNION {WalkFinds(l) : l \in live}
         R == FoldLeft(Link, rows, SetToSeq(found))
     IN /\ rows' = R /\ items' = Present(R, items)
        /\ staleScan' = (staleScan \/ \E l \in live : \A k \in libs : k.root # l.root \/ k.id # l.id)
  /\ scanning' = {}
  /\ UNCHANGED <<up, conf, libs, reopenOwed, entries, removal, left, unchecked, unanswered>>

-----------------------------------------------------------------------------
(* Detaching rows: an alternate takes a primary's place, and an item left  *)
(* with no file is archived.                                               *)

\* As if no alternate took the place.
DetachUnpromoted(acc, f) ==
  [acc EXCEPT !.rows = {r \in acc.rows : r.path # f.path}, !.detached = @ \cup {f.path}]

\* detachTx: one row goes and its item keeps a primary.
DetachRow(acc, f) ==
  LET rest == acc.rows \ {r \in acc.rows : r.path = f.path}
      mates == {r \in rest : Last(r.path) = Last(f.path)}
      wasPrimary == \E r \in acc.rows : r.path = f.path /\ r.role = "primary"
      heir == CHOOSE r \in mates : TRUE
  IN IF wasPrimary /\ mates # {}
       THEN [acc EXCEPT !.rows = (rest \ {heir}) \cup {[heir EXCEPT !.role = "primary"]},
                        !.promoted = Append(@, heir.path),
                        !.detached = @ \cup {f.path}]
       ELSE [acc EXCEPT !.rows = rest, !.detached = @ \cup {f.path}]

\* settleTx: the items the batch touched that no file backs now are archived.
SettleItems(R, was, touched, reason) ==
  [a \in Audio |-> IF a \in touched /\ ~ \E r \in R : Last(r.path) = a THEN reason ELSE was[a]]

DetachBatch(batch) ==
  FoldLeft(DetachRow, [rows |-> rows, promoted |-> << >>, detached |-> {}], SetToSeq(batch))

\* A trash of one file (Trash models the move itself).
TrashFile(r) ==
  /\ WithinBound
  /\ up = "open" /\ LeaseFree /\ r \in rows
  /\ LET d == DetachBatch({r})
     IN /\ rows' = d.rows
        /\ items' = SettleItems(d.rows, items, {Last(r.path)}, "trash")
  /\ entries' = entries \cup {[lib |-> r.lib, orig |-> r.path, item |-> Last(r.path)]}
  /\ UNCHANGED <<up, conf, libs, reopenOwed, removal, scanning, left, unchecked, unanswered, staleScan>>

-----------------------------------------------------------------------------
(* Removing a root: a job under the lease, in batches, cut off by a cancel *)
(* between two of them or by a crash.                                      *)

RemovableRoot(l, force) ==
  /\ l.mode # "podcast"
  /\ force \/ l.root \notin PathsOf(conf.roots)

\* checkRemoveRoot, the lease, and beginRemoval's second check.
BeginRemoval(l, force) ==
  /\ WithinBound
  /\ up = "open" /\ LeaseFree /\ l \in libs /\ RemovableRoot(l, force)
  /\ removal' = [NoRemoval EXCEPT !.phase = "batches", !.lib = l.id, !.root = l.root]
  /\ UNCHANGED <<up, conf, libs, reopenOwed, rows, items, entries, scanning, left,
                 unchecked, unanswered, staleScan>>

DropRowAlone(id, last) ==
  /\ entries' = entries
  /\ libs' = IF last THEN {l \in libs : l.id # id} ELSE libs

\* dropLibraryTx: the entries of the library go, then its row.
DropLibrary(id, last) ==
  /\ entries' = IF last THEN {e \in entries : e.lib # id} ELSE entries
  /\ libs' = IF last THEN {l \in libs : l.id # id} ELSE libs

\* One transaction of removeLibrary; the one that finds fewer files than a batch holds
\* also drops the library.
RemoveBatch ==
  /\ removal.phase = "batches" /\ up = "open"
  /\ \E batch \in SUBSET {r \in rows : r.lib = removal.lib} :
       LET mine == {r \in rows : r.lib = removal.lib}
           d == DetachBatch(batch)
           last == Cardinality(batch) < RemoveSize
       IN /\ Cardinality(batch) = RemoveSize \/ (batch = mine /\ last)
          /\ rows' = d.rows
          /\ items' = SettleItems(d.rows, items, {Last(r.path) : r \in batch}, "root-removed")
          /\ DropLibrary(removal.lib, last)
          /\ removal' = [removal EXCEPT !.promoted = @ \o d.promoted,
                                        !.detached = @ \cup d.detached,
                                        !.phase = IF last THEN "removed" ELSE "batches"]
  /\ UNCHANGED <<up, conf, reopenOwed, scanning, left, unchecked, unanswered, staleScan, rootOps>>

SettledWhole(m) == {m.promoted[i] : i \in DOMAIN m.promoted}

\* settled: what the removal promoted and did not go on to detach.
Settled(m) == {m.promoted[i] : i \in DOMAIN m.promoted} \ m.detached

\* rereadPromoted: each file is scanned again under its library, which puts a row back
\* for one that has none.
RereadPromoted(paths) ==
  LET back == {[lib |-> removal.lib, path |-> p, rel |-> SubSeq(p, Len(removal.root) + 1, Len(p)),
                role |-> "alternate"] : p \in {q \in paths : UnderRoot(removal.root, q)}}
  IN FoldLeft(Link, rows, SetToSeq(IF \E l \in libs : l.id = removal.lib THEN back ELSE {}))

ForgetNothing(root) == conf' = conf

ForgetRoot(root) ==
  conf' = [conf EXCEPT !.roots = SelectSeq(@, LAMBDA r : r.path # root)]

\* endRemoval and the re-read, after the last batch, or after a cancel between two.
EndRemoval ==
  /\ up = "open" /\ removal.phase \in {"batches", "removed"}
  /\ IF removal.phase = "removed"
       THEN ForgetRoot(removal.root) /\ left' = left \cup ({removal.root} \ {l.root : l \in libs})
       ELSE UNCHANGED <<conf, left>>
  /\ rows' = RereadPromoted(Settled(removal))
  /\ items' = Present(rows', items)
  /\ removal' = NoRemoval
  /\ UNCHANGED <<up, libs, reopenOwed, entries, scanning, unchecked, unanswered, staleScan, rootOps>>

-----------------------------------------------------------------------------
(* Relocating a root.                                                      *)

MoveRows(R, id, new) == {IF r.lib = id THEN [r EXCEPT !.path = new \o r.rel] ELSE r : r \in R}

LeaveEntries(E, id, old, new) == E

MoveEntries(E, id, old, new) ==
  {IF e.lib = id THEN [e EXCEPT !.orig = Reroot(@, old, new)] ELSE e : e \in E}

MoveConfigured(old, new) ==
  conf' = [conf EXCEPT !.roots =
             [i \in DOMAIN @ |-> IF @[i].path = old THEN [@[i] EXCEPT !.path = new] ELSE @[i]]]

RelocateRoot(l, path, absent, deaf) ==
  /\ WithinBound
  /\ up = "open" /\ LeaseFree /\ l \in UserLibs(libs)
  /\ RootSetApart(libs \ {l}, conf, path, deaf)
  /\ absent \/ (Reach[path] \in Walkable /\ path \notin deaf)
  /\ LET R == MoveRows(rows, l.id, path)
     IN Cardinality({r.path : r \in R}) = Cardinality(rows) /\ rows' = R  \* file.path is unique
  /\ libs' = (libs \ {l}) \cup {[l EXCEPT !.root = path]}
  /\ entries' = MoveEntries(entries, l.id, l.root, path)
  /\ MoveConfigured(l.root, path)
  /\ left' = (left \cup {l.root}) \ {path}
  /\ unchecked' = IF l.root \in unchecked THEN unchecked \cup {path} ELSE unchecked
  /\ unanswered' = IF deaf = {} THEN unanswered ELSE unanswered \cup {path}
  /\ UNCHANGED <<up, reopenOwed, items, removal, scanning, staleScan>>

\* While another process has the catalog: it removes a root there, or adds one that fits.
ForeignRemove(l) ==
  /\ WithinBound
  /\ up = "handed" /\ l \in UserLibs(libs)
  /\ LET mine == {r \in rows : r.lib = l.id}
         d == DetachBatch(mine)
     IN /\ rows' = d.rows
        /\ items' = SettleItems(d.rows, items, {Last(r.path) : r \in mine}, "root-removed")
  /\ DropLibrary(l.id, TRUE)
  /\ UNCHANGED <<up, conf, reopenOwed, removal, scanning, left, unchecked, unanswered, staleScan>>

ForeignAdd(path, mode) ==
  /\ WithinBound
  /\ up = "handed"
  /\ RootSetApart({l \in libs : l.root # path \/ l.mode = "podcast"},
                  [roots |-> << >>, inbox |-> {}, pod |-> {}], path, {})
  /\ libs' = EnsureLibrary(libs, [path |-> path, mode |-> mode]) /\ WithinLibs(libs')
  /\ left' = left \ {path} /\ unchecked' = unchecked \ {path}
  /\ UNCHANGED <<up, conf, reopenOwed, rows, items, entries, removal, scanning, unanswered, staleScan>>

Deaf == {{}} \cup {{p} : p \in {q \in Folder : Reach[q] # q}}
Mode == {"in-place", "managed"}

RootsInit ==
  /\ up = "down" /\ conf = [roots |-> << >>, inbox |-> {}, pod |-> {}]
  /\ libs = {} /\ reopenOwed = FALSE /\ rows = {} /\ items = [a \in Audio |-> "none"] /\ entries = {}
  /\ removal = NoRemoval /\ scanning = {} /\ left = {} /\ unchecked = {} /\ unanswered = {}
  /\ staleScan = FALSE /\ rootOps = 0

RootsNext ==
  \/ \E c \in Configs, deaf \in Deaf : OpenCatalog(c, deaf)
  \/ CrashRoots \/ HandOverRoots \/ \E fails \in BOOLEAN : ReopenRoots(fails) \/ FinishOwedReopen(fails)
  \/ \E p \in Folder, md \in Mode, absent \in BOOLEAN, deaf \in Deaf : AddRoot(p, md, absent, deaf)
  \/ \E l \in libs, on \in BOOLEAN : SetFolderFallback(l, on) \/ SetReadOnly(l, on)
  \/ ResolveLibraries \/ ScanLibraries
  \/ \E r \in rows : TrashFile(r)
  \/ \E l \in libs, force \in BOOLEAN : BeginRemoval(l, force)
  \/ RemoveBatch \/ EndRemoval
  \/ \E l \in libs, p \in Folder, absent \in BOOLEAN, deaf \in Deaf : RelocateRoot(l, p, absent, deaf)
  \/ \E l \in libs : ForeignRemove(l)
  \/ \E p \in Folder, md \in Mode : ForeignAdd(p, md)

RootsSpec == RootsInit /\ [][RootsNext]_rootVars
-----------------------------------------------------------------------------
RootsTypeOK ==
  /\ up \in {"down", "open", "handed"} /\ reopenOwed \in BOOLEAN
  /\ \A l \in libs : l.id \in Nat \ {0} /\ l.root \in Folder
  /\ \A l, k \in libs : (l.id = k.id \/ l.root = k.root) => l = k
  /\ \A r \in rows : r.role \in {"primary", "alternate"}
  /\ items \in [Audio -> {"none", "present", "trash", "root-removed"}]

\* No root lies in another's folder, as spelled or through a link (a scan of the outer
\* would read the inner's files, an organize move them), but for a root registered with
\* a check left out: by a reopen, which compares nothing, by an open over the library of
\* a former podcast dir, or, through links, while a mount did not answer.
RootsApart ==
  \A l \in UserLibs(libs), k \in libs :
    (l # k /\ l.root \notin unchecked /\ k.root \notin unchecked) =>
      /\ ~ Overlap(l.root, k.root)
      /\ (l.root \notin unanswered /\ k.root \notin unanswered) =>
           ~ Overlap(Reach[l.root], Reach[k.root])

\* Every file row and every trash entry belongs to a registered library and lies below
\* its root, whatever was removed, relocated, crashed or handed over, unless a scan
\* walked a library that was relocated, or replaced under its id, after the scan had
\* read it.
RowsUnderRoot ==
  ~ staleScan =>
    /\ \A r \in rows : \E l \in libs : l.id = r.lib /\ r.path = l.root \o r.rel
    /\ \A e \in entries : \E l \in libs : l.id = e.lib /\ UnderRoot(l.root, e.orig)

\* A removal cut off between any two of its transactions leaves whole items: an item
\* backed by a file is present and has one primary, one with none is archived.
ItemsSettled ==
  \A a \in Audio :
    LET mine == {r \in rows : Last(r.path) = a}
    IN /\ (mine # {}) <=> (items[a] = "present")
       /\ mine # {} => Cardinality({r \in mine : r.role = "primary"}) = 1

\* A root this handle removed, or relocated away from, is not registered again by the
\* reopen after a hand-off: only an add (or a fresh open configuring it) brings it back,
\* or an owed reopen finished while its removal was ending.
LeftRootsStayOut == \A l \in libs : l.root \notin left

\* Only an in-place library keeps the folder fallback, whatever re-registers its root.
FallbackInPlace == \A l \in libs : l.fallback => l.mode = "in-place"

\* What a removal re-reads is still in the catalog: re-reading a file the removal went on
\* to detach would put its row back.
PromotedStand ==
     removal.phase # "none" /\ removal' = NoRemoval /\ up' = "open"
       => {r.path : r \in rows'} = {r.path : r \in rows}
=============================================================================
