------------------------------ MODULE Podcast ------------------------------
(***************************************************************************)
(* The episode files of one show: downloads and imports, which read the    *)
(* episode first and take the podcast lease only to put the file in place, *)
(* and unfetch, retention and unsubscribe, which hold the lease all along. *)
(*                                                                         *)
(* A file name begins with the pid of its episode, so episodes never share *)
(* one; which name a file gets depends on the feed's title and enclosure,  *)
(* which a sync may change.  An enclosure is two chunks.                   *)
(***************************************************************************)
EXTENDS Integers, FiniteSets

CONSTANTS
  Worker,     \* goroutines that call the podcast service
  Episode,    \* 1..n, newest first
  Name,       \* file names an episode may have
  KeepNewest,       \* retention: newest downloads kept, 0 for all
  MaxOps,     \* bound: calls of the service
  MaxFaults,  \* bound: failed catalog writes, unlinks and crashes
  MaxSyncs    \* bound: syncs that rename

ASSUME PodcastAssumption ==
  /\ IsFiniteSet(Worker) /\ "none" \notin Worker
  /\ Episode \subseteq Nat \ {0} /\ IsFiniteSet(Episode)
  /\ Name \subseteq Nat \ {0} /\ Name # {}
  /\ {KeepNewest, MaxOps, MaxFaults, MaxSyncs} \subseteq Nat

VARIABLES
  episodes,  \* the catalog: episode -> in it, file row's name or 0, the next download's name, pinned
  tree,      \* the download folder: place -> file
  podLease,  \* the worker that holds the podcast lease, or NoWorker
  pod,       \* worker -> its call
  opsLeft, faultsLeft, syncsLeft,
  excuse     \* history: episodes that a crash, a fault, two calls at once, an import over a
             \* file of another name, or an unsubscribe under a repeated download hit

podVars == <<episodes, tree, podLease, pod, opsLeft, faultsLeft, syncsLeft, excuse>>
podBounds == <<opsLeft, faultsLeft, syncsLeft>>

NoWorker == "none"
NoFile == [chunks |-> {}, writers |-> {}, there |-> FALSE]
Whole == {1, 2}
WholeFile == [chunks |-> Whole, writers |-> {}, there |-> TRUE]
FirstName == CHOOSE n \in Name : TRUE
NoOp == [at |-> "idle", ep |-> 0, dst |-> 0, prior |-> 0, left |-> {}, import |-> FALSE]
Place == Episode \X (Name \X {"file", "part"})
At(e, n) == <<e, <<n, "file">>>>
Part(e, n) == <<e, <<n, "part">>>>
There(p) == tree[p].there
Unlink(t, ps) == [p \in Place |-> IF p \in ps THEN NoFile ELSE t[p]]
Filed(e) == episodes[e].row # 0

PodInit ==
  /\ \E pins, fetched \in SUBSET Episode :
       /\ episodes = [e \in Episode |-> [in |-> TRUE, row |-> IF e \in fetched THEN FirstName ELSE 0,
                                          name |-> FirstName, pinned |-> e \in pins]]
       /\ tree = [p \in Place |-> IF \E e \in fetched : p = At(e, FirstName) THEN WholeFile ELSE NoFile]
  /\ podLease = NoWorker
  /\ pod = [w \in Worker |-> NoOp]
  /\ opsLeft = MaxOps /\ faultsLeft = MaxFaults /\ syncsLeft = MaxSyncs
  /\ excuse = {}

-----------------------------------------------------------------------------
Starts(w, op) ==
  /\ pod[w] = NoOp /\ opsLeft > 0
  /\ opsLeft' = opsLeft - 1
  /\ pod' = [pod EXCEPT ![w] = op]
  /\ UNCHANGED <<episodes, tree, faultsLeft, syncsLeft>>

Moves(w, at) == pod' = [pod EXCEPT ![w].at = at]

\* The call returns, and with it the lease if it has it.
Returns(w) ==
  /\ pod' = [pod EXCEPT ![w] = NoOp]
  /\ podLease' = IF podLease = w THEN NoWorker ELSE podLease

Fault(es) ==
  /\ faultsLeft > 0
  /\ faultsLeft' = faultsLeft - 1
  /\ excuse' = excuse \cup es
  /\ UNCHANGED <<opsLeft, syncsLeft>>

NoFault == UNCHANGED <<podBounds, excuse>>

\* Two calls that put files in place for one episode run at once.
Overlaps(w, e) == \E v \in Worker \ {w} : pod[v].ep = e /\ pod[v].at # "idle"

-----------------------------------------------------------------------------
(***************************************************************************)
(* Download.                                                               *)
(***************************************************************************)
\* The episode is read, and everything decided about it.
StartDownload(w, e) ==
  /\ episodes[e].in
  /\ Starts(w, [at |-> "create", ep |-> e, dst |-> episodes[e].name, prior |-> episodes[e].row, left |-> {}, import |-> FALSE])
  /\ excuse' = IF Overlaps(w, e) THEN excuse \cup {e} ELSE excuse
  /\ UNCHANGED podLease

\* fetchTo: os.Create, which empties the file a download at the same name is writing.
CreatePart(w) ==
  LET p == Part(pod[w].ep, pod[w].dst) IN
  /\ pod[w].at = "create"
  /\ tree' = [tree EXCEPT ![p] = [chunks |-> {}, there |-> TRUE, writers |-> tree[p].writers \cup {w}]]
  /\ Moves(w, "fetch1")
  /\ UNCHANGED <<episodes, podLease>> /\ NoFault

\* A chunk lands in the open file, wherever it is by now; after the last it is closed.
WriteChunk(w) ==
  /\ pod[w].at \in {"fetch1", "fetch2"}
  /\ tree' = [p \in Place |->
       IF w \notin tree[p].writers THEN tree[p]
       ELSE [chunks |-> tree[p].chunks \cup {IF pod[w].at = "fetch1" THEN 1 ELSE 2}, there |-> tree[p].there,
             writers |-> IF pod[w].at = "fetch2" THEN tree[p].writers \ {w} ELSE tree[p].writers]]
  /\ Moves(w, IF pod[w].at = "fetch1" THEN "fetch2" ELSE "leaseWait")
  /\ UNCHANGED <<episodes, podLease>> /\ NoFault

\* The fetch fails, or the wait for the lease is over: the part file is removed.
DiscardPart(w) ==
  /\ pod[w].at \in {"fetch1", "fetch2"} \/ (pod[w].at = "leaseWait" /\ podLease # NoWorker)
  /\ tree' = [p \in Place |-> IF p = Part(pod[w].ep, pod[w].dst) THEN NoFile
                              ELSE [tree[p] EXCEPT !.writers = tree[p].writers \ {w}]]
  /\ Returns(w)
  /\ UNCHANGED episodes /\ NoFault

\* leaseWait, or LeaseImport.
TakePodLease(w) ==
  /\ pod[w].at \in {"leaseWait", "leaseImport"} /\ podLease = NoWorker
  /\ podLease' = w
  /\ Moves(w, IF pod[w].at = "leaseWait" THEN "rename" ELSE "move")
  /\ UNCHANGED <<episodes, tree>> /\ NoFault

\* The rename into place; a part somebody else took or removed is an error.
RenamePart(w) ==
  LET e == pod[w].ep  n == pod[w].dst IN
  /\ pod[w].at = "rename"
  /\ IF There(Part(e, n))
     THEN /\ tree' = [[tree EXCEPT ![At(e, n)] = tree[Part(e, n)]] EXCEPT ![Part(e, n)] = NoFile]
          /\ Moves(w, "attach") /\ UNCHANGED podLease
     ELSE UNCHANGED tree /\ Returns(w)
  /\ UNCHANGED episodes /\ NoFault

\* What a failed attach takes away again: a download's file unless the row it read
\* when it began names it, a copied import always, and a moved one goes back.
AttachUndoes(w) ==
  IF pod[w].import \/ pod[w].prior # pod[w].dst THEN {At(pod[w].ep, pod[w].dst)} ELSE {}

\* AttachEpisodeFile: the row of a prior file is replaced.  It fails for an episode that
\* is no longer there, or when the write does.
Attach(w) ==
  LET e == pod[w].ep IN
  /\ pod[w].at = "attach" /\ episodes[e].in
  /\ episodes' = [episodes EXCEPT ![e].row = pod[w].dst]
  /\ Moves(w, "supersede")
  /\ excuse' = IF episodes[e].row \notin {0, pod[w].dst, pod[w].prior} THEN excuse \cup {e} ELSE excuse
  /\ UNCHANGED <<tree, podLease, podBounds>>

AttachRefused(w) ==
  LET e == pod[w].ep IN
  /\ pod[w].at = "attach"
  /\ IF episodes[e].in THEN Fault({e})
     ELSE excuse' = (IF AttachUndoes(w) = {} THEN excuse \cup {e} ELSE excuse) /\ UNCHANGED podBounds
  /\ tree' = Unlink(tree, AttachUndoes(w))
  /\ Returns(w)
  /\ UNCHANGED episodes

\* fileRow fails after the file landed, which is left where it is.
FileRowFails(w) ==
  /\ pod[w].at = "attach"
  /\ Fault({pod[w].ep})
  /\ Returns(w)
  /\ UNCHANGED <<episodes, tree>>

\* Mutant: the prior file goes whatever its name.
SupersededAlways(w) == IF pod[w].prior = 0 THEN {} ELSE {At(pod[w].ep, pod[w].prior)}

\* A download removes the file its episode had when it began, if the name differs; an
\* import does not look.
Superseded(w) ==
  IF pod[w].import \/ pod[w].prior \in {0, pod[w].dst} THEN {} ELSE {At(pod[w].ep, pod[w].prior)}

Supersede(w) ==
  /\ pod[w].at = "supersede"
  /\ tree' = Unlink(tree, Superseded(w))
  /\ Returns(w)
  /\ UNCHANGED episodes /\ NoFault

-----------------------------------------------------------------------------
(***************************************************************************)
(* ImportEpisodeFile: its file is whole.                                   *)
(***************************************************************************)
StartImport(w, e, n) ==
  /\ episodes[e].in
  /\ Starts(w, [at |-> "leaseImport", ep |-> e, dst |-> n, prior |-> 0, left |-> {}, import |-> TRUE])
  /\ excuse' = IF Overlaps(w, e) THEN excuse \cup {e} ELSE excuse
  /\ UNCHANGED podLease

\* The lease is busy, which an import does not wait out, or a file stands at the name.
ImportRefused(w) ==
  /\ \/ pod[w].at = "leaseImport" /\ podLease # NoWorker
     \/ pod[w].at = "move" /\ There(At(pod[w].ep, pod[w].dst))
  /\ Returns(w)
  /\ UNCHANGED <<episodes, tree>> /\ NoFault

ImportMove(w) ==
  LET p == At(pod[w].ep, pod[w].dst) IN
  /\ pod[w].at = "move" /\ ~There(p)
  /\ tree' = [tree EXCEPT ![p] = WholeFile]
  /\ Moves(w, "attach")
  /\ UNCHANGED <<episodes, podLease>> /\ NoFault

-----------------------------------------------------------------------------
(***************************************************************************)
(* Unfetch, retention and unsubscribe.                                     *)
(***************************************************************************)
\* DownloadedEpisodes past the newest KeepNewest: pinned ones neither count nor go.
Downloaded == {e \in Episode : episodes[e].in /\ Filed(e) /\ ~episodes[e].pinned}
Expired == IF KeepNewest = 0 THEN {} ELSE {e \in Downloaded : Cardinality({d \in Downloaded : d < e}) >= KeepNewest}

\* The files of some episodes, and the newest of those a call has yet to drop.
FilesOf(es) == {<<e, episodes[e].row>> : e \in es}
Heads(w, f) == f \in pod[w].left /\ \A g \in pod[w].left : f[1] <= g[1]
Dropping(at, left) == [at |-> at, ep |-> 0, dst |-> 0, prior |-> 0, left |-> left, import |-> FALSE]
MovesOn(w, at, left) == pod' = [pod EXCEPT ![w] = Dropping(at, left)]

\* Unfetch of one episode, or a retention pass.
StartDrop(w, es) ==
  /\ podLease = NoWorker /\ es # {}
  /\ Starts(w, Dropping("unlink", FilesOf(es)))
  /\ podLease' = w
  /\ UNCHANGED excuse

\* Mutant: the catalog first.
DropFirst(w, f) ==
  /\ pod[w].at = "unlink" /\ Heads(w, f)
  /\ episodes' = [episodes EXCEPT ![f[1]].row = 0]
  /\ MovesOn(w, "drop", pod[w].left)
  /\ UNCHANGED <<tree, podLease>> /\ NoFault

UnlinkEpisode(w, f) ==
  /\ pod[w].at = "unlink" /\ Heads(w, f)
  /\ tree' = Unlink(tree, {At(f[1], f[2])})
  /\ MovesOn(w, "drop", pod[w].left)
  /\ UNCHANGED <<episodes, podLease>> /\ NoFault

\* The unlink fails: unfetch gives up, retention goes on with the next.
UnlinkFails(w, f) ==
  /\ pod[w].at = "unlink" /\ Heads(w, f)
  /\ Fault({})
  /\ MovesOn(w, "unlink", pod[w].left \ {f})
  /\ UNCHANGED <<episodes, tree, podLease>>

\* DropEpisodeFile.
DropEpisodeFile(w, f) ==
  /\ pod[w].at = "drop" /\ Heads(w, f)
  /\ episodes' = [episodes EXCEPT ![f[1]].row = 0]
  /\ MovesOn(w, "unlink", pod[w].left \ {f})
  /\ UNCHANGED <<tree, podLease>> /\ NoFault

DropFails(w, f) ==
  /\ pod[w].at = "drop" /\ Heads(w, f)
  /\ Fault({f[1]})
  /\ Returns(w)
  /\ UNCHANGED <<episodes, tree>>

\* RemovePodcast answers with the files of the rows it deletes, which are unlinked next.
StartRemove(w) ==
  LET es == {e \in Episode : episodes[e].in /\ Filed(e)} IN
  /\ podLease = NoWorker /\ \E e \in Episode : episodes[e].in
  /\ pod[w] = NoOp /\ opsLeft > 0 /\ opsLeft' = opsLeft - 1
  /\ episodes' = [e \in Episode |-> [in |-> FALSE, row |-> 0, name |-> episodes[e].name, pinned |-> episodes[e].pinned]]
  /\ pod' = [pod EXCEPT ![w] = Dropping("remove", FilesOf(es))]
  /\ podLease' = w
  /\ UNCHANGED <<tree, faultsLeft, syncsLeft, excuse>>

RemoveFile(w, f) ==
  /\ pod[w].at = "remove" /\ Heads(w, f)
  /\ \/ tree' = Unlink(tree, {At(f[1], f[2])}) /\ NoFault
     \/ UNCHANGED tree /\ Fault({f[1]})
  /\ MovesOn(w, "remove", pod[w].left \ {f})
  /\ UNCHANGED <<episodes, podLease>>

DropsDone(w) ==
  /\ pod[w].at \in {"unlink", "remove"} /\ pod[w].left = {}
  /\ Returns(w)
  /\ UNCHANGED <<episodes, tree>> /\ NoFault

-----------------------------------------------------------------------------
\* A sync that retitles the show or an episode's enclosure: the next download has
\* another name.  It holds no lease.
RenameBySync(e, n) ==
  /\ syncsLeft > 0 /\ episodes[e].in /\ n # episodes[e].name
  /\ episodes' = [episodes EXCEPT ![e].name = n]
  /\ syncsLeft' = syncsLeft - 1
  /\ UNCHANGED <<tree, podLease, pod, opsLeft, faultsLeft, excuse>>

\* The process ends: open files with it, and the lease when the next one opens.
CrashPod ==
  /\ \E w \in Worker : pod[w] # NoOp
  /\ Fault({pod[w].ep : w \in Worker} \cup UNION {{f[1] : f \in pod[w].left} : w \in Worker})
  /\ tree' = [p \in Place |-> [tree[p] EXCEPT !.writers = {}]]
  /\ pod' = [w \in Worker |-> NoOp]
  /\ podLease' = NoWorker
  /\ UNCHANGED episodes

PodNext ==
  \/ \E w \in Worker :
       \/ \E e \in Episode : StartDownload(w, e) \/ (\E n \in Name : StartImport(w, e, n))
       \/ CreatePart(w) \/ WriteChunk(w) \/ DiscardPart(w) \/ TakePodLease(w) \/ RenamePart(w)
       \/ Attach(w) \/ AttachRefused(w) \/ FileRowFails(w) \/ Supersede(w) \/ ImportRefused(w) \/ ImportMove(w)
       \/ \E e \in Episode : Filed(e) /\ StartDrop(w, {e})
       \/ StartDrop(w, Expired)
       \/ \E f \in pod[w].left :
            UnlinkEpisode(w, f) \/ UnlinkFails(w, f) \/ DropEpisodeFile(w, f) \/ DropFails(w, f) \/ RemoveFile(w, f)
       \/ StartRemove(w) \/ DropsDone(w)
  \/ \E e \in Episode, n \in Name : RenameBySync(e, n)
  \/ CrashPod

PodSpec == PodInit /\ [][PodNext]_podVars

-----------------------------------------------------------------------------
(***************************************************************************)
(* Properties                                                              *)
(***************************************************************************)
\* "An interrupted download never leaves a truncated file masquerading as a complete
\* episode", and a row's file is there: but for the episode a leased call is dropping,
\* and one that a fault, a crash or an overlap of two calls for it hit.
PresentIsWhole == \A e \in Episode \ excuse :
  Filed(e) => \/ There(At(e, episodes[e].row)) /\ tree[At(e, episodes[e].row)].chunks = Whole
              \/ podLease # NoWorker /\ \E f \in pod[podLease].left : f[1] = e

\* A file of the folder that no row names.
Orphans == {e \in Episode : \E n \in Name : There(At(e, n)) /\ episodes[e].row # n}

\* "Unsubscribes from a podcast and deletes its episodes and downloaded files": with
\* nothing running, no file is left that retention and unsubscribe miss, but for an
\* excused episode's.
NoOrphan == (\A w \in Worker : pod[w] = NoOp) => Orphans \subseteq excuse

\* An episode that says present has its whole file, and no file is left that no
\* row names (download.go, unfetch.go).
EpisodesHold == PresentIsWhole /\ NoOrphan
=============================================================================
