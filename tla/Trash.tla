------------------------------- MODULE Trash -------------------------------
(***************************************************************************)
(* The trash: a delete plan applied by PlanTrash, a move into the plan's   *)
(* slot and TrashFile; restore; purge and sweep; and recoverTrash.  With   *)
(* Organize this is the whole of what a library's files go through, with a *)
(* crash or a handed-over lock between any two steps.                      *)
(***************************************************************************)
EXTENDS Organize, TLC

CONSTANTS
  Pid,     \* pids of trash moves, none used twice: they bound how many there are
  Modes    \* delete modes in use: "trash", "permanent"

ASSUME TrashAssumption ==
  /\ Modes \subseteq {"trash", "permanent"}
  /\ NoFile \notin File \cup Pid

VARIABLES
  rec,     \* trash_pending and trash rows by pid; "gone" is deleted
  dplan,   \* the action of a delete plan a host keeps
  rplan    \* the entry RestoreTrash read before it asked for the lease

trashVars == <<rec, dplan, rplan>>
vars == <<diskVars, orgVars, trashVars>>

NoRec == [st |-> "none", file |-> NoFile, linked |-> FALSE, orig |-> NoPath, slot |-> NoPath]
NoDelete == [file |-> NoFile, src |-> NoPath, slot |-> NoPath, mode |-> "trash"]

Init ==
  /\ OrgInit
  /\ rec = [e \in Pid |-> NoRec]
  /\ dplan = NoDelete
  /\ rplan = NoFile

RowsNaming(s) == {e \in Pid : rec[e].slot = s /\ rec[e].st # "gone"}

\* detachTx on the rows other than file's: file_id is set null, and a plan's
\* file pid names nothing from here on.
Detached(rows, fs) ==
  [e \in DOMAIN rows |-> IF rows[e].file \in fs THEN [rows[e] EXCEPT !.linked = FALSE] ELSE rows[e]]

DropRows(fs) ==
  /\ row' = [f \in File |-> IF f \in fs THEN NoPath ELSE row[f]]
  /\ jr' = Detached(jr, fs)
  /\ oplan' = [src |-> [f \in File |-> IF f \in fs THEN NoPath ELSE oplan.src[f]],
               dst |-> [f \in File |-> IF f \in fs THEN NoPath ELSE oplan.dst[f]]]
  /\ dplan' = IF dplan.file \in fs THEN NoDelete ELSE dplan

Deleting(step) == job.kind = "delete" /\ job.step = step
JobEnds == job' = NoJob /\ mv' = NoMove

-----------------------------------------------------------------------------
(***************************************************************************)
(* PlanDelete and ApplyDelete (trash.Execute, trash.apply).                *)
(***************************************************************************)
\* Mutant: a trash folder that may be another entry's.
PlanDeleteReusing(f) ==
  /\ phase = "open" /\ row[f] # NoPath
  /\ \E s \in Slot, m \in Modes :
       dplan' = [file |-> f, src |-> row[f], slot |-> s, mode |-> m]
  /\ UNCHANGED <<diskVars, orgVars, rec, rplan>>

\* planFile: the path as the catalog has it, and a trash folder of its own.
PlanDelete(f) ==
  /\ phase = "open" /\ row[f] # NoPath
  /\ \E s \in Slot, m \in Modes :
       /\ RowsNaming(s) = {} /\ ~Here(s)
       /\ dplan' = [file |-> f, src |-> row[f], slot |-> s, mode |-> m]
  /\ UNCHANGED <<diskVars, orgVars, rec, rplan>>

CanApplyDelete(mode) ==
  /\ Idle /\ dplan.file # NoFile /\ dplan.mode = mode
  /\ "delete" \in PlansWait \/ dplan.src = row[dplan.file]

\* Nothing compares the plan's path with the row when it is applied.
StaleDelete == IF dplan.src = row[dplan.file] THEN {} ELSE {dplan.file}

\* PlanTrash reads the row as it stands; the move goes by the plan.
PlanTrash(e) ==
  /\ CanApplyDelete("trash")
  /\ rec[e].st = "none"
  /\ rec' = [rec EXCEPT ![e] = [st |-> "pending", file |-> dplan.file, linked |-> TRUE,
                                orig |-> row[dplan.file], slot |-> dplan.slot]]
  /\ job' = [NoJob EXCEPT !.kind = "delete", !.step = "move", !.file = dplan.file, !.id = e]
  /\ StartMove(dplan.src, dplan.slot)
  /\ strayed' = strayed \cup StaleDelete
  /\ UNCHANGED <<disk, row, other, gone, phase, saved, jr, oplan, dplan, rplan>>

TrashFile ==
  /\ Deleting("move") /\ mv.at = "done"
  /\ DropRows({job.file})
  /\ rec' = [Detached(rec, {job.file}) EXCEPT ![job.id].st = "active", ![job.id].orig = row[job.file]]
  /\ JobEnds
  /\ UNCHANGED <<disk, other, gone, phase, saved, strayed, rplan>>

\* The catalog write fails: the file is moved back.
TrashFileFails ==
  /\ DBFaults
  /\ Deleting("move") /\ mv.at = "done"
  /\ job' = [job EXCEPT !.step = "back"]
  /\ StartMove(mv.dst, mv.src)
  /\ UNCHANGED <<disk, row, other, gone, phase, saved, jr, oplan, strayed, trashVars>>

\* abort: the move did not happen, or it was taken back.
AbortTrash ==
  /\ \/ Deleting("move") /\ mv.at = "failed"
     \/ Deleting("back") /\ mv.at = "done"
  /\ \/ rec' = [rec EXCEPT ![job.id].st = "gone"]
     \/ DBFaults /\ UNCHANGED rec
  /\ JobEnds
  /\ UNCHANGED <<disk, row, other, gone, phase, saved, jr, oplan, strayed, dplan, rplan>>

\* Mutant: every failed move drops its record.
KeepPendingNot ==
  /\ \/ Deleting("move") /\ mv.at = "copyleft"
     \/ Deleting("back") /\ mv.at \in {"failed", "copyleft"}
  /\ rec' = [rec EXCEPT ![job.id].st = "gone"]
  /\ JobEnds
  /\ UNCHANGED <<disk, row, other, gone, phase, saved, jr, oplan, strayed, dplan, rplan>>

\* A copy left beside the file, or a file stranded: the pending row stays.
KeepPending ==
  /\ \/ Deleting("move") /\ mv.at = "copyleft"
     \/ Deleting("back") /\ mv.at \in {"failed", "copyleft"}
  /\ JobEnds
  /\ UNCHANGED <<disk, row, other, gone, phase, saved, jr, oplan, strayed, trashVars>>

\* A mode that bypasses the trash: remove what is at the plan's path, then detach.
RemoveFile ==
  /\ CanApplyDelete("permanent")
  /\ disk' = [disk EXCEPT ![dplan.src] = NoFile]
  /\ gone' = gone \cup LastCopies(dplan.src)
  /\ job' = [NoJob EXCEPT !.kind = "delete", !.step = "detach", !.file = dplan.file]
  /\ strayed' = strayed \cup StaleDelete
  /\ UNCHANGED <<row, other, mv, phase, saved, jr, oplan, trashVars>>

DetachFile ==
  /\ Deleting("detach")
  /\ \/ DropRows({job.file}) /\ rec' = Detached(rec, {job.file})
     \/ DBFaults /\ UNCHANGED <<row, jr, oplan, rec, dplan>>
  /\ JobEnds
  /\ UNCHANGED <<disk, other, gone, phase, saved, strayed, rplan>>

-----------------------------------------------------------------------------
(***************************************************************************)
(* RestoreTrash: the entry is read, then the lease is asked for.           *)
(***************************************************************************)
ReadEntry(e) ==
  /\ phase = "open" /\ rec[e].st = "active"
  /\ rplan' = e
  /\ UNCHANGED <<diskVars, orgVars, rec, dplan>>

Restoring(step) == job.kind = "restore" /\ job.step = step

\* trash.Restore: back already, moved back, or refused (both there, or neither).
Restore ==
  LET e == rplan IN
  /\ Idle /\ e # NoFile
  /\ \/ /\ Here(rec[e].orig) /\ ~Here(rec[e].slot)
        /\ job' = [NoJob EXCEPT !.kind = "restore", !.step = "scan", !.id = e]
        /\ UNCHANGED mv
     \/ /\ ~Here(rec[e].orig) /\ Here(rec[e].slot)
        /\ job' = [NoJob EXCEPT !.kind = "restore", !.step = "move", !.id = e]
        /\ StartMove(rec[e].slot, rec[e].orig)
     \/ /\ Here(rec[e].orig) <=> Here(rec[e].slot)
        /\ UNCHANGED <<job, mv>>
  /\ rplan' = NoFile
  /\ UNCHANGED <<disk, row, other, gone, phase, saved, jr, oplan, strayed, rec, dplan>>

RestoreMoved ==
  /\ Restoring("move") /\ mv.at = "done"
  /\ job' = [job EXCEPT !.step = "scan"]
  /\ mv' = NoMove
  /\ UNCHANGED <<disk, row, other, gone, phase, saved, jr, oplan, strayed, trashVars>>

\* The move, the re-scan or the journal write fails: the entry stays active.
RestoreFails ==
  /\ \/ Restoring("move") /\ mv.at \in {"failed", "copyleft"}
     \/ Restoring("scan") /\ IOFaults
     \/ Restoring("mark") /\ (DBFaults \/ rec[job.id].st # "active")
  /\ JobEnds
  /\ UNCHANGED <<disk, row, other, gone, phase, saved, jr, oplan, strayed, trashVars>>

RestoreScan ==
  /\ Restoring("scan")
  /\ ScanPath(rec[job.id].orig)
  /\ job' = [job EXCEPT !.step = "mark"]
  /\ UNCHANGED <<disk, mv, gone, phase, saved, jr, oplan, strayed, trashVars>>

MarkTrashRestored ==
  /\ Restoring("mark") /\ rec[job.id].st = "active"
  /\ rec' = [rec EXCEPT ![job.id].st = "restored"]
  /\ JobEnds
  /\ UNCHANGED <<disk, row, other, gone, phase, saved, jr, oplan, strayed, dplan, rplan>>

-----------------------------------------------------------------------------
(***************************************************************************)
(* PurgeTrash; EmptyTrash is one after the other.                          *)
(***************************************************************************)
Purging(step) == job.kind = "purge" /\ job.step = step

Purge(e) ==
  /\ Idle /\ rec[e].st = "active"
  /\ disk' = [disk EXCEPT ![rec[e].slot] = NoFile]
  /\ gone' = gone \cup LastCopies(rec[e].slot)
  /\ job' = [NoJob EXCEPT !.kind = "purge", !.step = "row", !.id = e]
  /\ UNCHANGED <<row, other, mv, phase, saved, jr, oplan, strayed, trashVars>>

DeleteTrashRow ==
  /\ Purging("row")
  /\ \/ /\ rec' = [rec EXCEPT ![job.id].st = "gone"]
        /\ job' = [job EXCEPT !.step = "sweep"]
     \/ DBFaults /\ job' = NoJob /\ UNCHANGED rec
  /\ UNCHANGED <<diskVars, phase, saved, jr, oplan, strayed, dplan, rplan>>

\* Sweep: the folders of restored entries go, unless an active entry has them.
Swept == {s \in Slot :
  /\ \E e \in Pid : rec[e].slot = s /\ rec[e].st = "restored"
  /\ \A e \in Pid : rec[e].slot = s => rec[e].st # "active"}

Sweep ==
  /\ Purging("sweep")
  /\ \/ disk' = [p \in Place |-> IF p \in Swept THEN NoFile ELSE disk[p]]
     \/ IOFaults /\ UNCHANGED disk
  /\ job' = NoJob
  /\ UNCHANGED <<row, other, mv, gone, phase, saved, jr, oplan, strayed, trashVars>>

-----------------------------------------------------------------------------
(***************************************************************************)
(* recoverTrash: the disk first, then one transaction; and what ends a     *)
(* store: a crash, or the lock handed over between two jobs.               *)
(***************************************************************************)
Pending == {e \in Pid : rec[e].st = "pending"}
InBoth(e) == Here(rec[e].orig) /\ Here(rec[e].slot)
Trashed(e) == Here(rec[e].slot) /\ ~Here(rec[e].orig)

\* Mutant: the file at its path goes instead of the copy in the trash.
SettleTrashOriginal(e) ==
  /\ phase = "trash" /\ e \in Pending
  /\ InBoth(e) /\ CopyOfStart(rec[e].orig, rec[e].slot)
  /\ disk' = [disk EXCEPT ![rec[e].orig] = NoFile]
  /\ UNCHANGED <<row, other, mv, gone, orgVars, trashVars>>

SettleTrashCopy(e) ==
  /\ phase = "trash" /\ e \in Pending
  /\ InBoth(e) /\ CopyOfStart(rec[e].orig, rec[e].slot)
  /\ disk' = [disk EXCEPT ![rec[e].slot] = NoFile]
  /\ UNCHANGED <<row, other, mv, gone, orgVars, trashVars>>

\* Pairs that differ, or that cannot be read, stay pending.
RecoverTrash ==
  LET done == {e \in Pending : Trashed(e)}
      dropped == {e \in Pending : ~Here(rec[e].slot)}
      files == {f \in File : \E e \in done : rec[e].linked /\ rec[e].file = f}
  IN
  /\ phase = "trash"
  /\ \A e \in Pending : InBoth(e) /\ CopyOfStart(rec[e].orig, rec[e].slot) => IOFaults
  /\ DropRows(files)
  /\ rec' = [e \in Pid |->
               LET r == Detached(rec, files)[e] IN
               IF e \in done THEN [r EXCEPT !.st = "active"]
               ELSE IF e \in dropped THEN [r EXCEPT !.st = "gone"] ELSE r]
  /\ phase' = "open"
  /\ UNCHANGED <<disk, other, mv, gone, saved, job, strayed, rplan>>

\* The root does not answer: its rows wait for another open.
TrashRootDown ==
  /\ IOFaults
  /\ phase = "trash"
  /\ phase' = "open"
  /\ UNCHANGED <<diskVars, saved, job, jr, oplan, strayed, trashVars>>

Crash ==
  /\ phase \in {"trash", "open"}
  /\ phase' = "down"
  /\ JobEnds
  /\ oplan' = NoPlan /\ dplan' = NoDelete /\ rplan' = NoFile
  /\ strayed' = IF Deleting("detach") THEN strayed \cup {job.file} ELSE strayed
  /\ UNCHANGED <<disk, row, other, gone, saved, jr, rec>>

HandOver ==
  /\ Idle
  /\ phase' = "down"
  /\ UNCHANGED <<diskVars, saved, job, jr, oplan, strayed, trashVars>>

TrashStep ==
  \/ TrashFile \/ TrashFileFails \/ AbortTrash \/ KeepPending \/ RemoveFile \/ DetachFile
  \/ Restore \/ RestoreMoved \/ RestoreFails \/ RestoreScan \/ MarkTrashRestored
  \/ DeleteTrashRow \/ Sweep \/ RecoverTrash \/ TrashRootDown \/ Crash \/ HandOver
  \/ \E f \in File : PlanDelete(f)
  \/ \E e \in Pid : PlanTrash(e) \/ ReadEntry(e) \/ Purge(e) \/ SettleTrashCopy(e)

Next ==
  \/ (MoveStep \/ UserStep) /\ UNCHANGED <<orgVars, trashVars>>
  \/ OrgStep /\ UNCHANGED trashVars
  \/ TrashStep

Spec == Init /\ [][Next]_vars

-----------------------------------------------------------------------------
JobKinds == {"none", "organize", "delete", "restore", "purge"}
JobSteps == {"none", "pick", "apply", "park", "move", "back", "detach", "scan", "mark", "row", "sweep"}
AnyPath == Path \cup {NoPath}
JournalRows == [st : {"free", "planned"}, file : File \cup {NoFile}, linked : BOOLEAN, src : AnyPath, dst : AnyPath]
RecRows == [st : {"none", "pending", "active", "restored", "gone"}, file : File \cup {NoFile},
            linked : BOOLEAN, orig : AnyPath, slot : Slot \cup {NoPath}]

Jobs == [kind : JobKinds, step : JobSteps, file : File \cup {NoFile}, id : Jid \cup Pid \cup {NoFile},
         todo : SUBSET File, src : [File -> AnyPath], dst : [File -> AnyPath]]

RowsTypeOK ==
  /\ phase \in {"down", "moves", "trash", "open"}
  /\ saved \in [row : [File -> AnyPath], jr : [Jid -> JournalRows]]
  /\ job \in Jobs
  /\ jr \in [Jid -> JournalRows]
  /\ oplan \in [src : [File -> AnyPath], dst : [File -> AnyPath]]
  /\ rec \in [Pid -> RecRows]
  /\ dplan \in [file : File \cup {NoFile}, src : AnyPath, slot : Slot \cup {NoPath}, mode : {"trash", "permanent"}]
  /\ rplan \in Pid \cup {NoFile}

\* The shapes of the tree, the catalog's rows, the running job and the plans.
TypeOK == FilesTypeOK /\ RowsTypeOK

StrayedOK == strayed \subseteq File

-----------------------------------------------------------------------------
(***************************************************************************)
(* The inductive invariant: what a move in progress, the job that runs it, *)
(* the rows and the plans have to do with each other.                      *)
(***************************************************************************)
Moving ==
  \/ job.kind = "organize" /\ job.step \in {"apply", "park"}
  \/ job.kind = "delete" /\ job.step \in {"move", "back"}
  \/ job.kind = "restore" /\ job.step = "move"

\* What a move has done so far; nothing but its own steps and the user's change it.
MoveInv ==
  /\ mv.at # "none" <=> Moving
  /\ mv.at # "none" => {mv.src, mv.dst} \subseteq Place /\ mv.src # mv.dst
  /\ mv.at = "checked" /\ (~UserRaces \/ mv.dst \in Slot) => ~Here(mv.dst)
  /\ mv.at = "copying" => mv.data # NoFile /\ disk[mv.dst] = Part(mv.data[1]) /\ disk[mv.src] \in {NoFile, mv.data}
  /\ mv.at = "copied" => mv.data # NoFile /\ disk[mv.dst] = mv.data /\ disk[mv.src] \in {NoFile, mv.data}
  /\ mv.at = "stuck" => mv.data # NoFile /\ disk[mv.dst] = mv.data /\ disk[mv.src] = mv.data
  /\ mv.at = "done" /\ mv.src \in Slot => ~Here(mv.src)

\* Organize moves library files between different paths, under journal rows that say so.
OrganizeInv ==
  /\ job.kind = "organize" => \A f \in job.todo : {job.src[f], job.dst[f]} \subseteq Path /\ job.src[f] # job.dst[f]
  /\ job.kind = "organize" /\ Moving =>
       /\ job.file \in job.todo /\ job.id \in Jid
       /\ {mv.src, mv.dst} \subseteq Path
       /\ job.step = "park" => mv.dst # job.dst[job.file]
  /\ \A j \in Jid : jr[j].st = "planned" =>
       {jr[j].src, jr[j].dst} \subseteq Path /\ jr[j].src # jr[j].dst /\ jr[j].file \in File
  /\ \A j \in Jid : saved.jr[j].st = "planned" =>
       /\ {saved.jr[j].src, saved.jr[j].dst} \subseteq Path /\ saved.jr[j].src # saved.jr[j].dst
       /\ saved.jr[j].file \in File
  /\ \A j \in Jid : jr[j].st = "planned" /\ jr[j].linked => row[jr[j].file] # NoPath
  /\ phase = "moves" => \A j \in Jid : saved.jr[j].st = "planned" /\ saved.jr[j].linked => row[saved.jr[j].file] # NoPath
  /\ phase = "moves" => \A f \in File : (saved.row[f] = NoPath) <=> (row[f] = NoPath)

Naming(s) == {e \in Pid : rec[e].slot = s /\ rec[e].st \in {"pending", "active"}}

\* The job at work on a trash entry, and where the entry's file is meanwhile.
TrashJobInv ==
  /\ phase # "open" => job.kind = "none"
  /\ job.kind = "delete" => job.file \in File
  /\ Deleting("move") \/ Deleting("back") =>
       /\ job.id \in Pid /\ rec[job.id].st = "pending" /\ rec[job.id].file = job.file
       /\ \A e \in Pid : rec[e].slot = rec[job.id].slot => rec[e].st \in {"pending", "gone"}
       /\ row[job.file] # NoPath
  /\ Deleting("move") =>
       /\ mv.src \in Path /\ mv.dst = rec[job.id].slot
       /\ mv.at \in {"ready", "failed"} =>
            \A f \in File : disk[mv.dst] = Whole(f) => Naming(mv.dst) \ {job.id} # {}
  /\ Deleting("back") => mv.src = rec[job.id].slot /\ mv.dst \in Path
  /\ job.kind = "restore" => job.id \in Pid /\ rec[job.id].st \notin {"none", "pending"}
  /\ Restoring("move") => mv.src = rec[job.id].slot /\ mv.dst = rec[job.id].orig
  /\ Restoring("scan") \/ Restoring("mark") => ~Here(rec[job.id].slot)
  /\ job.kind = "purge" => job.id \in Pid /\ rec[job.id].st # "none"
  /\ Purging("row") => ~Here(rec[job.id].slot)

\* Rows name real places; a restored entry's folder stays empty; a plan's folder is its own.
RecInv ==
  /\ \A e \in Pid : rec[e].st # "none" => rec[e].orig \in Path /\ rec[e].slot \in Slot /\ rec[e].file \in File
  /\ \A e \in Pid : rec[e].st = "none" => rec[e] = NoRec
  /\ \A e \in Pid : rec[e].st = "restored" => ~Here(rec[e].slot)
  /\ rplan # NoFile => rec[rplan].st \notin {"none", "pending"}
  /\ dplan.file # NoFile =>
       /\ dplan.src \in Path /\ dplan.slot \in Slot /\ row[dplan.file] # NoPath
       /\ \A e \in Pid : rec[e].slot = dplan.slot =>
            rec[e].st = "gone" \/ (rec[e].st = "pending" /\ rec[e].linked /\ rec[e].file = dplan.file)

TrashInv == TypeOK /\ MoveInv /\ OrganizeInv /\ TrashJobInv /\ RecInv

\* A file's last whole copy goes only by a request that removes what stands at
\* its place (a user's, a permanent delete's, a purge's): never by a move, a
\* rollback, a sweep or a recovery, wherever it is cut off or fails.
NoBytesLost == \A f \in File : Held(f) \/ f \in gone

\* A whole file in a trash folder is named by a pending or an active row of the
\* catalog, so the next open settles it or a restore can bring it back.
TrashRecorded == \A s \in Slot, f \in File : disk[s] = Whole(f) =>
  \E e \in Pid : rec[e].slot = s /\ rec[e].st \in {"pending", "active"}

\* With no job running and no move to settle, a row's path holds its file, until a
\* plan is applied to a path its file has left or a delete for good is cut off
\* between the removal and the row (trash.go:664).
CatalogMatchesDisk ==
  strayed = {} /\ Idle /\ Pending = {} /\ (\A j \in Jid : jr[j].st = "free") =>
    \A f \in File : row[f] # NoPath => disk[row[f]] = Whole(f)

\* A delete or a purge makes an end only of the file it names.
DeletesWhatItNames == \A f \in gone' \ gone :
  /\ job'.kind = "delete" => job'.file = f
  /\ job'.kind = "purge" => rec[job'.id].file = f

\* Recovery on open never takes a file that stands at its row's path out of the
\* catalog, nor points its row elsewhere.
RecoveryKeepsRows == \A f \in File :
  /\ phase \in {"moves", "trash"} /\ phase' # "down"
  /\ row[f] # NoPath /\ disk[row[f]] = Whole(f)
  => row'[f] # NoPath /\ disk'[row'[f]] = Whole(f)

\* Until then a delete, to the trash or for good, and a purge end only the file they
\* name, though plans wait while others move files, and recovery takes no row from a
\* file that stands (trash.go, organize.go).
FilesNamed == [][strayed' = {} => DeletesWhatItNames /\ RecoveryKeepsRows]_vars

\* The state without the history variable: no step's guard reads `strayed`, nor do
\* NoBytesLost and TrashRecorded.
WithoutHistory == <<diskVars, phase, saved, job, jr, oplan, trashVars>>

\* Files, paths, trash folders, pids and jobs are values nothing tells apart.
Symmetry == Permutations(File) \cup Permutations(Path) \cup Permutations(Slot)
              \cup Permutations(Pid) \cup Permutations(Jid)
=============================================================================
