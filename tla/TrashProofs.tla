---------------------------- MODULE TrashProofs ----------------------------
(***************************************************************************)
(* Theorems of Trash, for any files, paths, trash folders and pids: jobs,  *)
(* journal and trash rows agree and no file is lost, whatever fails; and   *)
(* where only the process may die, catalog and disk agree.                 *)
(***************************************************************************)
EXTENDS Trash, TLAPS

\* Bytes are nothing, a whole file or a part of one.
LEMMA BytesFacts ==
  /\ \A b \in Bytes : b # NoFile => b[1] \in File /\ (b = Whole(b[1]) \/ b = Part(b[1]))
  /\ \A f \in File : {Whole(f), Part(f)} \subseteq Bytes /\ Whole(f) # NoFile /\ Part(f) # NoFile
  /\ \A f, g \in File : Whole(f) # Part(g) /\ (Whole(f) = Whole(g) => f = g)
  /\ \A f \in File : Whole(f)[1] = f /\ Part(f)[1] = f
  /\ NoFile \in Bytes
BY FileMovesAssumption DEF Bytes, Whole, Part

\* A place is a library path or a trash folder, and neither is NoPath.
LEMMA PlaceFacts ==
  /\ \A p \in Path : p \in Place /\ p \notin Slot /\ p # NoPath
  /\ \A s \in Slot : s \in Place /\ s \notin Path /\ s # NoPath
BY FileMovesAssumption DEF Place

\* What each step of fsx.Move does to the two places of the move, and to the bytes in them.
MoveEffect ==
  /\ FilesTypeOK'
  /\ mv.at # "none" /\ mv'.at \notin {"none", "ready"} /\ mv'.src = mv.src /\ mv'.dst = mv.dst
  /\ \A p \in Place \ {mv.src, mv.dst} : disk'[p] = disk[p]
  /\ disk'[mv.src] \in {disk[mv.src], NoFile}
  /\ mv'.at = "failed" =>
       (mv.at = "ready" /\ disk' = disk) \/ (mv.dst \in Slot => \A f \in File : disk'[mv.dst] # Whole(f))
  /\ row' = row /\ other' = other /\ gone' = gone

\* What a step of a move can do to the tree.
LEMMA MoveStepEffect ==
  ASSUME FilesTypeOK, MoveInv, MoveStep
  PROVE  MoveEffect
<1> USE BytesFacts, PlaceFacts DEF FilesTypeOK, MoveSteps, MoveInv, MoveEffect, Here
<1>1. CASE MoveRefused  BY <1>1 DEF MoveRefused
<1>2. CASE MoveChecked  BY <1>2 DEF MoveChecked
<1>3. CASE MoveFails  BY <1>3 DEF MoveFails
<1>4. CASE MoveRename
  <2>1. mv.src \in Place /\ mv.dst \in Place /\ mv.src # mv.dst /\ disk[mv.src] \in Bytes  BY <1>4 DEF MoveRename
  <2>2. disk' \in [Place -> Bytes] /\ disk'[mv.src] = NoFile
    /\ \A p \in Place \ {mv.src, mv.dst} : disk'[p] = disk[p]
    BY <1>4, <2>1 DEF MoveRename
  <2> QED  BY <1>4, <2>1, <2>2 DEF MoveRename
<1>5. CASE CopyStarts
  <2>1. CASE Here(mv.dst)  BY <1>5, <2>1 DEF CopyStarts
  <2>2. CASE ~Here(mv.dst)
    <3>1. mv.src \in Place /\ mv.dst \in Place /\ mv.src # mv.dst /\ disk[mv.src][1] \in File  BY <1>5 DEF CopyStarts
    <3>2. Part(disk[mv.src][1]) \in Bytes  BY <3>1
    <3>3. disk' = [disk EXCEPT ![mv.dst] = Part(disk[mv.src][1])] /\ mv' = [mv EXCEPT !.at = "copying", !.data = disk[mv.src]]
      BY <1>5, <2>2 DEF CopyStarts
    <3>4. disk' \in [Place -> Bytes] /\ disk'[mv.src] = disk[mv.src]
      /\ \A p \in Place \ {mv.src, mv.dst} : disk'[p] = disk[p]
      BY <3>1, <3>2, <3>3
    <3> QED  BY <1>5, <3>1, <3>3, <3>4 DEF CopyStarts
  <2> QED  BY <2>1, <2>2
<1>6. CASE CopyEnds  BY <1>6 DEF CopyEnds
<1>7. CASE CopyFails
  <2>1. CASE disk' = disk  BY <1>7, <2>1 DEF CopyFails
  <2>2. CASE disk' = [disk EXCEPT ![mv.dst] = NoFile]  BY <1>7, <2>2 DEF CopyFails
  <2> QED  BY <1>7, <2>1, <2>2 DEF CopyFails
<1>8. CASE SourceRemoved  BY <1>8 DEF SourceRemoved
<1>9. CASE SourceStays  BY <1>9 DEF SourceStays
<1>10. CASE CopyDropped  BY <1>10 DEF CopyDropped
<1>11. CASE CopyLeft  BY <1>11 DEF CopyLeft
<1> QED  BY <1>1, <1>2, <1>3, <1>4, <1>5, <1>6, <1>7, <1>8, <1>9, <1>10, <1>11 DEF MoveStep

\* The inductive invariant: the trash's own and that its whole files are recorded.
IInv == TrashInv /\ TrashRecorded

\* Each step of a move leaves the invariant of moves.
LEMMA MoveStepMoveInv ==
  ASSUME FilesTypeOK, MoveInv, MoveStep, UNCHANGED job
  PROVE  MoveInv'
<1> USE BytesFacts, PlaceFacts DEF FilesTypeOK, MoveSteps, MoveInv, Here
<1>0. MoveEffect  BY MoveStepEffect
<1>m. Moving' = Moving  BY DEF Moving
<1>1. CASE MoveRefused  BY <1>1, <1>m DEF MoveRefused
<1>2. CASE MoveChecked  BY <1>2, <1>m DEF MoveChecked
<1>3. CASE MoveFails  BY <1>3, <1>m DEF MoveFails
<1>4. CASE MoveRename
  <2>1. mv' = [mv EXCEPT !.at = "done"] /\ disk'[mv.src] = NoFile  BY <1>4 DEF MoveRename
  <2> QED  BY <1>4, <1>m, <2>1 DEF MoveRename
<1>5. CASE CopyStarts
  <2>1. CASE Here(mv.dst)  BY <1>5, <1>m, <2>1 DEF CopyStarts
  <2>2. CASE ~Here(mv.dst)
    <3>1. disk' = [disk EXCEPT ![mv.dst] = Part(disk[mv.src][1])] /\ mv' = [mv EXCEPT !.at = "copying", !.data = disk[mv.src]]
      BY <1>5, <2>2 DEF CopyStarts
    <3>2. disk'[mv.dst] = Part(disk[mv.src][1]) /\ disk'[mv.src] = disk[mv.src] /\ disk[mv.src] # NoFile
      BY <1>5, <3>1 DEF CopyStarts
    <3> QED  BY <1>5, <1>m, <3>1, <3>2 DEF CopyStarts
  <2> QED  BY <2>1, <2>2
<1>6. CASE CopyEnds  BY <1>6, <1>m DEF CopyEnds
<1>7. CASE CopyFails  BY <1>7, <1>m DEF CopyFails
<1>8. CASE SourceRemoved
  <2>1. mv' = [mv EXCEPT !.at = "done"] /\ disk'[mv.src] = NoFile  BY <1>8 DEF SourceRemoved
  <2> QED  BY <1>8, <1>m, <2>1 DEF SourceRemoved
<1>9. CASE SourceStays  BY <1>9, <1>m DEF SourceStays
<1>10. CASE CopyDropped  BY <1>10, <1>m DEF CopyDropped
<1>11. CASE CopyLeft  BY <1>11, <1>m DEF CopyLeft
<1> QED  BY <1>1, <1>2, <1>3, <1>4, <1>5, <1>6, <1>7, <1>8, <1>9, <1>10, <1>11 DEF MoveStep

\* A step of a move leaves types, moves and trash rows in order.
LEMMA MoveStepSafe ==
  ASSUME IInv, MoveStep, UNCHANGED <<orgVars, trashVars>>
  PROVE  IInv'
<1> USE DEF IInv, TrashInv, TypeOK
<1>0. FilesTypeOK /\ RowsTypeOK /\ MoveInv /\ OrganizeInv /\ TrashJobInv /\ RecInv /\ TrashRecorded  OBVIOUS
<1>1. MoveEffect  BY <1>0, MoveStepEffect
<1>2. job' = job /\ phase' = phase /\ saved' = saved /\ jr' = jr /\ oplan' = oplan
      /\ rec' = rec /\ dplan' = dplan /\ rplan' = rplan /\ row' = row
  BY <1>1 DEF orgVars, trashVars, MoveEffect
<1>3. FilesTypeOK' /\ RowsTypeOK'  BY <1>0, <1>1, <1>2 DEF MoveEffect, RowsTypeOK
<1>4. MoveInv'  BY <1>0, <1>2, MoveStepMoveInv
<1>5. OrganizeInv'  BY <1>0, <1>1, <1>2 DEF OrganizeInv, Moving, MoveEffect
\* A move into a trash folder is the delete's; any other leaves trash folders as they are, or empties one.
<1>6. \A s \in Slot : s = mv.dst => Deleting("move") /\ s = rec[job.id].slot
  BY <1>0, <1>1, PlaceFacts DEF MoveEffect, MoveInv, Moving, OrganizeInv, TrashJobInv, RecInv, Deleting, Restoring
<1>7. \A s \in Slot : disk'[s] \in {disk[s], NoFile} \/ (s = mv.dst /\ Deleting("move") /\ s = rec[job.id].slot)
  BY <1>0, <1>1, <1>6, PlaceFacts DEF MoveEffect
<1>8. RecInv'
  BY <1>0, <1>1, <1>2, <1>3, <1>7, PlaceFacts DEF RecInv, Here, TrashJobInv
<1>9. TrashRecorded'
  BY <1>0, <1>2, <1>7, BytesFacts DEF TrashRecorded, TrashJobInv
<1>10. TrashJobInv'
  <2>1. Deleting("move")' => (mv.at \in {"ready", "failed"} =>
            \A f \in File : disk[mv.dst] = Whole(f) => Naming(mv.dst) \ {job.id} # {})'
    BY <1>0, <1>1, <1>2, <1>6 DEF TrashJobInv, MoveEffect, Deleting, Naming, RecInv
  <2>2. (Restoring("scan") \/ Restoring("mark") => ~Here(rec[job.id].slot))'
    BY <1>0, <1>1, <1>2 DEF MoveEffect, MoveInv, Moving, Restoring
  <2>3. (Purging("row") => ~Here(rec[job.id].slot))'
    BY <1>0, <1>1, <1>2 DEF MoveEffect, MoveInv, Moving, Purging
  <2> QED  BY <1>0, <1>1, <1>2, <2>1, <2>2, <2>3 DEF TrashJobInv, MoveEffect, Deleting, Restoring, Purging
<1> QED  BY <1>3, <1>4, <1>5, <1>8, <1>9, <1>10

\* What the user does on library paths leaves the trash folders and a running move as they are.
LEMMA UserStepSafe ==
  ASSUME IInv, UserStep, UNCHANGED <<orgVars, trashVars>>
  PROVE  IInv'
<1> USE DEF IInv, TrashInv, TypeOK
<1>0. FilesTypeOK /\ RowsTypeOK /\ MoveInv /\ OrganizeInv /\ TrashJobInv /\ RecInv /\ TrashRecorded  OBVIOUS
<1>1. FilesTypeOK' /\ MoveInv' /\ row' = row /\ mv' = mv /\ \A s \in Slot : disk'[s] = disk[s]
  <2>m. Moving' = Moving  BY DEF Moving, orgVars
  <2>p. mv.at # "none" => mv.src \in Place /\ mv.dst \in Place  BY <1>0 DEF MoveInv
  \* Enough for a step that changes library paths alone.
  <2>s. ASSUME disk' \in [Place -> Bytes], gone' \subseteq File, row' = row, other' = other, mv' = mv,
               \A s \in Slot : disk'[s] = disk[s],
               mv.at \in {"copying", "copied", "stuck"} => disk'[mv.dst] = disk[mv.dst],
               mv.at \in {"copying", "copied"} => disk'[mv.src] \in {disk[mv.src], NoFile},
               mv.at = "stuck" => disk'[mv.src] = disk[mv.src],
               mv.at = "checked" /\ (~UserRaces \/ mv.dst \in Slot) => disk'[mv.dst] = disk[mv.dst]
        PROVE  FilesTypeOK' /\ MoveInv' /\ row' = row /\ mv' = mv /\ \A s \in Slot : disk'[s] = disk[s]
    <3>1. FilesTypeOK'  BY <1>0, <2>s DEF FilesTypeOK
    <3>2. MoveInv'  BY <1>0, <2>s, <2>m, <2>p DEF MoveInv, Here
    <3> QED  BY <2>s, <3>1, <3>2
  <2> DEFINE Busy == mv.at \in {"copying", "copied", "stuck"}
  <2>h. Busy => disk[mv.dst] # NoFile  BY <1>0, BytesFacts DEF MoveInv, FilesTypeOK
  <2>t. disk \in [Place -> Bytes] /\ gone \subseteq File /\ NoFile \in Bytes  BY <1>0, BytesFacts DEF FilesTypeOK
  <2>1. CASE \E p \in Path : UserRemoves(p)
    <3> PICK p \in Path : UserRemoves(p)  BY <2>1
    <3>1. disk' = [disk EXCEPT ![p] = NoFile] /\ row' = row /\ other' = other /\ mv' = mv  BY DEF UserRemoves
    <3>2. gone' \subseteq File  BY <2>t DEF UserRemoves, LastCopies
    <3>3. mv.at \in {"checked", "copying", "copied", "stuck"} => p # mv.dst /\ (p = mv.src => mv.at \in {"copying", "copied"})
      BY <1>0 DEF UserRemoves, Untouched, MoveInv
    <3>4. disk' \in [Place -> Bytes] /\ disk'[p] = NoFile /\ \A q \in Place \ {p} : disk'[q] = disk[q]
      BY <2>t, <3>1, PlaceFacts
    <3> QED  BY <2>s, <2>p, <3>1, <3>2, <3>3, <3>4, PlaceFacts
  <2>2. CASE \E p, q \in Path : UserMoves(p, q)
    <3> PICK p \in Path, q \in Path : UserMoves(p, q)  BY <2>2
    <3>1. disk' = [disk EXCEPT ![q] = disk[p], ![p] = NoFile] /\ row' = row /\ other' = other /\ mv' = mv /\ gone' = gone
      BY DEF UserMoves
    <3>2. Busy => {p, q} \cap {mv.src, mv.dst} = {}  BY <2>h DEF UserMoves, Untouched, Here
    <3>3. mv.at = "checked" /\ (~UserRaces \/ mv.dst \in Slot) => mv.dst \notin {p, q}
      BY PlaceFacts DEF UserMoves, Untouched
    <3>4. disk' \in [Place -> Bytes] /\ \A r \in Place \ {p, q} : disk'[r] = disk[r]  BY <2>t, <3>1, PlaceFacts
    <3> QED  BY <2>s, <2>p, <2>t, <3>1, <3>2, <3>3, <3>4, PlaceFacts
  <2>3. CASE \E s \in Slot, q \in Path : UserCopies(s, q)
    <3> PICK s \in Slot, q \in Path : UserCopies(s, q)  BY <2>3
    <3>1. disk' = [disk EXCEPT ![q] = disk[s]] /\ row' = row /\ other' = other /\ mv' = mv /\ gone' = gone
      BY DEF UserCopies
    <3>2. Busy \/ mv.at = "checked" => q \notin {mv.src, mv.dst}  BY DEF UserCopies, Untouched
    <3>4. disk' \in [Place -> Bytes] /\ \A r \in Place \ {q} : disk'[r] = disk[r]  BY <2>t, <3>1, PlaceFacts
    <3> QED  BY <2>s, <2>p, <2>t, <3>1, <3>2, <3>4, PlaceFacts
  <2> QED  BY <2>1, <2>2, <2>3 DEF UserStep
<1>2. job' = job /\ phase' = phase /\ saved' = saved /\ jr' = jr /\ oplan' = oplan
      /\ rec' = rec /\ dplan' = dplan /\ rplan' = rplan
  BY DEF orgVars, trashVars
<1>3. RowsTypeOK'  BY <1>0, <1>2 DEF RowsTypeOK
<1>4. OrganizeInv'  BY <1>0, <1>1, <1>2 DEF OrganizeInv, Moving
<1>5. RecInv'  BY <1>0, <1>1, <1>2 DEF RecInv, Here
<1>6. TrashRecorded'  BY <1>0, <1>1, <1>2 DEF TrashRecorded
<1>7. TrashJobInv'
  BY <1>0, <1>1, <1>2 DEF TrashJobInv, RecInv, Deleting, Restoring, Purging, Here, Naming
<1> QED  BY <1>1, <1>3, <1>4, <1>5, <1>6, <1>7

-----------------------------------------------------------------------------
\* What a step of organize leaves of the trash: its folders, the rows it may lean on, its jobs.
OrgEffect ==
  /\ \A s \in Slot : disk'[s] = disk[s]
  /\ \A f \in File : row[f] # NoPath => row'[f] # NoPath
  /\ phase' # "open" => job'.kind = "none"
  /\ job'.kind \in {"none", "organize"} \/ (job' = job /\ mv' = mv)

\* A step of organize that keeps its own rows in order keeps those of the trash.
LEMMA OrgEffectSafe ==
  ASSUME IInv, OrgEffect, UNCHANGED trashVars
  PROVE  TrashJobInv' /\ RecInv' /\ TrashRecorded'
<1> USE DEF IInv, TrashInv, OrgEffect, trashVars
<1>1. RecInv'  BY DEF RecInv, Here, TypeOK, RowsTypeOK
<1>2. TrashRecorded'  BY DEF TrashRecorded
<1>3. CASE job'.kind \in {"none", "organize"}
  BY <1>1, <1>2, <1>3 DEF TrashJobInv, Deleting, Restoring, Purging
<1>4. CASE job' = job /\ mv' = mv
  <2>1. TrashJobInv'
    BY <1>4 DEF TrashJobInv, RecInv, Deleting, Restoring, Purging, Here, Naming
  <2> QED  BY <1>1, <1>2, <2>1
<1> QED  BY <1>3, <1>4

\* A move that starts, and one that is over.
LEMMA MoveInvStartsEnds ==
  ASSUME \/ mv'.at = "none" /\ ~Moving'
         \/ mv'.at = "ready" /\ Moving' /\ {mv'.src, mv'.dst} \subseteq Place /\ mv'.src # mv'.dst
  PROVE  MoveInv'
BY DEF MoveInv

\* Where no job moves a file there is no move.
LEMMA NotMoving ==
  ASSUME MoveInv, ~Moving
  PROVE  mv.at = "none"
BY DEF MoveInv

\* The start of one move of organize: its journal row is written, or the file is passed over.
LEMMA PlanMoveSafe ==
  ASSUME IInv, job.kind = "organize", job.step = "pick",
         NEW f \in job.todo, NEW dst \in Path, NEW step \in {"apply", "park"},
         dst # job.src[f], step = "park" => dst # job.dst[f],
         PlanMove(f, dst, step), UNCHANGED trashVars
  PROVE  FilesTypeOK' /\ RowsTypeOK' /\ MoveInv' /\ OrganizeInv' /\ OrgEffect
<1> USE DEF IInv, TrashInv, TypeOK
<1>0. FilesTypeOK /\ RowsTypeOK /\ MoveInv /\ OrganizeInv /\ TrashJobInv  OBVIOUS
<1>1. f \in File /\ job.src[f] \in Path /\ phase = "open" /\ mv.at = "none"
  BY <1>0, NotMoving DEF RowsTypeOK, Jobs, OrganizeInv, TrashJobInv, Moving
<1>2. CASE /\ row[f] # NoPath
           /\ \E j \in Jid :
                /\ jr[j].st = "free"
                /\ jr' = [jr EXCEPT ![j] = [st |-> "planned", file |-> f, linked |-> TRUE,
                                            src |-> job.src[f], dst |-> dst]]
                /\ job' = [job EXCEPT !.step = step, !.file = f, !.id = j]
           /\ StartMove(job.src[f], dst)
           /\ UNCHANGED <<disk, row, other, gone, phase, saved, oplan>>
  <2>0. PICK j \in Jid : /\ jr[j].st = "free"
                         /\ jr' = [jr EXCEPT ![j] = [st |-> "planned", file |-> f, linked |-> TRUE,
                                            src |-> job.src[f], dst |-> dst]]
                         /\ job' = [job EXCEPT !.step = step, !.file = f, !.id = j]
    BY <1>2
  <2>1. mv' = [at |-> "ready", src |-> job.src[f], dst |-> dst, data |-> NoFile]  BY <1>2 DEF StartMove
  <2>2. FilesTypeOK'  BY <1>0, <1>1, <1>2, <2>1, BytesFacts, PlaceFacts DEF FilesTypeOK, MoveSteps
  <2>3. RowsTypeOK'
    <3>1. jr' \in [Jid -> JournalRows]
      <4>1. [st |-> "planned", file |-> f, linked |-> TRUE, src |-> job.src[f], dst |-> dst] \in JournalRows
        BY <1>1 DEF JournalRows, AnyPath
      <4> QED  BY <1>0, <2>0, <4>1 DEF RowsTypeOK
    <3>2. job' \in Jobs
      BY <1>0, <1>1, <2>0 DEF RowsTypeOK, Jobs, JobSteps
    <3> QED  BY <1>0, <1>2, <3>1, <3>2 DEF RowsTypeOK, trashVars
  <2>4. MoveInv'
    <3>1. Moving'  BY <1>0, <2>0 DEF Moving, RowsTypeOK, Jobs
    <3> QED  BY <1>1, <2>1, <3>1, MoveInvStartsEnds, PlaceFacts
  <2>5. OrganizeInv'
    <3>1. job'.kind = "organize" /\ job'.step = step /\ job'.file = f /\ job'.id = j
          /\ job'.todo = job.todo /\ job'.src = job.src /\ job'.dst = job.dst
      BY <1>0, <2>0 DEF RowsTypeOK, Jobs
    <3>2. \A k \in Jid : jr'[k] = IF k = j THEN [st |-> "planned", file |-> f, linked |-> TRUE,
                                            src |-> job.src[f], dst |-> dst] ELSE jr[k]
      BY <1>0, <2>0 DEF RowsTypeOK
    <3> QED  BY <1>0, <1>1, <1>2, <2>1, <3>1, <3>2 DEF OrganizeInv
  <2>6. OrgEffect  BY <1>0, <1>1, <1>2, <2>0 DEF OrgEffect, RowsTypeOK, Jobs
  <2> QED  BY <2>2, <2>3, <2>4, <2>5, <2>6
<1>3. CASE job' = Dropped(f) /\ UNCHANGED <<diskVars, phase, saved, jr, oplan>>
  <2>1. job' = [job EXCEPT !.step = "pick", !.file = NoFile, !.id = NoFile, !.todo = @ \ {f}]  BY <1>3 DEF Dropped
  <2>2. FilesTypeOK'  BY <1>0, <1>3 DEF FilesTypeOK, diskVars
  <2>3. RowsTypeOK'  BY <1>0, <1>3, <2>1, ZenonT(60) DEF RowsTypeOK, Jobs, JobSteps, trashVars
  <2>4. MoveInv'
    <3>1. ~Moving'  BY <1>0, <2>1 DEF Moving, RowsTypeOK, Jobs
    <3> QED  BY <1>1, <1>3, <3>1, MoveInvStartsEnds DEF diskVars
  <2>5. OrganizeInv'  BY <1>0, <1>3, <2>1 DEF OrganizeInv, RowsTypeOK, Jobs, Moving, diskVars
  <2>6. OrgEffect  BY <1>0, <1>1, <1>3, <2>1 DEF OrgEffect, RowsTypeOK, Jobs, diskVars
  <2> QED  BY <2>2, <2>3, <2>4, <2>5, <2>6
<1> QED  BY <1>2, <1>3 DEF PlanMove

\* The values that stand for nothing have their types.
LEMMA EmptyFacts ==
  /\ NoJob \in Jobs
  /\ NoJob.kind = "none" /\ NoJob.todo = {}
  /\ NoMove \in [at : MoveSteps, src : Place \cup {NoPath}, dst : Place \cup {NoPath}, data : Bytes] /\ NoMove.at = "none"
  /\ FreeRow \in JournalRows /\ FreeRow.st = "free"
  /\ NoSave \in [row : [File -> AnyPath], jr : [Jid -> JournalRows]] /\ \A j \in Jid : NoSave.jr[j].st = "free"
  /\ NoPlan \in [src : [File -> AnyPath], dst : [File -> AnyPath]]
  /\ NoRec \in RecRows /\ NoRec.st = "none" /\ NoRec.file = NoFile
  /\ NoDelete \in [file : File \cup {NoFile}, src : AnyPath, slot : Slot \cup {NoPath}, mode : {"trash", "permanent"}]
  /\ NoDelete.file = NoFile
<1>1. FreeRow \in JournalRows /\ FreeRow.st = "free"  BY DEF FreeRow, JournalRows, AnyPath
<1>2. NoPlan \in [src : [File -> AnyPath], dst : [File -> AnyPath]]  BY DEF NoPlan, AnyPath
<1>3. NoJob \in Jobs
      /\ NoJob.kind = "none" /\ NoJob.todo = {}
  BY <1>2 DEF NoJob, Jobs, JobKinds, JobSteps
<1>4. NoMove \in [at : MoveSteps, src : Place \cup {NoPath}, dst : Place \cup {NoPath}, data : Bytes] /\ NoMove.at = "none"
  BY BytesFacts DEF NoMove, MoveSteps
<1>5. NoSave \in [row : [File -> AnyPath], jr : [Jid -> JournalRows]] /\ \A j \in Jid : NoSave.jr[j].st = "free"
  BY <1>1 DEF NoSave, AnyPath
<1>6. NoRec \in RecRows /\ NoRec.st = "none" /\ NoRec.file = NoFile  BY DEF NoRec, RecRows, AnyPath
<1> QED  BY <1>1, <1>2, <1>3, <1>4, <1>5, <1>6 DEF NoDelete, AnyPath

\* A step that leaves the tree, the rows and the move alone.
LEMMA SameFiles ==
  ASSUME FilesTypeOK, UNCHANGED diskVars
  PROVE  FilesTypeOK'
BY DEF FilesTypeOK, diskVars

\* The start of a run of organize over the files that can move.
LEMMA ExecuteSafe ==
  ASSUME IInv, NEW plan \in [src : [File -> AnyPath], dst : [File -> AnyPath]], Execute(plan), UNCHANGED trashVars
  PROVE  FilesTypeOK' /\ RowsTypeOK' /\ MoveInv' /\ OrganizeInv' /\ OrgEffect
<1> USE DEF IInv, TrashInv, TypeOK
<1>0. FilesTypeOK /\ RowsTypeOK /\ MoveInv /\ OrganizeInv /\ TrashJobInv  OBVIOUS
<1>1. PICK T \in SUBSET File :
       /\ Movable(plan, T)
       /\ job' = [NoJob EXCEPT !.kind = "organize", !.step = "pick", !.todo = T, !.src = plan.src, !.dst = plan.dst]
  BY DEF Execute
<1>2. UNCHANGED <<diskVars, phase, saved, jr, oplan>> /\ job.kind = "none" /\ phase = "open"  BY DEF Execute, Idle
<1>3. job'.kind = "organize" /\ job'.step = "pick" /\ job'.todo = T /\ job'.src = plan.src /\ job'.dst = plan.dst
      /\ job' \in Jobs
  BY <1>1, EmptyFacts DEF Jobs, JobKinds, JobSteps
<1>4. FilesTypeOK'  BY <1>0, <1>2, SameFiles
<1>5. RowsTypeOK'  BY <1>0, <1>2, <1>3 DEF RowsTypeOK, trashVars
<1>6. ~Moving' /\ ~Moving  BY <1>2, <1>3 DEF Moving
<1>7. MoveInv'  BY <1>0, <1>2, <1>6, NotMoving, MoveInvStartsEnds DEF diskVars
<1>8. \A f \in T : {plan.src[f], plan.dst[f]} \subseteq Path /\ plan.src[f] # plan.dst[f]
  BY <1>1 DEF Movable, AnyPath
<1>9. OrganizeInv'  BY <1>0, <1>2, <1>3, <1>6, <1>8 DEF OrganizeInv, diskVars
<1>10. OrgEffect  BY <1>2, <1>3 DEF OrgEffect, diskVars
<1> QED  BY <1>4, <1>5, <1>7, <1>9, <1>10

\* The end of a move of organize: its run goes on or drops the file.
LEMMA OrgMoveEnds ==
  ASSUME IInv, job.kind = "organize", job.step \in {"apply", "park"}, UNCHANGED <<disk, other, gone, phase, saved, oplan, trashVars>>,
         row' \in [File -> AnyPath], \A f \in File : row[f] # NoPath => row'[f] # NoPath,
         jr' \in {jr, [jr EXCEPT ![job.id] = FreeRow]}, mv' = NoMove,
         job' \in {Dropped(job.file), AfterMove(job.file, mv.dst)}
  PROVE  FilesTypeOK' /\ RowsTypeOK' /\ MoveInv' /\ OrganizeInv' /\ OrgEffect
<1> USE DEF IInv, TrashInv, TypeOK
<1>0. FilesTypeOK /\ RowsTypeOK /\ MoveInv /\ OrganizeInv /\ TrashJobInv  OBVIOUS
<1>1. /\ job.file \in job.todo /\ job.file \in File /\ job.id \in Jid /\ mv.dst \in Path /\ phase = "open"
      /\ job.step = "park" => mv.dst # job.dst[job.file]
  BY <1>0 DEF OrganizeInv, Moving, RowsTypeOK, Jobs, TrashJobInv
<1>2. FilesTypeOK'  BY <1>0, EmptyFacts DEF FilesTypeOK, AnyPath
<1>3. job' \in Jobs /\ job'.kind = "organize" /\ job'.step = "pick" /\ job'.dst = job.dst
      /\ \A f \in job'.todo : f \in job.todo /\ (job'.src[f] = job.src[f] \/ (job.step = "park" /\ f = job.file /\ job'.src[f] = mv.dst))
  <2>1. CASE job' = Dropped(job.file)  BY <1>0, <1>1, <2>1 DEF Dropped, RowsTypeOK, Jobs, JobSteps
  <2>2. CASE job.step = "park" /\ job' = AfterMove(job.file, mv.dst)
    BY <1>0, <1>1, <2>2 DEF AfterMove, RowsTypeOK, Jobs, JobSteps, AnyPath
  <2>3. CASE job.step # "park" /\ job' = AfterMove(job.file, mv.dst)  BY <2>1, <2>3 DEF AfterMove
  <2> QED  BY <2>1, <2>2, <2>3
<1>4. jr' \in [Jid -> JournalRows] /\ \A j \in Jid : jr'[j] = jr[j] \/ jr'[j].st = "free"
  BY <1>0, <1>1, EmptyFacts DEF RowsTypeOK
<1>5. RowsTypeOK'  BY <1>0, <1>3, <1>4 DEF RowsTypeOK, trashVars
<1>6. ~Moving'  BY <1>3 DEF Moving
<1>7. MoveInv'  BY <1>6, EmptyFacts, MoveInvStartsEnds
<1>8. OrganizeInv'
  <2>1. \A f \in job'.todo : {job'.src[f], job'.dst[f]} \subseteq Path /\ job'.src[f] # job'.dst[f]
    BY <1>0, <1>1, <1>3 DEF OrganizeInv
  <2>2. \A j \in Jid : jr'[j].st = "planned" => jr'[j] = jr[j]  BY <1>4
  <2> QED  BY <1>0, <1>1, <1>6, <2>1, <2>2 DEF OrganizeInv
<1>9. OrgEffect  BY <1>1, <1>3 DEF OrgEffect
<1> QED  BY <1>2, <1>5, <1>7, <1>8, <1>9

\* A row keeps a path when a scan relinks it.
LEMMA ScanPathFacts ==
  ASSUME FilesTypeOK, NEW p \in Path, ScanPath(p)
  PROVE  /\ row' \in [File -> AnyPath] /\ other' \subseteq Path
         /\ \A f \in File : row[f] # NoPath => row'[f] # NoPath
<1>1. row \in [File -> AnyPath] /\ other \subseteq Path /\ p # NoPath  BY PlaceFacts DEF FilesTypeOK, AnyPath
<1>2. CASE row' = row  BY <1>1, <1>2 DEF ScanPath
<1>3. CASE row' = [row EXCEPT ![disk[p][1]] = p] /\ UNCHANGED other  BY <1>1, <1>3 DEF AnyPath
<1> QED  BY <1>2, <1>3 DEF ScanPath

\* Every step of organize, its recovery and its scan leaves the invariant.
LEMMA OrgStepSafe ==
  ASSUME IInv, OrgStep, UNCHANGED trashVars
  PROVE  IInv'
<1> SUFFICES FilesTypeOK' /\ RowsTypeOK' /\ MoveInv' /\ OrganizeInv' /\ OrgEffect
  BY OrgEffectSafe DEF IInv, TrashInv, TypeOK
<1>0. FilesTypeOK /\ RowsTypeOK /\ MoveInv /\ OrganizeInv /\ TrashJobInv  BY DEF IInv, TrashInv, TypeOK
<1>n. phase # "open" \/ job.kind = "none" => job.kind = "none" /\ ~Moving /\ mv.at = "none"
  BY <1>0, NotMoving DEF TrashJobInv, Moving
<1>r. row \in [File -> AnyPath] /\ jr \in [Jid -> JournalRows]  BY <1>0 DEF FilesTypeOK, RowsTypeOK, AnyPath
<1>1. CASE PlanOrganize
  <2>1. UNCHANGED <<diskVars, phase, saved, job, jr>>  BY <1>1 DEF PlanOrganize
  <2>2. oplan' \in [src : [File -> AnyPath], dst : [File -> AnyPath]]  BY <1>1, <1>r DEF PlanOrganize, AnyPath
  <2>3. FilesTypeOK' /\ RowsTypeOK'  BY <1>0, <2>1, <2>2, SameFiles DEF RowsTypeOK, trashVars
  <2>4. MoveInv' /\ OrganizeInv' /\ OrgEffect
    BY <1>0, <1>n, <2>1 DEF MoveInv, OrganizeInv, Moving, Here, OrgEffect, diskVars
  <2> QED  BY <2>3, <2>4
<1>2. CASE RunOrganize
  <2>1. PICK plan \in Plans : Execute(plan)  BY <1>2 DEF RunOrganize
  <2>2. plan \in [src : [File -> AnyPath], dst : [File -> AnyPath]]  BY <1>r DEF Plans, AnyPath
  <2> QED  BY <2>1, <2>2, ExecuteSafe
<1>3. CASE ApplyOrganize
  <2>1. oplan \in [src : [File -> AnyPath], dst : [File -> AnyPath]]  BY <1>0 DEF RowsTypeOK
  <2> QED  BY <1>3, <2>1, ExecuteSafe DEF ApplyOrganize
<1>4. CASE CommitMove
  <2>1. mv.dst \in Path /\ job.file \in File
    BY <1>0, <1>4 DEF CommitMove, OrganizeInv, Moving, RowsTypeOK, Jobs
  <2>2. row' \in [File -> AnyPath] /\ \A f \in File : row[f] # NoPath => row'[f] # NoPath
    BY <1>4, <1>r, <2>1, PlaceFacts DEF CommitMove, AnyPath
  <2> QED  BY <1>4, <2>2, OrgMoveEnds DEF CommitMove
<1>5. CASE CommitMoveFails  BY <1>5, <1>r, OrgMoveEnds DEF CommitMoveFails
<1>6. CASE AbortMove  BY <1>6, <1>r, OrgMoveEnds DEF AbortMove
<1>7. CASE ExecuteEnds
  <2>1. UNCHANGED <<diskVars, phase, saved, jr, oplan>> /\ job' = NoJob /\ job.step = "pick"  BY <1>7 DEF ExecuteEnds
  <2>2. ~Moving /\ ~Moving'  BY <2>1, EmptyFacts DEF Moving
  <2>3. FilesTypeOK' /\ RowsTypeOK'  BY <1>0, <2>1, EmptyFacts, SameFiles DEF RowsTypeOK, trashVars
  <2>4. MoveInv'  BY <1>0, <2>1, <2>2, NotMoving, MoveInvStartsEnds DEF diskVars
  <2>5. OrganizeInv' /\ OrgEffect  BY <1>0, <2>1, <2>2, EmptyFacts DEF OrganizeInv, OrgEffect, diskVars
  <2> QED  BY <2>3, <2>4, <2>5
<1>8. CASE BeginRecovery
  <2>1. UNCHANGED <<diskVars, job, jr, oplan>> /\ phase' = "moves" /\ saved' = [row |-> row, jr |-> jr] /\ phase = "down"
    BY <1>8 DEF BeginRecovery
  <2>2. FilesTypeOK' /\ RowsTypeOK'  BY <1>0, <1>r, <2>1, SameFiles DEF RowsTypeOK, trashVars
  <2>3. MoveInv'  BY <1>n, <2>1, MoveInvStartsEnds DEF diskVars, Moving
  <2>4. OrganizeInv' /\ OrgEffect  BY <1>0, <1>n, <2>1 DEF OrganizeInv, OrgEffect, diskVars, Moving
  <2> QED  BY <2>2, <2>3, <2>4
<1>9. CASE MovesRecovered
  <2>1. UNCHANGED <<diskVars, job, jr, oplan>> /\ phase' = "trash" /\ saved' = NoSave /\ phase = "moves"
    BY <1>9 DEF MovesRecovered
  <2>2. FilesTypeOK' /\ RowsTypeOK'  BY <1>0, <2>1, SameFiles, EmptyFacts DEF RowsTypeOK, trashVars
  <2>3. MoveInv'  BY <1>n, <2>1, MoveInvStartsEnds DEF diskVars, Moving
  <2>4. OrganizeInv' /\ OrgEffect  BY <1>0, <1>n, <2>1, EmptyFacts DEF OrganizeInv, OrgEffect, diskVars, Moving
  <2> QED  BY <2>2, <2>3, <2>4
<1>10. CASE MovesUnrecovered
  <2>1. UNCHANGED <<disk, other, mv, gone, job, oplan>> /\ phase' = "down" /\ saved' = NoSave /\ phase = "moves"
        /\ row' = saved.row /\ jr' = saved.jr
    BY <1>10 DEF MovesUnrecovered
  <2>2. FilesTypeOK' /\ RowsTypeOK'  BY <1>0, <2>1, EmptyFacts DEF FilesTypeOK, RowsTypeOK, AnyPath, trashVars
  <2>3. MoveInv'  BY <1>n, <2>1, MoveInvStartsEnds DEF Moving
  <2>4. \A j \in Jid : jr'[j].st = "planned" =>
          /\ {jr'[j].src, jr'[j].dst} \subseteq Path /\ jr'[j].src # jr'[j].dst /\ jr'[j].file \in File
          /\ jr'[j].linked => row'[jr'[j].file] # NoPath
    BY <1>0, <2>1 DEF OrganizeInv
  <2>5. \A f \in File : row[f] # NoPath => row'[f] # NoPath  BY <1>0, <2>1 DEF OrganizeInv
  <2>6. OrganizeInv' /\ OrgEffect  BY <1>0, <1>n, <2>1, <2>4, <2>5, EmptyFacts DEF OrganizeInv, OrgEffect, Moving
  <2> QED  BY <2>2, <2>3, <2>6
<1>11. CASE \E f \in File : Apply(f)
  <2>1. PICK f \in File : Apply(f)  BY <1>11
  <2>2. job.kind = "organize" /\ job.step = "pick" /\ f \in job.todo /\ PlanMove(f, job.dst[f], "apply")  BY <2>1 DEF Apply
  <2>3. job.dst[f] \in Path /\ job.dst[f] # job.src[f]  BY <1>0, <2>2 DEF OrganizeInv
  <2> QED  BY <2>2, <2>3, PlanMoveSafe
<1>12. CASE \E f \in File : Park(f)
  <2>1. PICK f \in File : Park(f)  BY <1>12
  <2>2. PICK tmp \in Path : job.kind = "organize" /\ job.step = "pick" /\ f \in job.todo /\ PlanMove(f, tmp, "park")
                           /\ tmp \notin {job.src[f], job.dst[f]}
    BY <2>1 DEF Park
  <2> QED  BY <2>2, PlanMoveSafe
<1>13. CASE \E j \in Jid : FinishMove(j)
  <2>1. PICK j \in Jid : FinishMove(j)  BY <1>13
  <2>2. jr[j].dst \in Path /\ jr[j].file \in File /\ phase = "moves"  BY <1>0, <2>1 DEF FinishMove, OrganizeInv
  <2>3. UNCHANGED <<disk, other, mv, gone, phase, saved, job, oplan>> /\ row' = [row EXCEPT ![jr[j].file] = jr[j].dst]
        /\ jr' = [jr EXCEPT ![j] = FreeRow] /\ jr[j].linked /\ jr[j].st = "planned"
    BY <2>1 DEF FinishMove, MoveMade
  <2>4. row' \in [File -> AnyPath] /\ \A f \in File : row'[f] = row[f] \/ (f = jr[j].file /\ row[f] # NoPath /\ row'[f] # NoPath)
    BY <1>0, <1>r, <2>2, <2>3, PlaceFacts DEF AnyPath, OrganizeInv
  <2>5. jr' \in [Jid -> JournalRows] /\ \A k \in Jid : jr'[k] = jr[k] \/ jr'[k].st = "free"
    BY <1>r, <2>3, EmptyFacts
  <2>6. FilesTypeOK' /\ RowsTypeOK'  BY <1>0, <2>3, <2>4, <2>5 DEF FilesTypeOK, RowsTypeOK, AnyPath, trashVars
  <2>7. MoveInv'  BY <1>n, <2>2, <2>3, MoveInvStartsEnds DEF Moving
  <2>8. OrgEffect  BY <1>n, <2>2, <2>3, <2>4 DEF OrgEffect
  <2>9. OrganizeInv'
    <3>1. \A k \in Jid : jr'[k].st = "planned" => jr'[k] = jr[k]  BY <2>5
    <3>2. \A k \in Jid : saved.jr[k].st = "planned" => saved.jr[k].file \in File  BY <1>0 DEF OrganizeInv
    <3> QED  BY <1>0, <1>n, <2>2, <2>3, <2>4, <3>1, <3>2 DEF OrganizeInv, Moving
  <2> QED  BY <2>6, <2>7, <2>8, <2>9
<1>14. CASE \E j \in Jid : RollBackMove(j)
  <2>1. PICK j \in Jid : RollBackMove(j)  BY <1>14
  <2>2. jr[j].dst \in Path /\ phase = "moves"  BY <1>0, <2>1 DEF RollBackMove, OrganizeInv
  <2>3. UNCHANGED <<row, other, mv, gone, phase, saved, job, oplan>> /\ jr' = [jr EXCEPT ![j] = FreeRow]
        /\ disk' \in {disk, [disk EXCEPT ![jr[j].dst] = NoFile]}
    BY <2>1 DEF RollBackMove
  <2>4. disk' \in [Place -> Bytes] /\ \A s \in Slot : disk'[s] = disk[s]
    BY <1>0, <2>2, <2>3, BytesFacts, PlaceFacts DEF FilesTypeOK
  <2>5. jr' \in [Jid -> JournalRows] /\ \A k \in Jid : jr'[k] = jr[k] \/ jr'[k].st = "free"
    BY <1>r, <2>3, EmptyFacts
  <2>6. FilesTypeOK' /\ RowsTypeOK'  BY <1>0, <2>3, <2>4, <2>5 DEF FilesTypeOK, RowsTypeOK, trashVars
  <2>7. MoveInv'  BY <1>n, <2>2, <2>3, MoveInvStartsEnds DEF Moving
  <2>8. OrgEffect  BY <1>n, <2>2, <2>3, <2>4 DEF OrgEffect
  <2>9. OrganizeInv'
    <3>1. \A k \in Jid : jr'[k].st = "planned" => jr'[k] = jr[k]  BY <2>5
    <3> QED  BY <1>0, <1>n, <2>2, <2>3, <3>1 DEF OrganizeInv, Moving
  <2> QED  BY <2>6, <2>7, <2>8, <2>9
<1>15. CASE \E p \in Path : Scan(p)
  <2>1. PICK p \in Path : Scan(p)  BY <1>15
  <2>2. UNCHANGED <<disk, mv, gone, orgVars>> /\ ScanPath(p) /\ phase = "open" /\ job.kind = "none"  BY <2>1 DEF Scan, Idle
  <2>3. row' \in [File -> AnyPath] /\ other' \subseteq Path /\ \A f \in File : row[f] # NoPath => row'[f] # NoPath
    BY <1>0, <2>2, ScanPathFacts
  <2>4. FilesTypeOK' /\ RowsTypeOK'  BY <1>0, <2>2, <2>3 DEF FilesTypeOK, RowsTypeOK, AnyPath, trashVars, orgVars
  <2>5. MoveInv'  BY <1>n, <2>2, MoveInvStartsEnds DEF Moving, orgVars
  <2>6. OrgEffect  BY <2>2, <2>3 DEF OrgEffect, orgVars
  <2>7. OrganizeInv'  BY <1>0, <2>2, <2>3 DEF OrganizeInv, Moving, orgVars
  <2> QED  BY <2>4, <2>5, <2>6, <2>7
<1> QED
  BY <1>1, <1>2, <1>3, <1>4, <1>5, <1>6, <1>7, <1>8, <1>9, <1>10, <1>11, <1>12, <1>13, <1>14, <1>15 DEF OrgStep

-----------------------------------------------------------------------------
\* A step of the trash that drops no file row leaves organize as it was.
LEMMA OrganizeKept ==
  ASSUME OrganizeInv, UNCHANGED <<saved, jr>>, phase' # "moves",
         \A f \in File : row[f] # NoPath => row'[f] # NoPath,
         job'.kind # "organize" \/ (job' = job /\ mv' = mv)
  PROVE  OrganizeInv'
BY DEF OrganizeInv, Moving

\* A step that leaves the trash rows alone and at most empties trash folders.
LEMMA RecKept ==
  ASSUME FilesTypeOK, RecInv, TrashRecorded, rec' = rec, dplan' \in {dplan, NoDelete}, rplan' \in {rplan, NoFile},
         \A s \in Slot : disk'[s] \in {disk[s], NoFile},
         \A f \in File : row[f] # NoPath => row'[f] # NoPath,
         dplan.file \in File \cup {NoFile}
  PROVE  RecInv' /\ TrashRecorded'
<1>1. TrashRecorded'  BY BytesFacts DEF TrashRecorded
<1>2. CASE dplan' = dplan  BY <1>1, <1>2 DEF RecInv, Here
<1>3. CASE dplan' = NoDelete  BY <1>1, <1>3, EmptyFacts DEF RecInv, Here
<1> QED  BY <1>2, <1>3

\* With no job there is nothing to say of one.
LEMMA NoJobInv ==
  ASSUME job'.kind = "none"
  PROVE  TrashJobInv'
BY DEF TrashJobInv, Deleting, Restoring, Purging

\* A job that ends, and the move with it.
LEMMA JobEndsFacts ==
  ASSUME JobEnds
  PROVE  /\ MoveInv' /\ TrashJobInv' /\ job' \in Jobs /\ job'.kind = "none"
         /\ mv' \in [at : MoveSteps, src : Place \cup {NoPath}, dst : Place \cup {NoPath}, data : Bytes]
<1>1. job'.kind = "none" /\ mv'.at = "none"  BY EmptyFacts DEF JobEnds
<1>2. ~Moving'  BY <1>1 DEF Moving
<1> QED  BY <1>1, <1>2, EmptyFacts, NoJobInv, MoveInvStartsEnds DEF JobEnds

\* Dropping the rows of some files takes the rows, plans and journal rows that lean on them along.
LEMMA DropRowsFacts ==
  ASSUME IInv, NEW fs \in SUBSET File, DropRows(fs), saved' = saved, phase' # "moves", job'.kind # "organize"
  PROVE  /\ row' \in [File -> AnyPath] /\ jr' \in [Jid -> JournalRows]
         /\ oplan' \in [src : [File -> AnyPath], dst : [File -> AnyPath]]
         /\ dplan' \in {dplan, NoDelete} /\ dplan'.file \notin fs
         /\ \A f \in File \ fs : row'[f] = row[f]
         /\ OrganizeInv'
<1> USE DEF IInv, TrashInv, TypeOK
<1>0. FilesTypeOK /\ RowsTypeOK /\ OrganizeInv  OBVIOUS
<1>1. row' \in [File -> AnyPath] /\ \A f \in File : row'[f] = IF f \in fs THEN NoPath ELSE row[f]
  BY <1>0 DEF DropRows, FilesTypeOK, AnyPath
<1>2. jr' = [j \in Jid |-> IF jr[j].file \in fs THEN [jr[j] EXCEPT !.linked = FALSE] ELSE jr[j]]
  BY <1>0 DEF DropRows, Detached, RowsTypeOK
<1>3. \A j \in Jid : jr[j] \in JournalRows  BY <1>0 DEF RowsTypeOK
<1>4. \A j \in Jid : /\ jr'[j] \in JournalRows /\ jr'[j].st = jr[j].st /\ jr'[j].file = jr[j].file
                     /\ jr'[j].src = jr[j].src /\ jr'[j].dst = jr[j].dst
                     /\ jr'[j].linked => jr[j].linked /\ jr[j].file \notin fs
  BY <1>2, <1>3 DEF JournalRows
<1>5. jr' \in [Jid -> JournalRows]  BY <1>2, <1>4
<1>6. oplan' \in [src : [File -> AnyPath], dst : [File -> AnyPath]]
  BY <1>0 DEF DropRows, RowsTypeOK, AnyPath
<1>7. dplan' \in {dplan, NoDelete} /\ dplan'.file \notin fs
  BY EmptyFacts, TrashAssumption DEF DropRows
<1>8. OrganizeInv'  BY <1>0, <1>1, <1>4 DEF OrganizeInv
<1> QED  BY <1>1, <1>5, <1>6, <1>7, <1>8

\* A trash row loses at most its link when file rows are dropped.
LEMMA DetachedFacts ==
  ASSUME rec \in [Pid -> RecRows], NEW fs \in SUBSET File
  PROVE  LET d == Detached(rec, fs) IN
         /\ d \in [Pid -> RecRows]
         /\ \A e \in Pid : d[e].st = rec[e].st /\ d[e].file = rec[e].file /\ d[e].orig = rec[e].orig /\ d[e].slot = rec[e].slot
         /\ \A e \in Pid : rec[e].file \notin fs => d[e] = rec[e]
<1>1. Detached(rec, fs) = [e \in Pid |-> IF rec[e].file \in fs THEN [rec[e] EXCEPT !.linked = FALSE] ELSE rec[e]]
  BY DEF Detached
<1>2. \A e \in Pid : LET d == IF rec[e].file \in fs THEN [rec[e] EXCEPT !.linked = FALSE] ELSE rec[e] IN
       d \in RecRows /\ d.st = rec[e].st /\ d.file = rec[e].file /\ d.orig = rec[e].orig /\ d.slot = rec[e].slot
  BY DEF RecRows
<1> QED  BY <1>1, <1>2

\* The steps of PlanDelete and ApplyDelete.
LEMMA DeleteSafe ==
  ASSUME IInv,
         \/ TrashFile \/ TrashFileFails \/ AbortTrash \/ KeepPending \/ RemoveFile \/ DetachFile
         \/ (\E f \in File : PlanDelete(f)) \/ (\E e \in Pid : PlanTrash(e))
  PROVE  IInv'
<1>0. FilesTypeOK /\ RowsTypeOK /\ MoveInv /\ OrganizeInv /\ TrashJobInv /\ RecInv /\ TrashRecorded  BY DEF IInv, TrashInv, TypeOK
<1> SUFFICES FilesTypeOK' /\ RowsTypeOK' /\ MoveInv' /\ OrganizeInv' /\ TrashJobInv' /\ RecInv' /\ TrashRecorded'
  BY DEF IInv, TrashInv, TypeOK
<1>r. row \in [File -> AnyPath] /\ dplan.file \in File \cup {NoFile} /\ rec \in [Pid -> RecRows]
  BY <1>0 DEF FilesTypeOK, RowsTypeOK, AnyPath
\* A job of a delete runs in an open store.
<1>d. job.kind = "delete" => phase = "open" /\ job.file \in File  BY <1>0 DEF TrashJobInv
<1>e. Deleting("move") \/ Deleting("back") => /\ job.id \in Pid /\ rec[job.id].slot \in Slot
        /\ rec[job.id].st = "pending" /\ rec[job.id].file = job.file /\ row[job.file] # NoPath
  BY <1>0 DEF TrashJobInv, RecInv
<1>1. CASE TrashFile
  <2>1. DropRows({job.file}) /\ JobEnds /\ UNCHANGED <<disk, other, gone, phase, saved, rplan>> /\ Deleting("move")
        /\ rec' = [Detached(rec, {job.file}) EXCEPT ![job.id].st = "active", ![job.id].orig = row[job.file]]
    BY <1>1 DEF TrashFile
  <2>0. disk' = disk  BY <1>1 DEF TrashFile
  <2>2. job.file \in File /\ phase = "open" /\ job.id \in Pid /\ row[job.file] \in Path /\ job'.kind = "none"
    BY <1>d, <1>e, JobEndsFacts, <1>r, <2>1 DEF Deleting, AnyPath
  <2>3. /\ row' \in [File -> AnyPath] /\ jr' \in [Jid -> JournalRows]
        /\ oplan' \in [src : [File -> AnyPath], dst : [File -> AnyPath]]
        /\ dplan' \in {dplan, NoDelete} /\ dplan'.file # job.file
        /\ \A f \in File \ {job.file} : row'[f] = row[f]
        /\ OrganizeInv'
    BY <2>1, <2>2, DropRowsFacts
  <2>4. PICK d \in [Pid -> RecRows] :
        /\ d = Detached(rec, {job.file})
        /\ \A e \in Pid : d[e].st = rec[e].st /\ d[e].file = rec[e].file /\ d[e].orig = rec[e].orig /\ d[e].slot = rec[e].slot
        /\ \A e \in Pid : rec[e].file # job.file => d[e] = rec[e]
    BY <1>r, <2>2, DetachedFacts
  <2>5. /\ rec' \in [Pid -> RecRows]
        /\ \A e \in Pid : rec'[e].slot = rec[e].slot /\ rec'[e].file = rec[e].file
        /\ \A e \in Pid \ {job.id} : /\ rec'[e].st = rec[e].st /\ rec'[e].orig = rec[e].orig
                                     /\ rec[e].file # job.file => rec'[e] = rec[e]
        /\ rec'[job.id].st = "active" /\ rec'[job.id].orig = row[job.file]
    <3>1. rec' = [d EXCEPT ![job.id].st = "active", ![job.id].orig = row[job.file]]  BY <2>1, <2>4
    <3>2. rec' = [d EXCEPT ![job.id] = [d[job.id] EXCEPT !.st = "active", !.orig = row[job.file]]]  BY <2>2, <3>1
    <3>0. d[job.id] \in RecRows /\ row[job.file] \in AnyPath  BY <2>2, <2>4 DEF AnyPath
    <3>3. [d[job.id] EXCEPT !.st = "active", !.orig = row[job.file]] \in RecRows  BY <3>0 DEF RecRows
    <3>4. rec' \in [Pid -> RecRows] /\ (\A e \in Pid \ {job.id} : rec'[e] = d[e])
          /\ rec'[job.id] = [d[job.id] EXCEPT !.st = "active", !.orig = row[job.file]]
      BY <2>2, <2>4, <3>2, <3>3, ZenonT(60)
    <3>6. rec'[job.id].st = "active" /\ rec'[job.id].orig = row[job.file] /\ rec'[job.id].slot = rec[job.id].slot
          /\ rec'[job.id].file = rec[job.id].file
      BY <2>2, <2>4, <3>0, <3>4, ZenonT(60) DEF RecRows
    <3>7. \A e \in Pid \ {job.id} : rec'[e].slot = rec[e].slot /\ rec'[e].file = rec[e].file
                                     /\ rec'[e].st = rec[e].st /\ rec'[e].orig = rec[e].orig
      BY <2>4, <3>4, ZenonT(60)
    <3>8. \A e \in Pid \ {job.id} : rec[e].file # job.file => rec'[e] = rec[e]  BY <2>4, <3>4
    <3>9. \A e \in Pid : rec'[e].slot = rec[e].slot /\ rec'[e].file = rec[e].file  BY <3>6, <3>7
    <3>10. rec' \in [Pid -> RecRows]  BY <3>4
    <3> QED  BY <3>6, <3>7, <3>8, <3>9, <3>10, Zenon
  <2>6. FilesTypeOK' /\ RowsTypeOK'
    BY <1>0, JobEndsFacts, <2>1, <2>3, <2>5, EmptyFacts, ZenonT(60) DEF FilesTypeOK, RowsTypeOK, AnyPath
  <2>7. RecInv'
    <3>2. \A e \in Pid : rec'[e].st # "none" => rec'[e].orig \in Path /\ rec'[e].slot \in Slot /\ rec'[e].file \in File
      <4> SUFFICES ASSUME NEW e \in Pid, rec'[e].st # "none"
                   PROVE  rec'[e].orig \in Path /\ rec'[e].slot \in Slot /\ rec'[e].file \in File
        OBVIOUS
      <4>1. rec[e].st # "none"  BY <1>e, <2>1, <2>5
      <4> QED  BY <1>0, <2>2, <2>5, <4>1 DEF RecInv
    <3>3. \A e \in Pid : rec'[e].st = "none" => rec'[e] = NoRec
      <4> SUFFICES ASSUME NEW e \in Pid, rec'[e].st = "none"  PROVE rec'[e] = NoRec  OBVIOUS
      <4>1. e # job.id /\ rec[e].st = "none"  BY <2>5
      <4>2. rec[e] = NoRec  BY <1>0, <4>1 DEF RecInv
      <4>3. rec[e].file # job.file  BY <2>2, <4>2, EmptyFacts, TrashAssumption
      <4> QED  BY <2>5, <4>1, <4>2, <4>3
    <3>4. \A e \in Pid : rec'[e].st = "restored" => disk'[rec'[e].slot] = NoFile
      <4> SUFFICES ASSUME NEW e \in Pid, rec'[e].st = "restored"  PROVE disk'[rec'[e].slot] = NoFile  OBVIOUS
      <4>1. rec[e].st = "restored"  BY <2>5
      <4> QED  BY <1>0, <2>0, <2>5, <4>1 DEF RecInv, Here
    <3>5. rplan' # NoFile => rec'[rplan'].st \notin {"none", "pending"}
      BY <1>0, <2>1, <2>5 DEF RecInv, RowsTypeOK
    <3>6. ASSUME dplan'.file # NoFile
          PROVE  /\ dplan'.src \in Path /\ dplan'.slot \in Slot /\ row'[dplan'.file] # NoPath
                 /\ \A e \in Pid : rec'[e].slot = dplan'.slot =>
                      rec'[e].st = "gone" \/ (rec'[e].st = "pending" /\ rec'[e].linked /\ rec'[e].file = dplan'.file)
      <4>1. dplan' = dplan /\ dplan.file \in File /\ dplan.file # job.file /\ dplan.file # NoFile
        BY <1>r, <2>3, <3>6, EmptyFacts
      <4>2. dplan.src \in Path /\ dplan.slot \in Slot /\ row'[dplan.file] # NoPath  BY <1>0, <2>3, <4>1 DEF RecInv
      <4>3. ASSUME NEW e \in Pid, rec'[e].slot = dplan.slot
            PROVE  rec'[e].st = "gone" \/ (rec'[e].st = "pending" /\ rec'[e].linked /\ rec'[e].file = dplan.file)
        <5>1. rec[e].st = "gone" \/ (rec[e].st = "pending" /\ rec[e].linked /\ rec[e].file = dplan.file)
          BY <1>0, <2>5, <4>1, <4>3 DEF RecInv
        <5>2. e # job.id  BY <1>e, <2>1, <4>1, <5>1
        <5> QED  BY <2>5, <4>1, <5>1, <5>2
      <4> QED  BY <4>1, <4>2, <4>3
    <3> QED  BY <3>2, <3>3, <3>4, <3>5, <3>6 DEF RecInv, Here
  <2>8. TrashRecorded'
    <3> SUFFICES ASSUME NEW s \in Slot, NEW f \in File, disk[s] = Whole(f)
                 PROVE  \E e \in Pid : rec'[e].slot = s /\ rec'[e].st \in {"pending", "active"}
      BY <2>0 DEF TrashRecorded
    <3>1. PICK e \in Pid : rec[e].slot = s /\ rec[e].st \in {"pending", "active"}  BY <1>0 DEF TrashRecorded
    <3> QED  BY <2>5, <3>1
  <2> QED  BY JobEndsFacts, <2>1, <2>3, <2>6, <2>7, <2>8
<1>2. CASE TrashFileFails
  <2>1. /\ Deleting("move") /\ job' = [job EXCEPT !.step = "back"]
        /\ mv' = [at |-> "ready", src |-> mv.dst, dst |-> mv.src, data |-> NoFile]
        /\ UNCHANGED <<disk, row, other, gone, phase, saved, jr, oplan, trashVars>>
    BY <1>2 DEF TrashFileFails, StartMove
  <2>2. mv.src \in Path /\ mv.dst = rec[job.id].slot /\ mv.dst \in Slot  BY <1>0, <1>e, <2>1 DEF TrashJobInv
  <2>3. job' \in Jobs /\ job'.kind = "delete" /\ job'.step = "back" /\ job'.id = job.id /\ job'.file = job.file
    BY <1>0, <2>1 DEF RowsTypeOK, Jobs, JobSteps, Deleting
  <2>4. FilesTypeOK' /\ RowsTypeOK'
    BY <1>0, <2>1, <2>2, <2>3, BytesFacts, PlaceFacts DEF FilesTypeOK, RowsTypeOK, trashVars, MoveSteps
  <2>5. MoveInv'
    <3>1. Moving'  BY <2>3 DEF Moving
    <3> QED  BY <2>1, <2>2, <3>1, PlaceFacts, MoveInvStartsEnds
  <2>6. OrganizeInv'  BY <1>0, <1>d, <2>1, <2>3, OrganizeKept DEF Deleting
  <2>7. RecInv' /\ TrashRecorded'  BY <1>0, <1>r, <2>1, RecKept DEF trashVars
  <2>8. TrashJobInv'
    BY <1>0, <1>d, <2>1, <2>2, <2>3 DEF TrashJobInv, Deleting, Restoring, Purging, trashVars
  <2> QED  BY <2>4, <2>5, <2>6, <2>7, <2>8
<1>3. CASE AbortTrash
  <2>1. /\ rec' \in {rec, [rec EXCEPT ![job.id].st = "gone"]} /\ JobEnds
        /\ UNCHANGED <<disk, row, other, gone, phase, saved, jr, oplan, dplan, rplan>>
    BY <1>3 DEF AbortTrash
  <2>2. /\ job.id \in Pid /\ rec[job.id].st = "pending" /\ rec[job.id].slot \in Slot /\ phase = "open"
        /\ \A f \in File : disk[rec[job.id].slot] = Whole(f) => Naming(rec[job.id].slot) \ {job.id} # {}
    <3>1. CASE Deleting("move") /\ mv.at = "failed"  BY <1>0, <1>d, <1>e, <3>1 DEF TrashJobInv, Deleting
    <3>2. CASE Deleting("back") /\ mv.at = "done"
      <4>1. mv.src = rec[job.id].slot /\ rec[job.id].slot \in Slot  BY <1>0, <1>e, <3>2 DEF TrashJobInv
      <4>2. disk[rec[job.id].slot] = NoFile  BY <1>0, <3>2, <4>1 DEF MoveInv, Here
      <4> QED  BY <1>d, <1>e, <3>2, <4>2, BytesFacts DEF Deleting
    <3> QED  BY <1>3, <3>1, <3>2 DEF AbortTrash
  <2>3. /\ rec' \in [Pid -> RecRows] /\ \A e \in Pid \ {job.id} : rec'[e] = rec[e]
        /\ rec'[job.id].st \in {"pending", "gone"} /\ rec'[job.id].file = rec[job.id].file /\ rec'[job.id].linked = rec[job.id].linked
        /\ rec'[job.id].slot = rec[job.id].slot /\ rec'[job.id].orig = rec[job.id].orig
    BY <1>r, <2>1, <2>2 DEF RecRows
  <2>4. FilesTypeOK' /\ RowsTypeOK'
    BY <1>0, JobEndsFacts, <2>1, <2>3 DEF FilesTypeOK, RowsTypeOK
  <2>5. OrganizeInv'  BY <1>0, JobEndsFacts, <2>1, <2>2, OrganizeKept
  <2>6. RecInv'
    BY <1>0, <2>1, <2>2, <2>3 DEF RecInv, RowsTypeOK, Here
  <2>7. TrashRecorded'
    <3> SUFFICES ASSUME NEW s \in Slot, NEW f \in File, disk[s] = Whole(f)
                 PROVE  \E e \in Pid : rec'[e].slot = s /\ rec'[e].st \in {"pending", "active"}
      BY <2>1 DEF TrashRecorded
    <3>1. PICK e \in Pid : e # job.id /\ rec[e].slot = s /\ rec[e].st \in {"pending", "active"}
      BY <1>0, <2>2 DEF TrashRecorded, Naming
    <3> QED  BY <2>3, <3>1
  <2> QED  BY JobEndsFacts, <2>1, <2>4, <2>5, <2>6, <2>7
<1>4. CASE KeepPending
  <2>1. JobEnds /\ UNCHANGED <<disk, row, other, gone, phase, saved, jr, oplan, trashVars>> /\ job.kind = "delete"
    BY <1>4 DEF KeepPending, Deleting
  <2>2. FilesTypeOK' /\ RowsTypeOK'  BY <1>0, JobEndsFacts, <2>1 DEF FilesTypeOK, RowsTypeOK, trashVars
  <2>3. OrganizeInv'  BY <1>0, <1>d, JobEndsFacts, <2>1, OrganizeKept
  <2>4. RecInv' /\ TrashRecorded'  BY <1>0, <1>r, <2>1, RecKept DEF trashVars
  <2> QED  BY JobEndsFacts, <2>1, <2>2, <2>3, <2>4
<1>5. CASE RemoveFile
  <2>1. /\ disk' = [disk EXCEPT ![dplan.src] = NoFile] /\ gone' = gone \cup LastCopies(dplan.src)
        /\ job' = [NoJob EXCEPT !.kind = "delete", !.step = "detach", !.file = dplan.file]
        /\ UNCHANGED <<row, other, mv, phase, saved, jr, oplan, trashVars>>
        /\ phase = "open" /\ job.kind = "none" /\ dplan.file # NoFile
    BY <1>5 DEF RemoveFile, CanApplyDelete, Idle
  <2>2. dplan.file \in File /\ dplan.src \in Path  BY <1>0, <1>r, <2>1 DEF RecInv
  <2>3. job' \in Jobs /\ job'.kind = "delete" /\ job'.step = "detach" /\ job'.file = dplan.file
    BY <2>1, <2>2, EmptyFacts DEF Jobs, JobKinds, JobSteps
  <2>4. disk' \in [Place -> Bytes] /\ \A s \in Slot : disk'[s] = disk[s]
    BY <1>0, <2>1, <2>2, BytesFacts, PlaceFacts DEF FilesTypeOK
  <2>5. gone' \subseteq File  BY <1>0, <2>1 DEF FilesTypeOK, LastCopies
  <2>6. FilesTypeOK' /\ RowsTypeOK'
    BY <1>0, <2>1, <2>3, <2>4, <2>5 DEF FilesTypeOK, RowsTypeOK, trashVars
  <2>7. MoveInv'
    <3>1. ~Moving /\ ~Moving'  BY <2>1, <2>3 DEF Moving
    <3> QED  BY <1>0, <2>1, <3>1, NotMoving, MoveInvStartsEnds
  <2>8. OrganizeInv'  BY <1>0, <2>1, <2>3, OrganizeKept
  <2>9. RecInv' /\ TrashRecorded'  BY <1>0, <1>r, <2>1, <2>4, RecKept DEF trashVars
  <2>10. TrashJobInv'  BY <2>1, <2>2, <2>3 DEF TrashJobInv, Deleting, Restoring, Purging
  <2> QED  BY <2>6, <2>7, <2>8, <2>9, <2>10
<1>6. CASE DetachFile
  <2>1. JobEnds /\ UNCHANGED <<disk, other, gone, phase, saved, rplan>> /\ job.kind = "delete"  BY <1>6 DEF DetachFile, Deleting
  <2>2. CASE UNCHANGED <<row, jr, oplan, rec, dplan>>
    <3>1. FilesTypeOK' /\ RowsTypeOK'  BY <1>0, JobEndsFacts, <2>1, <2>2 DEF FilesTypeOK, RowsTypeOK
    <3>2. OrganizeInv'  BY <1>0, <1>d, JobEndsFacts, <2>1, <2>2, OrganizeKept
    <3>3. RecInv' /\ TrashRecorded'  BY <1>0, <1>r, <2>1, <2>2, RecKept
    <3> QED  BY JobEndsFacts, <2>1, <3>1, <3>2, <3>3
  <2>3. CASE DropRows({job.file}) /\ rec' = Detached(rec, {job.file})
    <3>1. job.file \in File /\ phase = "open" /\ job'.kind = "none"  BY <1>d, JobEndsFacts, <2>1
    <3>2. /\ row' \in [File -> AnyPath] /\ jr' \in [Jid -> JournalRows]
          /\ oplan' \in [src : [File -> AnyPath], dst : [File -> AnyPath]]
          /\ dplan' \in {dplan, NoDelete} /\ dplan'.file # job.file
          /\ \A f \in File \ {job.file} : row'[f] = row[f]
          /\ OrganizeInv'
      BY <2>1, <2>3, <3>1, DropRowsFacts
    <3>3. /\ rec' \in [Pid -> RecRows]
          /\ \A e \in Pid : rec'[e].st = rec[e].st /\ rec'[e].file = rec[e].file /\ rec'[e].orig = rec[e].orig /\ rec'[e].slot = rec[e].slot
          /\ \A e \in Pid : rec[e].file # job.file => rec'[e] = rec[e]
      BY <1>r, <2>3, <3>1, DetachedFacts
    <3>4. FilesTypeOK' /\ RowsTypeOK'
      BY <1>0, JobEndsFacts, <2>1, <3>2, <3>3, EmptyFacts DEF FilesTypeOK, RowsTypeOK, AnyPath
    <3>5. RecInv'
      <4>1. \A e \in Pid : rec'[e].st = "none" => rec'[e] = NoRec
        <5> SUFFICES ASSUME NEW e \in Pid, rec'[e].st = "none"  PROVE rec'[e] = NoRec  OBVIOUS
        <5>1. rec[e] = NoRec  BY <1>0, <3>3 DEF RecInv
        <5> QED  BY <3>1, <3>3, <5>1, EmptyFacts, TrashAssumption
      <4>2. dplan'.file # NoFile => dplan' = dplan /\ dplan.file \in File \ {job.file}  BY <1>r, <3>2, EmptyFacts
      <4>3. dplan'.file # NoFile => \A e \in Pid : rec[e].slot = dplan.slot =>
              rec'[e].st = "gone" \/ (rec'[e].st = "pending" /\ rec'[e].linked /\ rec'[e].file = dplan.file)
        BY <1>0, <3>3, <4>2 DEF RecInv
      <4> QED  BY <1>0, <2>1, <3>2, <3>3, <4>1, <4>2, <4>3 DEF RecInv, RowsTypeOK, Here
    <3>6. TrashRecorded'  BY <1>0, <2>1, <3>3 DEF TrashRecorded
    <3> QED  BY JobEndsFacts, <2>1, <3>2, <3>4, <3>5, <3>6
  <2> QED  BY <1>6, <2>2, <2>3 DEF DetachFile
<1>7. CASE \E f \in File : PlanDelete(f)
  <2>1. PICK f \in File : PlanDelete(f)  BY <1>7
  <2>2. PICK s \in Slot, m \in Modes : RowsNaming(s) = {} /\ dplan' = [file |-> f, src |-> row[f], slot |-> s, mode |-> m]
    BY <2>1 DEF PlanDelete
  <2>3. UNCHANGED <<diskVars, orgVars, rec, rplan>> /\ row[f] \in Path /\ phase = "open"
    BY <1>r, <2>1 DEF PlanDelete, AnyPath
  <2>4. dplan' \in [file : File \cup {NoFile}, src : AnyPath, slot : Slot \cup {NoPath}, mode : {"trash", "permanent"}]
    BY <2>2, <2>3, TrashAssumption DEF AnyPath
  <2>5. FilesTypeOK' /\ RowsTypeOK'  BY <1>0, <2>3, <2>4, SameFiles DEF RowsTypeOK, orgVars
  <2>6. MoveInv'  BY <1>0, <2>3 DEF MoveInv, Moving, Here, diskVars, orgVars
  <2>7. OrganizeInv'  BY <1>0, <2>3, OrganizeKept DEF diskVars, orgVars
  <2>8. TrashJobInv'
    BY <1>0, <2>3 DEF TrashJobInv, Deleting, Restoring, Purging, Naming, Here, diskVars, orgVars
  <2>9. \A e \in Pid : rec[e].slot = s => rec[e].st = "gone"  BY <2>2 DEF RowsNaming
  <2>10. row[f] # NoPath  BY <2>1 DEF PlanDelete
  <2>11. RecInv'
    BY <1>0, <2>2, <2>3, <2>9, <2>10 DEF RecInv, Here, diskVars
  <2>12. TrashRecorded'  BY <1>0, <2>3 DEF TrashRecorded, diskVars
  <2> QED  BY <2>5, <2>6, <2>7, <2>8, <2>11, <2>12
<1>8. CASE \E e \in Pid : PlanTrash(e)
  <2>1. PICK e \in Pid : PlanTrash(e)  BY <1>8
  <2>2. /\ rec[e].st = "none" /\ phase = "open" /\ job.kind = "none" /\ dplan.file # NoFile
        /\ rec' = [rec EXCEPT ![e] = [st |-> "pending", file |-> dplan.file, linked |-> TRUE,
                                      orig |-> row[dplan.file], slot |-> dplan.slot]]
        /\ job' = [NoJob EXCEPT !.kind = "delete", !.step = "move", !.file = dplan.file, !.id = e]
        /\ mv' = [at |-> "ready", src |-> dplan.src, dst |-> dplan.slot, data |-> NoFile]
        /\ UNCHANGED <<disk, row, other, gone, phase, saved, jr, oplan, dplan, rplan>>
    BY <2>1 DEF PlanTrash, CanApplyDelete, Idle, StartMove
  <2>3. dplan.file \in File /\ dplan.src \in Path /\ dplan.slot \in Slot /\ row[dplan.file] \in Path
        /\ row[dplan.file] # NoPath
    BY <1>0, <1>r, <2>2 DEF RecInv, AnyPath
  <2>4. rec[e].slot = NoPath  BY <1>0, <2>2 DEF RecInv, NoRec
  <2>5. /\ rec' \in [Pid -> RecRows] /\ \A x \in Pid \ {e} : rec'[x] = rec[x]
        /\ rec'[e] = [st |-> "pending", file |-> dplan.file, linked |-> TRUE, orig |-> row[dplan.file], slot |-> dplan.slot]
    <3>1. [st |-> "pending", file |-> dplan.file, linked |-> TRUE, orig |-> row[dplan.file], slot |-> dplan.slot] \in RecRows
      BY <2>3 DEF RecRows, AnyPath
    <3> QED  BY <1>r, <2>2, <3>1
  <2>6. job' \in Jobs /\ job'.kind = "delete" /\ job'.step = "move" /\ job'.file = dplan.file /\ job'.id = e
    BY <2>2, <2>3, EmptyFacts DEF Jobs, JobKinds, JobSteps
  <2>7. FilesTypeOK' /\ RowsTypeOK'
    BY <1>0, <2>2, <2>3, <2>5, <2>6, BytesFacts, PlaceFacts DEF FilesTypeOK, RowsTypeOK, MoveSteps
  <2>8. MoveInv'
    <3>1. Moving'  BY <2>6 DEF Moving
    <3> QED  BY <2>2, <2>3, <3>1, PlaceFacts, MoveInvStartsEnds
  <2>9. OrganizeInv'  BY <1>0, <2>2, <2>6, OrganizeKept
  <2>10. RecInv'
    BY <1>0, <2>2, <2>3, <2>5 DEF RecInv, RowsTypeOK, Here
  <2>11. TrashRecorded'
    <3>1. \A x \in Pid : rec[x].st \in {"pending", "active"} => x # e  BY <2>2
    <3> QED  BY <1>0, <2>2, <2>5, <3>1 DEF TrashRecorded
  <2>12. TrashJobInv'
    <3>1. \A x \in Pid : rec'[x].slot = dplan.slot => rec'[x].st \in {"pending", "gone"}
      BY <1>0, <2>2, <2>5 DEF RecInv
    <3>2. \A f \in File : disk[dplan.slot] = Whole(f) => Naming(dplan.slot)' \ {e} # {}
      <4> SUFFICES ASSUME NEW f \in File, disk[dplan.slot] = Whole(f)  PROVE Naming(dplan.slot)' \ {e} # {}  OBVIOUS
      <4>1. PICK x \in Pid : rec[x].slot = dplan.slot /\ rec[x].st \in {"pending", "active"}
        BY <1>0, <2>3 DEF TrashRecorded
      <4>2. x # e /\ rec'[x] = rec[x]  BY <2>2, <2>5, <4>1
      <4> QED  BY <4>1, <4>2, <2>2 DEF Naming
    <3>3. (Deleting("move") =>
             /\ mv.src \in Path /\ mv.dst = rec[job.id].slot
             /\ mv.at \in {"ready", "failed"} =>
                  \A f \in File : disk[mv.dst] = Whole(f) => Naming(mv.dst) \ {job.id} # {})'
      BY <2>2, <2>3, <2>5, <2>6, <3>2
    <3> QED  BY <2>2, <2>3, <2>5, <2>6, <3>1, <3>3 DEF TrashJobInv, Deleting, Restoring, Purging
  <2> QED  BY <2>7, <2>8, <2>9, <2>10, <2>11, <2>12
<1> QED  BY <1>1, <1>2, <1>3, <1>4, <1>5, <1>6, <1>7, <1>8

\* The steps of RestoreTrash.
LEMMA RestoreSafe ==
  ASSUME IInv,
         \/ Restore \/ RestoreMoved \/ RestoreFails \/ RestoreScan \/ MarkTrashRestored
         \/ \E e \in Pid : ReadEntry(e)
  PROVE  IInv'
<1>0. FilesTypeOK /\ RowsTypeOK /\ MoveInv /\ OrganizeInv /\ TrashJobInv /\ RecInv /\ TrashRecorded  BY DEF IInv, TrashInv, TypeOK
<1> SUFFICES FilesTypeOK' /\ RowsTypeOK' /\ MoveInv' /\ OrganizeInv' /\ TrashJobInv' /\ RecInv' /\ TrashRecorded'
  BY DEF IInv, TrashInv, TypeOK
<1>r. row \in [File -> AnyPath] /\ dplan.file \in File \cup {NoFile} /\ rec \in [Pid -> RecRows] /\ rplan \in Pid \cup {NoFile}
  BY <1>0 DEF FilesTypeOK, RowsTypeOK, AnyPath
<1>d. job.kind = "restore" => /\ phase = "open" /\ job.id \in Pid /\ rec[job.id].st \notin {"none", "pending"}
                              /\ rec[job.id].slot \in Slot /\ rec[job.id].orig \in Path
  BY <1>0 DEF TrashJobInv, RecInv
<1>1. CASE Restore
  <2>1. /\ phase = "open" /\ job.kind = "none" /\ rplan # NoFile /\ rplan' = NoFile
        /\ UNCHANGED <<disk, row, other, gone, phase, saved, jr, oplan, rec, dplan>>
    BY <1>1 DEF Restore, Idle
  <2>2. rplan \in Pid /\ rec[rplan].st \notin {"none", "pending"} /\ rec[rplan].slot \in Slot /\ rec[rplan].orig \in Path
    BY <1>0, <1>r, <2>1 DEF RecInv
  <2>3. RecInv' /\ TrashRecorded'  BY <1>0, <1>r, <2>1, RecKept
  <2>4. mv.at = "none"  BY <1>0, <2>1, NotMoving DEF Moving
  <2>5. CASE ~Here(rec[rplan].slot) /\ job' = [NoJob EXCEPT !.kind = "restore", !.step = "scan", !.id = rplan] /\ mv' = mv
    <3>1. job' \in Jobs /\ job'.kind = "restore" /\ job'.step = "scan" /\ job'.id = rplan
      BY <2>2, <2>5, EmptyFacts DEF Jobs, JobKinds, JobSteps
    <3>2. FilesTypeOK' /\ RowsTypeOK'  BY <1>0, <2>1, <2>5, <3>1 DEF FilesTypeOK, RowsTypeOK
    <3>3. ~Moving'  BY <3>1 DEF Moving
    <3>4. MoveInv'  BY <2>4, <2>5, <3>3, MoveInvStartsEnds
    <3>5. OrganizeInv'  BY <1>0, <2>1, <3>1, OrganizeKept
    <3>6. TrashJobInv'  BY <2>1, <2>2, <2>5, <3>1 DEF TrashJobInv, Deleting, Restoring, Purging, Here
    <3> QED  BY <2>3, <3>2, <3>4, <3>5, <3>6
  <2>6. CASE job' = [NoJob EXCEPT !.kind = "restore", !.step = "move", !.id = rplan] /\ StartMove(rec[rplan].slot, rec[rplan].orig)
    <3>1. job' \in Jobs /\ job'.kind = "restore" /\ job'.step = "move" /\ job'.id = rplan
      BY <2>2, <2>6, EmptyFacts DEF Jobs, JobKinds, JobSteps
    <3>2. mv' = [at |-> "ready", src |-> rec[rplan].slot, dst |-> rec[rplan].orig, data |-> NoFile]  BY <2>6 DEF StartMove
    <3>3. FilesTypeOK' /\ RowsTypeOK'
      BY <1>0, <2>1, <2>2, <3>1, <3>2, BytesFacts, PlaceFacts DEF FilesTypeOK, RowsTypeOK, MoveSteps
    <3>4. Moving'  BY <3>1 DEF Moving
    <3>5. MoveInv'  BY <2>2, <3>2, <3>4, PlaceFacts, MoveInvStartsEnds
    <3>6. OrganizeInv'  BY <1>0, <2>1, <3>1, OrganizeKept
    <3>7. TrashJobInv'  BY <2>1, <2>2, <3>1, <3>2 DEF TrashJobInv, Deleting, Restoring, Purging
    <3> QED  BY <2>3, <3>3, <3>5, <3>6, <3>7
  <2>7. CASE job' = job /\ mv' = mv
    <3>1. FilesTypeOK' /\ RowsTypeOK'  BY <1>0, <2>1, <2>7 DEF FilesTypeOK, RowsTypeOK
    <3>2. MoveInv'  BY <2>1, <2>4, <2>7, MoveInvStartsEnds DEF Moving
    <3>3. OrganizeInv'  BY <1>0, <2>1, <2>7, OrganizeKept
    <3>4. TrashJobInv'  BY <2>1, <2>7, NoJobInv
    <3> QED  BY <2>3, <3>1, <3>2, <3>3, <3>4
  <2> QED  BY <1>1, <2>5, <2>6, <2>7 DEF Restore
<1>2. CASE RestoreMoved
  <2>1. /\ Restoring("move") /\ mv.at = "done" /\ mv' = NoMove /\ job' = [job EXCEPT !.step = "scan"]
        /\ UNCHANGED <<disk, row, other, gone, phase, saved, jr, oplan, trashVars>>
    BY <1>2 DEF RestoreMoved
  <2>2. job.kind = "restore" /\ ~Here(rec[job.id].slot)
    BY <1>0, <1>d, <2>1 DEF TrashJobInv, MoveInv, Restoring
  <2>3. job' \in Jobs /\ job'.kind = "restore" /\ job'.step = "scan" /\ job'.id = job.id
    BY <1>0, <2>1, <2>2 DEF RowsTypeOK, Jobs, JobSteps
  <2>4. FilesTypeOK' /\ RowsTypeOK'  BY <1>0, <2>1, <2>3, EmptyFacts DEF FilesTypeOK, RowsTypeOK, trashVars
  <2>5. ~Moving'  BY <2>3 DEF Moving
  <2>6. MoveInv'  BY <2>1, <2>5, EmptyFacts, MoveInvStartsEnds
  <2>7. OrganizeInv'  BY <1>0, <1>d, <2>1, <2>2, <2>3, OrganizeKept
  <2>8. RecInv' /\ TrashRecorded'  BY <1>0, <1>r, <2>1, RecKept DEF trashVars
  <2>9. TrashJobInv'
    BY <1>d, <2>1, <2>2, <2>3 DEF TrashJobInv, Deleting, Restoring, Purging, Here, trashVars
  <2> QED  BY <2>4, <2>6, <2>7, <2>8, <2>9
<1>3. CASE RestoreFails
  <2>1. JobEnds /\ UNCHANGED <<disk, row, other, gone, phase, saved, jr, oplan, trashVars>> /\ job.kind = "restore"
    BY <1>3 DEF RestoreFails, Restoring
  <2>2. FilesTypeOK' /\ RowsTypeOK'  BY <1>0, JobEndsFacts, <2>1 DEF FilesTypeOK, RowsTypeOK, trashVars
  <2>3. OrganizeInv'  BY <1>0, <1>d, JobEndsFacts, <2>1, OrganizeKept
  <2>4. RecInv' /\ TrashRecorded'  BY <1>0, <1>r, <2>1, RecKept DEF trashVars
  <2> QED  BY JobEndsFacts, <2>1, <2>2, <2>3, <2>4
<1>4. CASE RestoreScan
  <2>1. /\ Restoring("scan") /\ ScanPath(rec[job.id].orig) /\ job' = [job EXCEPT !.step = "mark"]
        /\ UNCHANGED <<disk, mv, gone, phase, saved, jr, oplan, trashVars>>
    BY <1>4 DEF RestoreScan
  <2>2. job.kind = "restore" /\ ~Here(rec[job.id].slot) /\ ~Moving
    BY <1>0, <2>1 DEF TrashJobInv, Restoring, Moving
  <2>3. job' \in Jobs /\ job'.kind = "restore" /\ job'.step = "mark" /\ job'.id = job.id
    BY <1>0, <2>1, <2>2 DEF RowsTypeOK, Jobs, JobSteps
  <2>4. row' \in [File -> AnyPath] /\ other' \subseteq Path /\ \A f \in File : row[f] # NoPath => row'[f] # NoPath
    BY <1>0, <1>d, <2>1, <2>2, ScanPathFacts
  <2>5. FilesTypeOK' /\ RowsTypeOK'  BY <1>0, <2>1, <2>3, <2>4 DEF FilesTypeOK, RowsTypeOK, AnyPath, trashVars
  <2>6. ~Moving'  BY <2>3 DEF Moving
  <2>7. MoveInv'  BY <1>0, <2>1, <2>2, <2>6, NotMoving, MoveInvStartsEnds
  <2>8. OrganizeInv'  BY <1>0, <1>d, <2>1, <2>2, <2>3, <2>4, OrganizeKept
  <2>9. RecInv' /\ TrashRecorded'  BY <1>0, <1>r, <2>1, <2>4, RecKept DEF trashVars
  <2>10. TrashJobInv'
    BY <1>d, <2>1, <2>2, <2>3 DEF TrashJobInv, Deleting, Restoring, Purging, Here, trashVars
  <2> QED  BY <2>5, <2>7, <2>8, <2>9, <2>10
<1>5. CASE MarkTrashRestored
  <2>1. /\ Restoring("mark") /\ rec[job.id].st = "active" /\ rec' = [rec EXCEPT ![job.id].st = "restored"] /\ JobEnds
        /\ UNCHANGED <<disk, row, other, gone, phase, saved, jr, oplan, dplan, rplan>>
    BY <1>5 DEF MarkTrashRestored
  <2>2. job.kind = "restore" /\ disk[rec[job.id].slot] = NoFile  BY <1>0, <2>1 DEF TrashJobInv, Restoring, Here
  <2>3. /\ rec' \in [Pid -> RecRows] /\ \A e \in Pid \ {job.id} : rec'[e] = rec[e]
        /\ rec'[job.id].st = "restored" /\ rec'[job.id].file = rec[job.id].file
        /\ rec'[job.id].slot = rec[job.id].slot /\ rec'[job.id].orig = rec[job.id].orig
    BY <1>d, <1>r, <2>1, <2>2 DEF RecRows
  <2>4. FilesTypeOK' /\ RowsTypeOK'  BY <1>0, JobEndsFacts, <2>1, <2>3 DEF FilesTypeOK, RowsTypeOK
  <2>5. OrganizeInv'  BY <1>0, <1>d, JobEndsFacts, <2>1, <2>2, OrganizeKept
  <2>6. dplan.file # NoFile => rec[job.id].slot # dplan.slot  BY <1>0, <1>d, <2>1, <2>2 DEF RecInv
  <2>7. RecInv'
    BY <1>0, <1>d, <2>1, <2>2, <2>3, <2>6 DEF RecInv, RowsTypeOK, Here
  <2>8. TrashRecorded'
    <3> SUFFICES ASSUME NEW s \in Slot, NEW f \in File, disk[s] = Whole(f)
                 PROVE  \E e \in Pid : rec'[e].slot = s /\ rec'[e].st \in {"pending", "active"}
      BY <2>1 DEF TrashRecorded
    <3>1. PICK e \in Pid : rec[e].slot = s /\ rec[e].st \in {"pending", "active"}  BY <1>0 DEF TrashRecorded
    <3>2. e # job.id  BY <2>2, <3>1, BytesFacts
    <3> QED  BY <2>3, <3>1, <3>2
  <2> QED  BY JobEndsFacts, <2>1, <2>4, <2>5, <2>7, <2>8
<1>6. CASE \E e \in Pid : ReadEntry(e)
  <2>1. PICK e \in Pid : ReadEntry(e)  BY <1>6
  <2>2. UNCHANGED <<diskVars, orgVars, rec, dplan>> /\ rplan' = e /\ rec[e].st = "active" /\ phase = "open"  BY <2>1 DEF ReadEntry
  <2>3. FilesTypeOK' /\ RowsTypeOK'  BY <1>0, <2>2, SameFiles DEF RowsTypeOK, orgVars
  <2>4. MoveInv'  BY <1>0, <2>2 DEF MoveInv, Moving, Here, diskVars, orgVars
  <2>5. OrganizeInv'  BY <1>0, <2>2, OrganizeKept DEF diskVars, orgVars
  <2>6. TrashJobInv'
    BY <1>0, <2>2 DEF TrashJobInv, Deleting, Restoring, Purging, Naming, Here, diskVars, orgVars
  <2>7. RecInv'  BY <1>0, <2>2 DEF RecInv, Here, diskVars
  <2>8. TrashRecorded'  BY <1>0, <2>2 DEF TrashRecorded, diskVars
  <2> QED  BY <2>3, <2>4, <2>5, <2>6, <2>7, <2>8
<1> QED  BY <1>1, <1>2, <1>3, <1>4, <1>5, <1>6

\* The steps of PurgeTrash.
LEMMA PurgeSafe ==
  ASSUME IInv, DeleteTrashRow \/ Sweep \/ \E e \in Pid : Purge(e)
  PROVE  IInv'
<1>0. FilesTypeOK /\ RowsTypeOK /\ MoveInv /\ OrganizeInv /\ TrashJobInv /\ RecInv /\ TrashRecorded  BY DEF IInv, TrashInv, TypeOK
<1> SUFFICES FilesTypeOK' /\ RowsTypeOK' /\ MoveInv' /\ OrganizeInv' /\ TrashJobInv' /\ RecInv' /\ TrashRecorded'
  BY DEF IInv, TrashInv, TypeOK
<1>r. dplan.file \in File \cup {NoFile} /\ rec \in [Pid -> RecRows] /\ disk \in [Place -> Bytes]
  BY <1>0 DEF FilesTypeOK, RowsTypeOK
<1>d. job.kind = "purge" => phase = "open" /\ job.id \in Pid /\ rec[job.id].st # "none" /\ ~Moving /\ mv.at = "none"
  BY <1>0, NotMoving DEF TrashJobInv, Moving
<1>1. CASE DeleteTrashRow
  <2>1. UNCHANGED <<diskVars, phase, saved, jr, oplan, dplan, rplan>> /\ Purging("row") /\ job.kind = "purge"
    BY <1>1 DEF DeleteTrashRow, Purging
  <2>2. disk[rec[job.id].slot] = NoFile  BY <1>0, <2>1 DEF TrashJobInv, Here
  <2>3. job' \in Jobs /\ ((job'.kind = "purge" /\ job'.step = "sweep" /\ job'.id = job.id) \/ job'.kind = "none")
    BY <1>0, <1>1, <2>1, EmptyFacts DEF DeleteTrashRow, RowsTypeOK, Jobs, JobSteps
  <2>4. rec' \in {rec, [rec EXCEPT ![job.id].st = "gone"]}  BY <1>1 DEF DeleteTrashRow
  <2>5. /\ rec' \in [Pid -> RecRows] /\ \A e \in Pid \ {job.id} : rec'[e] = rec[e]
        /\ rec'[job.id].st \in {rec[job.id].st, "gone"} /\ rec'[job.id].file = rec[job.id].file /\ rec'[job.id].linked = rec[job.id].linked
        /\ rec'[job.id].slot = rec[job.id].slot /\ rec'[job.id].orig = rec[job.id].orig
    BY <1>d, <1>r, <2>1, <2>4 DEF RecRows
  <2>6. FilesTypeOK' /\ RowsTypeOK'  BY <1>0, <2>1, <2>3, <2>5, SameFiles DEF RowsTypeOK
  <2>7. ~Moving'  BY <2>3 DEF Moving
  <2>8. MoveInv'  BY <1>d, <2>1, <2>7, MoveInvStartsEnds DEF diskVars
  <2>9. OrganizeInv'  BY <1>0, <1>d, <2>1, <2>3, OrganizeKept DEF diskVars
  <2>10. TrashJobInv'
    BY <1>d, <2>1, <2>3, <2>5 DEF TrashJobInv, Deleting, Restoring, Purging
  <2>11. RecInv'
    BY <1>0, <1>d, <2>1, <2>5 DEF RecInv, RowsTypeOK, Here, diskVars
  <2>12. TrashRecorded'
    <3> SUFFICES ASSUME NEW s \in Slot, NEW f \in File, disk[s] = Whole(f)
                 PROVE  \E e \in Pid : rec'[e].slot = s /\ rec'[e].st \in {"pending", "active"}
      BY <2>1 DEF TrashRecorded, diskVars
    <3>1. PICK e \in Pid : rec[e].slot = s /\ rec[e].st \in {"pending", "active"}  BY <1>0 DEF TrashRecorded
    <3>2. e # job.id  BY <2>2, <3>1, BytesFacts
    <3> QED  BY <2>5, <3>1, <3>2
  <2> QED  BY <2>6, <2>8, <2>9, <2>10, <2>11, <2>12
<1>2. CASE Sweep
  <2>1. job' = NoJob /\ UNCHANGED <<row, other, mv, gone, phase, saved, jr, oplan, trashVars>> /\ job.kind = "purge"
    BY <1>2 DEF Sweep, Purging
  <2>2. disk' \in [Place -> Bytes] /\ \A p \in Place : disk'[p] \in {disk[p], NoFile}
    BY <1>2, <1>r, BytesFacts DEF Sweep
  <2>3. FilesTypeOK' /\ RowsTypeOK'  BY <1>0, <2>1, <2>2, EmptyFacts DEF FilesTypeOK, RowsTypeOK, trashVars
  <2>4. job'.kind = "none" /\ ~Moving'  BY <2>1, EmptyFacts DEF Moving
  <2>5. MoveInv'  BY <1>d, <2>1, <2>4, MoveInvStartsEnds
  <2>6. OrganizeInv'  BY <1>0, <1>d, <2>1, <2>4, OrganizeKept
  <2>7. RecInv' /\ TrashRecorded'  BY <1>0, <1>r, <2>1, <2>2, RecKept, PlaceFacts DEF trashVars
  <2> QED  BY <2>3, <2>4, <2>5, <2>6, <2>7, NoJobInv
<1>3. CASE \E e \in Pid : Purge(e)
  <2>1. PICK e \in Pid : Purge(e)  BY <1>3
  <2>2. /\ phase = "open" /\ job.kind = "none" /\ rec[e].st = "active"
        /\ disk' = [disk EXCEPT ![rec[e].slot] = NoFile] /\ gone' = gone \cup LastCopies(rec[e].slot)
        /\ job' = [NoJob EXCEPT !.kind = "purge", !.step = "row", !.id = e]
        /\ UNCHANGED <<row, other, mv, phase, saved, jr, oplan, trashVars>>
    BY <2>1 DEF Purge, Idle
  <2>3. rec[e].slot \in Slot  BY <1>0, <2>2 DEF RecInv
  <2>4. disk' \in [Place -> Bytes] /\ disk'[rec[e].slot] = NoFile /\ \A p \in Place : disk'[p] \in {disk[p], NoFile}
    BY <1>r, <2>2, <2>3, BytesFacts, PlaceFacts
  <2>5. job' \in Jobs /\ job'.kind = "purge" /\ job'.step = "row" /\ job'.id = e
    BY <2>2, EmptyFacts DEF Jobs, JobKinds, JobSteps
  <2>6. gone' \subseteq File  BY <1>0, <2>2 DEF FilesTypeOK, LastCopies
  <2>7. FilesTypeOK' /\ RowsTypeOK'  BY <1>0, <2>2, <2>4, <2>5, <2>6 DEF FilesTypeOK, RowsTypeOK, trashVars
  <2>8. ~Moving /\ ~Moving'  BY <2>2, <2>5 DEF Moving
  <2>9. MoveInv'  BY <1>0, <2>2, <2>8, NotMoving, MoveInvStartsEnds
  <2>10. OrganizeInv'  BY <1>0, <2>2, <2>5, OrganizeKept
  <2>11. RecInv' /\ TrashRecorded'  BY <1>0, <1>r, <2>2, <2>4, RecKept, PlaceFacts DEF trashVars
  <2>12. TrashJobInv'
    BY <2>2, <2>4, <2>5 DEF TrashJobInv, Deleting, Restoring, Purging, Here, trashVars
  <2> QED  BY <2>7, <2>9, <2>10, <2>11, <2>12
<1> QED  BY <1>1, <1>2, <1>3

\* The steps of recoverTrash, and what ends a store.
LEMMA RecoverySafe ==
  ASSUME IInv,
         RecoverTrash \/ TrashRootDown \/ Crash \/ HandOver \/ \E e \in Pid : SettleTrashCopy(e)
  PROVE  IInv'
<1>0. FilesTypeOK /\ RowsTypeOK /\ MoveInv /\ OrganizeInv /\ TrashJobInv /\ RecInv /\ TrashRecorded  BY DEF IInv, TrashInv, TypeOK
<1> SUFFICES FilesTypeOK' /\ RowsTypeOK' /\ MoveInv' /\ OrganizeInv' /\ TrashJobInv' /\ RecInv' /\ TrashRecorded'
  BY DEF IInv, TrashInv, TypeOK
<1>r. dplan.file \in File \cup {NoFile} /\ rec \in [Pid -> RecRows] /\ disk \in [Place -> Bytes]
  BY <1>0 DEF FilesTypeOK, RowsTypeOK
\* Recovery runs before any job does.
<1>d. phase # "open" \/ job.kind = "none" => job.kind = "none" /\ mv.at = "none" /\ ~Moving
  BY <1>0, NotMoving DEF TrashJobInv, Moving
<1>1. CASE RecoverTrash
  <2> DEFINE done == {e \in Pending : Trashed(e)}
             dropped == {e \in Pending : ~Here(rec[e].slot)}
             files == {f \in File : \E e \in done : rec[e].linked /\ rec[e].file = f}
  <2>1. /\ phase = "trash" /\ phase' = "open" /\ DropRows(files)
        /\ UNCHANGED <<disk, other, mv, gone, saved, job, rplan>>
        /\ rec' = [e \in Pid |->
               LET r == Detached(rec, files)[e] IN
               IF e \in done THEN [r EXCEPT !.st = "active"]
               ELSE IF e \in dropped THEN [r EXCEPT !.st = "gone"] ELSE r]
    BY <1>1 DEF RecoverTrash
  <2>2. PICK dn \in SUBSET Pid, dr \in SUBSET Pid, fs \in SUBSET File :
          /\ \A e \in Pid : e \in dn <=> rec[e].st = "pending" /\ Here(rec[e].slot) /\ ~Here(rec[e].orig)
          /\ \A e \in Pid : e \in dr <=> rec[e].st = "pending" /\ ~Here(rec[e].slot)
          /\ \A e \in dn : rec[e].linked /\ rec[e].file \in File => rec[e].file \in fs
          /\ DropRows(fs)
          /\ rec' = [e \in Pid |->
               LET r == Detached(rec, fs)[e] IN
               IF e \in dn THEN [r EXCEPT !.st = "active"]
               ELSE IF e \in dr THEN [r EXCEPT !.st = "gone"] ELSE r]
    <3>1. done \in SUBSET Pid /\ dropped \in SUBSET Pid /\ files \in SUBSET File  BY DEF Pending
    <3>2. /\ \A e \in Pid : e \in done <=> rec[e].st = "pending" /\ Here(rec[e].slot) /\ ~Here(rec[e].orig)
          /\ \A e \in Pid : e \in dropped <=> rec[e].st = "pending" /\ ~Here(rec[e].slot)
          /\ \A e \in done : rec[e].linked /\ rec[e].file \in File => rec[e].file \in files
      BY DEF Pending, Trashed
    <3> HIDE DEF done, dropped, files
    <3> QED  BY <2>1, <3>1, <3>2
  <2>3. disk' = disk /\ job' = job /\ rplan' = rplan /\ job.kind = "none" /\ mv' = mv /\ mv.at = "none" /\ saved' = saved
        /\ phase' = "open"
    BY <1>d, <2>1
  <2>4. /\ row' \in [File -> AnyPath] /\ jr' \in [Jid -> JournalRows]
        /\ oplan' \in [src : [File -> AnyPath], dst : [File -> AnyPath]]
        /\ dplan' \in {dplan, NoDelete} /\ dplan'.file \notin fs
        /\ \A f \in File \ fs : row'[f] = row[f]
        /\ OrganizeInv'
    BY <2>2, <2>3, DropRowsFacts
  <2>5. PICK d \in [Pid -> RecRows] :
        /\ d = Detached(rec, fs)
        /\ \A e \in Pid : d[e].st = rec[e].st /\ d[e].file = rec[e].file /\ d[e].orig = rec[e].orig /\ d[e].slot = rec[e].slot
        /\ \A e \in Pid : rec[e].file \notin fs => d[e] = rec[e]
    BY <1>r, <2>2, DetachedFacts
  <2>6. rec' = [e \in Pid |-> IF e \in dn THEN [d[e] EXCEPT !.st = "active"]
                             ELSE IF e \in dr THEN [d[e] EXCEPT !.st = "gone"] ELSE d[e]]
    BY <2>2, <2>5
  <2>7. \A e \in Pid : /\ rec'[e] \in RecRows /\ rec'[e].file = rec[e].file /\ rec'[e].orig = rec[e].orig /\ rec'[e].slot = rec[e].slot
                       /\ rec'[e].st = (IF e \in dn THEN "active" ELSE IF e \in dr THEN "gone" ELSE rec[e].st)
    <3> TAKE e \in Pid
    <3>1. d[e] \in RecRows  BY <2>5
    <3>2. CASE e \in dn  BY <2>5, <2>6, <3>1, <3>2 DEF RecRows
    <3>3. CASE e \notin dn /\ e \in dr  BY <2>5, <2>6, <3>1, <3>3 DEF RecRows
    <3>4. CASE e \notin dn /\ e \notin dr  BY <2>5, <2>6, <3>1, <3>4
    <3> QED  BY <3>2, <3>3, <3>4
  <2>8. \A e \in Pid : rec[e].file \notin fs /\ e \notin dn /\ e \notin dr => rec'[e] = rec[e]  BY <2>5, <2>6
  <2>9. FilesTypeOK' /\ RowsTypeOK'
    <3>1. rec' \in [Pid -> RecRows]  BY <2>6, <2>7
    <3> QED  BY <1>0, <2>1, <2>4, <3>1, EmptyFacts DEF FilesTypeOK, RowsTypeOK, AnyPath
  <2>10. RecInv'
    <3>1. \A e \in Pid : rec'[e].st # "none" => rec'[e].orig \in Path /\ rec'[e].slot \in Slot /\ rec'[e].file \in File
      <4> SUFFICES ASSUME NEW e \in Pid, rec'[e].st # "none"
                   PROVE  rec'[e].orig \in Path /\ rec'[e].slot \in Slot /\ rec'[e].file \in File
        OBVIOUS
      <4>1. rec[e].st # "none"  BY <2>2, <2>7
      <4> QED  BY <1>0, <2>7, <4>1 DEF RecInv
    <3>2. \A e \in Pid : rec'[e].st = "none" => rec'[e] = NoRec
      <4> SUFFICES ASSUME NEW e \in Pid, rec'[e].st = "none"  PROVE rec'[e] = NoRec  OBVIOUS
      <4>1. rec[e].st = "none" /\ e \notin dn /\ e \notin dr  BY <2>7
      <4>2. rec[e] = NoRec  BY <1>0, <4>1 DEF RecInv
      <4>3. rec[e].file \notin fs  BY <4>2, <2>2, EmptyFacts, TrashAssumption
      <4> QED  BY <2>8, <4>1, <4>2, <4>3
    <3>3. \A e \in Pid : rec'[e].st = "restored" => disk'[rec'[e].slot] = NoFile
      BY <1>0, <2>3, <2>7 DEF RecInv, Here
    <3>4. rplan' # NoFile => rec'[rplan'].st \notin {"none", "pending"}
      BY <1>0, <2>3, <2>7 DEF RecInv, RowsTypeOK
    <3>5. ASSUME dplan'.file # NoFile
          PROVE  /\ dplan'.src \in Path /\ dplan'.slot \in Slot /\ row'[dplan'.file] # NoPath
                 /\ \A e \in Pid : rec'[e].slot = dplan'.slot =>
                      rec'[e].st = "gone" \/ (rec'[e].st = "pending" /\ rec'[e].linked /\ rec'[e].file = dplan'.file)
      <4>1. dplan' = dplan /\ dplan.file \in File \ fs /\ dplan.file # NoFile  BY <1>r, <2>4, <3>5, EmptyFacts
      <4>2. dplan.src \in Path /\ dplan.slot \in Slot /\ row'[dplan.file] # NoPath  BY <1>0, <2>4, <4>1 DEF RecInv
      <4>3. ASSUME NEW e \in Pid, rec'[e].slot = dplan.slot
            PROVE  rec'[e].st = "gone" \/ (rec'[e].st = "pending" /\ rec'[e].linked /\ rec'[e].file = dplan.file)
        <5>1. rec[e].st = "gone" \/ (rec[e].st = "pending" /\ rec[e].linked /\ rec[e].file = dplan.file)
          BY <1>0, <2>7, <4>1, <4>3 DEF RecInv
        <5>2. CASE rec[e].st = "gone"  BY <2>2, <2>7, <5>2
        <5>3. CASE rec[e].st = "pending" /\ rec[e].linked /\ rec[e].file = dplan.file
          <6>1. e \notin dn  BY <2>2, <4>1, <5>3
          <6>2. CASE e \in dr  BY <2>7, <6>1, <6>2
          <6>3. CASE e \notin dr  BY <2>8, <4>1, <5>3, <6>1, <6>3
          <6> QED  BY <6>2, <6>3
        <5> QED  BY <5>1, <5>2, <5>3
      <4> QED  BY <4>1, <4>2, <4>3
    <3> QED  BY <3>1, <3>2, <3>3, <3>4, <3>5 DEF RecInv, Here
  <2>11. TrashRecorded'
    <3> SUFFICES ASSUME NEW s \in Slot, NEW f \in File, disk[s] = Whole(f)
                 PROVE  \E e \in Pid : rec'[e].slot = s /\ rec'[e].st \in {"pending", "active"}
      BY <2>3 DEF TrashRecorded
    <3>1. PICK e \in Pid : rec[e].slot = s /\ rec[e].st \in {"pending", "active"}  BY <1>0 DEF TrashRecorded
    <3>2. e \notin dr  BY <2>2, <3>1, BytesFacts DEF Here
    <3> QED  BY <2>7, <3>1, <3>2
  <2>12. MoveInv'  BY <2>3, MoveInvStartsEnds DEF Moving
  <2>13. TrashJobInv'  BY <2>3, NoJobInv
  <2> QED  BY <2>4, <2>9, <2>10, <2>11, <2>12, <2>13
<1>2. CASE TrashRootDown \/ HandOver
  <2>1. UNCHANGED <<diskVars, saved, job, jr, oplan, trashVars>> /\ phase' \in {"open", "down"} /\ job.kind = "none"
    BY <1>2, <1>d DEF TrashRootDown, HandOver, Idle
  <2>2. FilesTypeOK' /\ RowsTypeOK'  BY <1>0, <2>1, SameFiles DEF RowsTypeOK, trashVars
  <2>3. MoveInv'  BY <1>d, <2>1, MoveInvStartsEnds DEF Moving, diskVars
  <2>4. OrganizeInv'  BY <1>0, <2>1, OrganizeKept DEF diskVars
  <2>5. RecInv' /\ TrashRecorded'  BY <1>0, <1>r, <2>1, RecKept DEF diskVars, trashVars
  <2> QED  BY <2>1, <2>2, <2>3, <2>4, <2>5, NoJobInv
<1>3. CASE Crash
  <2>1. /\ JobEnds /\ oplan' = NoPlan /\ dplan' = NoDelete /\ rplan' = NoFile /\ phase' = "down"
        /\ UNCHANGED <<disk, row, other, gone, saved, jr, rec>>
    BY <1>3 DEF Crash
  <2>2. FilesTypeOK' /\ RowsTypeOK'  BY <1>0, <2>1, JobEndsFacts, EmptyFacts DEF FilesTypeOK, RowsTypeOK
  <2>3. OrganizeInv'  BY <1>0, <2>1, JobEndsFacts, OrganizeKept
  <2>4. RecInv' /\ TrashRecorded'  BY <1>0, <1>r, <2>1, RecKept
  <2> QED  BY <2>1, <2>2, <2>3, <2>4, JobEndsFacts
<1>4. CASE \E e \in Pid : SettleTrashCopy(e)
  <2>1. PICK e \in Pid : SettleTrashCopy(e)  BY <1>4
  <2>2. phase = "trash" /\ rec[e].st = "pending" /\ disk' = [disk EXCEPT ![rec[e].slot] = NoFile]
        /\ UNCHANGED <<row, other, mv, gone, orgVars, trashVars>>
    BY <2>1 DEF SettleTrashCopy, Pending
  <2>3. rec[e].slot \in Slot  BY <1>0, <2>2 DEF RecInv
  <2>4. disk' \in [Place -> Bytes] /\ \A p \in Place : disk'[p] \in {disk[p], NoFile}
    BY <1>r, <2>2, <2>3, BytesFacts, PlaceFacts
  <2>5. FilesTypeOK' /\ RowsTypeOK'  BY <1>0, <2>2, <2>4 DEF FilesTypeOK, RowsTypeOK, orgVars, trashVars
  <2>6. job' = job /\ job.kind = "none" /\ mv.at = "none"  BY <1>d, <2>2 DEF orgVars
  <2>7. MoveInv'  BY <2>2, <2>6, MoveInvStartsEnds DEF Moving
  <2>8. OrganizeInv'  BY <1>0, <2>2, <2>6, OrganizeKept DEF orgVars
  <2>9. RecInv' /\ TrashRecorded'  BY <1>0, <1>r, <2>2, <2>4, RecKept, PlaceFacts DEF trashVars
  <2> QED  BY <2>5, <2>6, <2>7, <2>8, <2>9, NoJobInv
<1> QED  BY <1>1, <1>2, <1>3, <1>4

\* The invariant holds at the start: every file in its place and no trash.
LEMMA InitSafe ==
  ASSUME Init
  PROVE  IInv
<1> USE DEF Init, OrgInit, FilesInit
<1>1. FilesTypeOK
  <2>1. disk \in [Place -> Bytes]  BY BytesFacts
  <2> QED  BY <2>1, EmptyFacts DEF FilesTypeOK
<1>2. RowsTypeOK  BY EmptyFacts DEF RowsTypeOK
<1>3. job.kind = "none" /\ mv.at = "none" /\ phase = "open" /\ dplan.file = NoFile /\ rplan = NoFile  BY EmptyFacts
<1>4. MoveInv  BY <1>3 DEF MoveInv, Moving
<1>5. OrganizeInv  BY <1>3, EmptyFacts DEF OrganizeInv
<1>6. TrashJobInv  BY <1>3 DEF TrashJobInv, Deleting, Restoring, Purging
<1>7. RecInv  BY <1>3, EmptyFacts DEF RecInv
<1>8. TrashRecorded  BY PlaceFacts DEF TrashRecorded
<1> QED  BY <1>1, <1>2, <1>4, <1>5, <1>6, <1>7, <1>8 DEF IInv, TrashInv, TypeOK

\* Every step of the system leaves the invariant.
LEMMA StepSafe ==
  ASSUME IInv, [Next]_vars
  PROVE  IInv'
<1>1. CASE MoveStep /\ UNCHANGED <<orgVars, trashVars>>  BY <1>1, MoveStepSafe
<1>2. CASE UserStep /\ UNCHANGED <<orgVars, trashVars>>  BY <1>2, UserStepSafe
<1>3. CASE OrgStep /\ UNCHANGED trashVars  BY <1>3, OrgStepSafe
<1>4. CASE TrashStep  BY <1>4, DeleteSafe, RestoreSafe, PurgeSafe, RecoverySafe DEF TrashStep
<1>5. CASE UNCHANGED vars
  <2> USE <1>5 DEF vars, diskVars, orgVars, trashVars, IInv, TrashInv, TypeOK
  <2>1. FilesTypeOK' /\ RowsTypeOK'  BY DEF FilesTypeOK, RowsTypeOK
  <2>2. MoveInv' /\ OrganizeInv'  BY DEF MoveInv, OrganizeInv, Moving, Here
  <2>3. TrashJobInv'  BY DEF TrashJobInv, Deleting, Restoring, Purging, Naming, Here
  <2>4. RecInv' /\ TrashRecorded'  BY DEF RecInv, TrashRecorded, Here
  <2> QED  BY <2>1, <2>2, <2>3, <2>4
<1> QED  BY <1>1, <1>2, <1>3, <1>4, <1>5 DEF Next

\* What strayed stays on record.
LEMMA StrayedGrows ==
  ASSUME IInv, StrayedOK, [Next]_vars
  PROVE  strayed \subseteq strayed' /\ StrayedOK'
<1>0. RowsTypeOK /\ TrashJobInv /\ RecInv  BY DEF IInv, TrashInv, TypeOK
<1>j. Deleting("detach") => job.file \in File  BY <1>0 DEF TrashJobInv, Deleting
<1>1. CASE (MoveStep \/ UserStep) /\ UNCHANGED <<orgVars, trashVars>>  BY <1>1 DEF orgVars, StrayedOK
<1>2. CASE OrgStep
  <2>1. CASE \E plan : Execute(plan)  BY <2>1 DEF Execute, StrayedOK
  <2>2. CASE strayed' = strayed  BY <2>2 DEF StrayedOK
  <2>3. (\E plan : Execute(plan)) \/ strayed' = strayed
    BY <1>2 DEF OrgStep, PlanOrganize, RunOrganize, ApplyOrganize, CommitMove, CommitMoveFails, AbortMove, ExecuteEnds,
      BeginRecovery, MovesRecovered, MovesUnrecovered, Apply, Park, PlanMove, FinishMove, RollBackMove, Scan, orgVars
  <2> QED  BY <2>1, <2>2, <2>3
<1>3. CASE TrashStep
  <2>1. CASE RemoveFile \/ (\E e \in Pid : PlanTrash(e))
    <3>1. dplan.file \in File  BY <1>0, <2>1 DEF RemoveFile, PlanTrash, CanApplyDelete, RowsTypeOK
    <3>2. strayed' = strayed \cup StaleDelete  BY <2>1 DEF RemoveFile, PlanTrash
    <3> QED  BY <3>1, <3>2 DEF StaleDelete, StrayedOK
  <2>2. CASE Crash  BY <1>j, <2>2 DEF Crash, StrayedOK
  <2>3. CASE strayed' = strayed  BY <2>3 DEF StrayedOK
  <2>4. RemoveFile \/ (\E e \in Pid : PlanTrash(e)) \/ Crash \/ strayed' = strayed
    BY <1>3 DEF TrashStep, TrashFile, TrashFileFails, AbortTrash, KeepPending, DetachFile, Restore, RestoreMoved, RestoreFails,
      RestoreScan, MarkTrashRestored, DeleteTrashRow, Sweep, RecoverTrash, TrashRootDown, HandOver, PlanDelete,
      ReadEntry, Purge, SettleTrashCopy, orgVars
  <2> QED  BY <2>1, <2>2, <2>3, <2>4
<1>4. CASE UNCHANGED vars  BY <1>4 DEF vars, orgVars, StrayedOK
<1> QED  BY <1>1, <1>2, <1>3, <1>4 DEF Next

\* Moves, jobs, journal rows, trash rows and plans agree in every reachable
\* state, whatever is cut off, fails, or is done by hand meanwhile.
THEOREM TrashInvariance == Spec => [](TrashInv /\ StrayedOK)
<1>1. Init => IInv /\ StrayedOK  BY InitSafe DEF Init, OrgInit, StrayedOK
<1>2. IInv /\ StrayedOK /\ [Next]_vars => IInv' /\ StrayedOK'  BY StepSafe, StrayedGrows
<1>3. IInv /\ StrayedOK => TrashInv /\ StrayedOK  BY DEF IInv
<1> QED  BY <1>1, <1>2, <1>3, PTL DEF Spec

\* What ApplyDelete, restore, purge, sweep and recoverTrash leave in the trash is
\* always named by a row of the catalog.
THEOREM TrashRecordedHolds == Spec => []TrashRecorded
<1>1. Init => IInv  BY InitSafe
<1>2. IInv /\ [Next]_vars => IInv'  BY StepSafe
<1>3. IInv => TrashRecorded  BY DEF IInv
<1> QED  BY <1>1, <1>2, <1>3, PTL DEF Spec

-----------------------------------------------------------------------------
\* A step loses no file's last whole copy but by request.
Kept == gone \subseteq gone' /\ \A f \in File : Held(f) => Held(f)' \/ f \in gone'

\* A step that leaves the tree alone loses nothing.
LEMMA KeptUnchanged ==
  ASSUME disk' = disk, gone' = gone
  PROVE  Kept
BY DEF Kept, Held

\* What is emptied stands elsewhere too.
LEMMA KeptElsewhere ==
  ASSUME disk \in [Place -> Bytes], NEW p \in Place, NEW q \in Place, p # q,
         disk' = [disk EXCEPT ![p] = NoFile], \A f \in File : disk[p] = Whole(f) => disk[q] = Whole(f), gone' = gone
  PROVE  Kept
<1>1. \A r \in Place \ {p} : disk'[r] = disk[r]  OBVIOUS
<1> QED  BY <1>1 DEF Kept, Held

\* What is emptied was to go.
LEMMA KeptRequested ==
  ASSUME disk \in [Place -> Bytes], NEW p \in Place, disk' = [disk EXCEPT ![p] = NoFile], gone' = gone \cup LastCopies(p)
  PROVE  Kept
<1>1. \A r \in Place \ {p} : disk'[r] = disk[r]  OBVIOUS
<1> QED  BY <1>1 DEF Kept, Held, LastCopies

\* What is moved stands at its new place, where nothing stood.
LEMMA KeptMoved ==
  ASSUME disk \in [Place -> Bytes], NEW p \in Place, NEW q \in Place, p # q, disk[q] = NoFile,
         disk' = [disk EXCEPT ![q] = disk[p], ![p] = NoFile], gone' = gone
  PROVE  Kept
<1>1. disk'[q] = disk[p] /\ \A r \in Place \ {p, q} : disk'[r] = disk[r]  OBVIOUS
<1> QED  BY <1>1, BytesFacts DEF Kept, Held

\* What is written over was no whole file.
LEMMA KeptFilled ==
  ASSUME disk \in [Place -> Bytes], NEW q \in Place, \A f \in File : disk[q] # Whole(f),
         NEW b, disk' = [disk EXCEPT ![q] = b], gone' = gone
  PROVE  Kept
<1>1. \A r \in Place \ {q} : disk'[r] = disk[r]  OBVIOUS
<1> QED  BY <1>1 DEF Kept, Held

\* The original of a whole copy is the same whole file.
LEMMA OriginalOfCopy ==
  ASSUME disk \in [Place -> Bytes], NEW o \in Place, NEW c \in Place, CopyOfStart(o, c), NEW f \in File, disk[c] = Whole(f)
  PROVE  disk[o] = Whole(f)
<1>1. disk[o] \in Bytes /\ disk[o] # NoFile /\ disk[o][1] = f /\ disk[o][2] = "whole"
  BY DEF CopyOfStart, Here, Whole
<1> QED  BY <1>1 DEF Bytes, Whole

\* Every step keeps a whole copy of every file nobody asked to delete.
LEMMA StepKeeps ==
  ASSUME ~UserRaces, IInv, [Next]_vars
  PROVE  Kept
<1>0. FilesTypeOK /\ RowsTypeOK /\ MoveInv /\ OrganizeInv /\ TrashJobInv /\ RecInv  BY DEF IInv, TrashInv, TypeOK
<1>d. disk \in [Place -> Bytes]  BY <1>0 DEF FilesTypeOK
<1>1. CASE MoveStep
  <2>0. mv.at # "none" => mv.src \in Place /\ mv.dst \in Place /\ mv.src # mv.dst  BY <1>0 DEF MoveInv
  <2>1. CASE MoveRefused \/ MoveChecked \/ MoveFails \/ SourceStays \/ CopyLeft
    BY <2>1, KeptUnchanged DEF MoveRefused, MoveChecked, MoveFails, SourceStays, CopyLeft
  <2>2. CASE MoveRename
    <3>1. disk[mv.dst] = NoFile  BY <1>0, <2>2 DEF MoveRename, MoveInv, Here
    <3> QED  BY <1>d, <2>0, <2>2, <3>1, KeptMoved DEF MoveRename
  <2>3. CASE CopyStarts
    <3>1. CASE Here(mv.dst)  BY <2>3, <3>1, KeptUnchanged DEF CopyStarts
    <3>2. CASE ~Here(mv.dst)  BY <1>d, <2>0, <2>3, <3>2, KeptFilled, BytesFacts DEF CopyStarts, Here
    <3> QED  BY <3>1, <3>2
  <2>4. CASE CopyEnds \/ CopyFails
    <3>1. mv.at = "copying" /\ gone' = gone  BY <2>4 DEF CopyEnds, CopyFails
    <3>2. mv.data \in Bytes /\ mv.data # NoFile /\ disk[mv.dst] = Part(mv.data[1])  BY <1>0, <3>1 DEF MoveInv, FilesTypeOK
    <3>3. \A f \in File : disk[mv.dst] # Whole(f)  BY <3>2, BytesFacts
    <3>4. disk' = disk \/ disk' = [disk EXCEPT ![mv.dst] = mv.data] \/ disk' = [disk EXCEPT ![mv.dst] = NoFile]
      BY <2>4 DEF CopyEnds, CopyFails
    <3> QED  BY <1>d, <2>0, <3>1, <3>3, <3>4, KeptFilled, KeptUnchanged
  <2>5. CASE SourceRemoved
    <3>1. \A f \in File : disk[mv.src] = Whole(f) => disk[mv.dst] = Whole(f)
      BY <1>0, <2>5, BytesFacts DEF SourceRemoved, MoveInv
    <3> QED  BY <1>d, <2>0, <2>5, <3>1, KeptElsewhere DEF SourceRemoved
  <2>6. CASE CopyDropped
    <3>1. \A f \in File : disk[mv.dst] = Whole(f) => disk[mv.src] = Whole(f)
      BY <1>0, <2>6 DEF CopyDropped, MoveInv
    <3> QED  BY <1>d, <2>0, <2>6, <3>1, KeptElsewhere DEF CopyDropped
  <2> QED  BY <1>1, <2>1, <2>2, <2>3, <2>4, <2>5, <2>6 DEF MoveStep
<1>2. CASE UserStep
  <2>1. CASE \E p \in Path : UserRemoves(p)  BY <1>d, <2>1, KeptRequested, PlaceFacts DEF UserRemoves
  <2>2. CASE \E p, q \in Path : UserMoves(p, q)
    <3>1. PICK p \in Path, q \in Path : UserMoves(p, q)  BY <2>2
    <3>2. disk[q] = NoFile /\ p # q  BY <3>1 DEF UserMoves, Here
    <3> QED  BY <1>d, <3>1, <3>2, KeptMoved, PlaceFacts DEF UserMoves
  <2>3. CASE \E s \in Slot, q \in Path : UserCopies(s, q)
    <3>1. PICK s \in Slot, q \in Path : UserCopies(s, q)  BY <2>3
    <3>2. \A f \in File : disk[q] # Whole(f)  BY <3>1, BytesFacts DEF UserCopies, Here
    <3> QED  BY <1>d, <3>1, <3>2, KeptFilled, PlaceFacts DEF UserCopies
  <2> QED  BY <1>2, <2>1, <2>2, <2>3 DEF UserStep
<1>3. CASE OrgStep
  <2>1. CASE \E j \in Jid : RollBackMove(j)
    <3>1. PICK j \in Jid : RollBackMove(j)  BY <2>1
    <3>2. jr[j].src \in Place /\ jr[j].dst \in Place /\ jr[j].src # jr[j].dst
      BY <1>0, <3>1, PlaceFacts DEF RollBackMove, OrganizeInv
    <3>3. gone' = gone /\ (disk' = disk \/ (CopyOfStart(jr[j].src, jr[j].dst) /\ disk' = [disk EXCEPT ![jr[j].dst] = NoFile]))
      BY <3>1 DEF RollBackMove
    <3>4. CASE disk' = disk  BY <3>3, <3>4, KeptUnchanged
    <3>5. CASE CopyOfStart(jr[j].src, jr[j].dst) /\ disk' = [disk EXCEPT ![jr[j].dst] = NoFile]
      <4>1. \A f \in File : disk[jr[j].dst] = Whole(f) => disk[jr[j].src] = Whole(f)
        BY <1>d, <3>2, <3>5, OriginalOfCopy
      <4> QED  BY <1>d, <3>2, <3>3, <3>5, <4>1, KeptElsewhere
    <3> QED  BY <3>3, <3>4, <3>5
  <2>2. CASE disk' = disk /\ gone' = gone  BY <2>2, KeptUnchanged
  <2>3. (\E j \in Jid : RollBackMove(j)) \/ (disk' = disk /\ gone' = gone)
    BY <1>3 DEF OrgStep, PlanOrganize, RunOrganize, ApplyOrganize, Execute, CommitMove, CommitMoveFails, AbortMove, ExecuteEnds,
      BeginRecovery, MovesRecovered, MovesUnrecovered, Apply, Park, PlanMove, FinishMove, Scan, diskVars
  <2> QED  BY <2>1, <2>2, <2>3
<1>4. CASE TrashStep
  <2>1. CASE RemoveFile
    <3>1. dplan.src \in Place  BY <1>0, <2>1, PlaceFacts DEF RemoveFile, CanApplyDelete, RecInv
    <3> QED  BY <1>d, <2>1, <3>1, KeptRequested DEF RemoveFile
  <2>2. CASE \E e \in Pid : Purge(e)
    <3>1. PICK e \in Pid : Purge(e)  BY <2>2
    <3>2. rec[e].slot \in Place  BY <1>0, <3>1, PlaceFacts DEF Purge, RecInv
    <3> QED  BY <1>d, <3>1, <3>2, KeptRequested DEF Purge
  <2>3. CASE Sweep
    <3>1. \A s \in Swept : disk[s] = NoFile  BY <1>0 DEF Swept, RecInv, Here
    <3>2. gone' = gone /\ \A p \in Place : disk'[p] = disk[p]  BY <2>3, <3>1 DEF Sweep
    <3> QED  BY <3>2 DEF Kept, Held
  <2>4. CASE \E e \in Pid : SettleTrashCopy(e)
    <3>1. PICK e \in Pid : SettleTrashCopy(e)  BY <2>4
    <3>2. rec[e].slot \in Place /\ rec[e].orig \in Place /\ rec[e].slot # rec[e].orig
      BY <1>0, <3>1, PlaceFacts DEF SettleTrashCopy, Pending, RecInv
    <3>3. \A f \in File : disk[rec[e].slot] = Whole(f) => disk[rec[e].orig] = Whole(f)
      BY <1>d, <3>1, <3>2, OriginalOfCopy DEF SettleTrashCopy
    <3> QED  BY <1>d, <3>1, <3>2, <3>3, KeptElsewhere DEF SettleTrashCopy
  <2>5. \/ RemoveFile \/ (\E e \in Pid : Purge(e)) \/ Sweep \/ (\E e \in Pid : SettleTrashCopy(e))
        \/ disk' = disk /\ gone' = gone
    BY <1>4 DEF TrashStep, TrashFile, TrashFileFails, AbortTrash, KeepPending, DetachFile, Restore, RestoreMoved, RestoreFails,
      RestoreScan, MarkTrashRestored, DeleteTrashRow, RecoverTrash, TrashRootDown, Crash, HandOver, PlanDelete, PlanTrash,
      ReadEntry, diskVars
  <2> QED  BY <2>1, <2>2, <2>3, <2>4, <2>5, KeptUnchanged
<1>5. CASE UNCHANGED vars  BY <1>5, KeptUnchanged DEF vars, diskVars
<1> QED  BY <1>1, <1>2, <1>3, <1>4, <1>5 DEF Next

\* As long as nobody puts a file at the destination of a move between its check and
\* its rename, no move, rollback, sweep or recovery makes an end of a file.
THEOREM NoBytesLostHolds ==
  ASSUME ~UserRaces
  PROVE  Spec => []NoBytesLost
<1>1. Init => IInv /\ NoBytesLost
  <2>1. Init => NoBytesLost  BY PlaceFacts DEF Init, OrgInit, FilesInit, NoBytesLost, Held
  <2> QED  BY <2>1, InitSafe
<1>2. IInv /\ NoBytesLost /\ [Next]_vars => IInv' /\ NoBytesLost'
  <2> SUFFICES ASSUME IInv, NoBytesLost, [Next]_vars  PROVE IInv' /\ NoBytesLost'  OBVIOUS
  <2>1. Kept  BY StepKeeps
  <2>2. NoBytesLost'  BY <2>1 DEF Kept, NoBytesLost
  <2> QED  BY <2>2, StepSafe
<1> QED  BY <1>1, <1>2, PTL DEF Spec

-----------------------------------------------------------------------------
(***************************************************************************)
(* Catalog and disk, when the process may die at any point but nothing     *)
(* fails and nobody touches the tree by hand, until a plan is applied to a *)
(* path its file has left or a delete for good is cut off half-way.        *)
(***************************************************************************)
Faultless == ~IOFaults /\ ~DBFaults /\ ~UserActs /\ ~UserRaces

\* The journal rows of moves that have begun and are not settled.
Planned(js) == {j \in Jid : js[j].st = "planned"}

\* The file of an unsettled move stands where it was, or at the destination alone.
MoveWhere(f, src, dst) == disk[src] = Whole(f) \/ (~Here(src) /\ disk[dst] = Whole(f))

\* No row names the place.
Unnamed(rw, p) == p \notin other /\ \A f \in File : rw[f] # p

\* Rows name different paths, and a row's file stands at its path unless a move of it is not settled.
RowsApart(rw) ==
  /\ \A f, g \in File : rw[f] = rw[g] /\ rw[f] # NoPath => f = g
  /\ \A f \in File : rw[f] \notin other

RowsStand(rw, js) == \A f \in File : rw[f] # NoPath =>
  \/ disk[rw[f]] = Whole(f)
  \/ \E j \in Jid : js[j].st = "planned" /\ js[j].file = f
  \/ \E e \in Pid : rec[e].st = "pending" /\ rec[e].file = f

\* One move at most is not settled, whether it is in the journal or on its way to the trash.
OneUnsettled(js) ==
  /\ \A j, k \in Jid : js[j].st = "planned" /\ js[k].st = "planned" => j = k
  /\ \A d, e \in Pid : rec[d].st = "pending" /\ rec[e].st = "pending" => d = e
  /\ \A j \in Jid, e \in Pid : ~(js[j].st = "planned" /\ rec[e].st = "pending")

\* The file of a planned journal row, and that of a pending trash row.
JournalStands(rw, js) == \A j \in Jid : js[j].st = "planned" =>
  /\ js[j].linked /\ js[j].file \in File /\ rw[js[j].file] = js[j].src
  /\ {js[j].src, js[j].dst} \subseteq Path /\ js[j].src # js[j].dst
  /\ MoveWhere(js[j].file, js[j].src, js[j].dst)
  /\ ~Here(js[j].src) => Unnamed(rw, js[j].dst)

PendingStand(rw) == \A e \in Pid : rec[e].st = "pending" =>
  /\ rec[e].linked /\ rec[e].file \in File /\ rw[rec[e].file] = rec[e].orig
  /\ rec[e].orig \in Path /\ rec[e].slot \in Slot
  /\ MoveWhere(rec[e].file, rec[e].orig, rec[e].slot)

\* The catalog against the disk, for the rows and the journal as they are or as a
\* recovery's transaction found them.
RowsOK(rw, js) ==
  RowsApart(rw) /\ RowsStand(rw, js) /\ OneUnsettled(js) /\ JournalStands(rw, js) /\ PendingStand(rw)

\* Rows of copies name what stands; a trash folder holds the file of its row.
PlacesOK ==
  /\ \A p \in other : Here(p)
  /\ \A e \in Pid : rec[e].st \in {"pending", "active"} /\ Here(rec[e].slot) => disk[rec[e].slot][1] = rec[e].file

\* Who works on what is not settled.
UnsettledOK ==
  /\ phase = "open" =>
       /\ \A j \in Jid : jr[j].st = "planned" => job.kind = "organize" /\ job.step \in {"apply", "park"} /\ j = job.id
       /\ \A e \in Pid : rec[e].st = "pending" => Deleting("move") /\ e = job.id
  /\ phase = "trash" => \A j \in Jid : jr[j].st # "planned"
  /\ phase = "moves" =>
       /\ RowsOK(saved.row, saved.jr)
       /\ (\A j \in Jid : jr[j].st # "planned") \/ (saved.row = row /\ saved.jr = jr)

\* The moves of organize and of a delete: the file is at the source until the move is
\* made, and no row has the destination.
Taking == (job.kind = "organize" /\ Moving) \/ Deleting("move")
TakingOK ==
  /\ Taking => /\ job.file \in File /\ row[job.file] = mv.src /\ mv.src \in Path
               /\ IF mv.at = "done" THEN ~Here(mv.src) /\ disk[mv.dst] = Whole(job.file)
                                    ELSE disk[mv.src] = Whole(job.file)
  /\ job.kind = "organize" /\ Moving =>
       jr[job.id].st = "planned" /\ jr[job.id].file = job.file /\ jr[job.id].src = mv.src /\ jr[job.id].dst = mv.dst
  /\ Deleting("move") => rec[job.id].orig = mv.src /\ mv.at # "failed" /\ (mv.at \in {"ready", "checked"} => ~Here(mv.dst))

JobOK ==
  /\ mv.at \notin {"stuck", "copyleft"} /\ ~Deleting("back") /\ ~Deleting("detach")
  /\ job.kind = "organize" => \A f \in job.todo : row[f] = job.src[f]
  /\ mv.at \in {"copying", "copied", "done"} => Unnamed(row, mv.dst)

\* A delete plan's folder is empty until its job fills it.
PlansOK ==
  dplan.file # NoFile => ~Here(dplan.slot) \/ (Deleting("move") /\ rec[job.id].slot = dplan.slot)

AgreeInv == RowsOK(row, jr) /\ PlacesOK /\ UnsettledOK /\ TakingOK /\ JobOK /\ PlansOK

\* A delete for good between the removal and the row: the file's row alone names nothing.
DetachOK ==
  /\ Deleting("detach") /\ phase = "open" /\ mv.at = "none" /\ job.file \in File
  /\ \A j \in Jid : jr[j].st # "planned"
  /\ \A e \in Pid : rec[e].st # "pending"
  /\ RowsApart(row) /\ PlacesOK
  /\ \A f \in File \ {job.file} : row[f] # NoPath => disk[row[f]] = Whole(f)
  /\ dplan.file # NoFile => ~Here(dplan.slot)

Agree == AgreeInv \/ DetachOK

-----------------------------------------------------------------------------
\* A library path where nothing stands is no row's, unless a move of its row's file is not settled.
LEMMA NothingNamed ==
  ASSUME RowsOK(row, jr), PlacesOK, NEW p \in Path, ~Here(p),
         \A j \in Jid : jr[j].st = "planned" => jr[j].src # p,
         \A e \in Pid : rec[e].st = "pending" => rec[e].orig # p
  PROVE  Unnamed(row, p)
<1>1. p \notin other  BY DEF PlacesOK
<1>2. ASSUME NEW f \in File, row[f] = p  PROVE FALSE
  <2>1. disk[p] # Whole(f) /\ row[f] # NoPath  BY <1>2, BytesFacts, PlaceFacts DEF Here
  <2>2. CASE \E j \in Jid : jr[j].st = "planned" /\ jr[j].file = f  BY <1>2, <2>2 DEF RowsOK, JournalStands
  <2>3. CASE \E e \in Pid : rec[e].st = "pending" /\ rec[e].file = f  BY <1>2, <2>3 DEF RowsOK, PendingStand
  <2> QED  BY <1>2, <2>1, <2>2, <2>3 DEF RowsOK, RowsStand
<1> QED  BY <1>1, <1>2 DEF Unnamed

\* No row names a trash folder.
LEMMA SlotUnnamed ==
  ASSUME FilesTypeOK, NEW s \in Slot
  PROVE  Unnamed(row, s)
BY PlaceFacts, FileMovesAssumption DEF Unnamed, FilesTypeOK

\* What a step of a move does where nothing fails: it checks, is refused, renames, or
\* copies and then removes the source.
MoveGoesOn ==
  /\ mv'.src = mv.src /\ mv'.dst = mv.dst
  /\ \A p \in Place \ {mv.src, mv.dst} : disk'[p] = disk[p]
  /\ \/ mv.at = "ready" /\ mv'.at = "checked" /\ ~Here(mv.dst) /\ disk' = disk
     \/ mv.at = "ready" /\ mv'.at = "failed" /\ Here(mv.dst) /\ disk' = disk
     \/ mv.at = "checked" /\ mv'.at = "failed" /\ ~Here(mv.src) /\ disk' = disk
     \/ mv.at = "checked" /\ mv'.at = "done" /\ ~Here(mv.dst) /\ Here(mv.src)
          /\ disk'[mv.dst] = disk[mv.src] /\ disk'[mv.src] = NoFile
     \/ mv.at = "checked" /\ mv'.at = "copying" /\ ~Here(mv.dst) /\ Here(mv.src)
          /\ disk'[mv.dst] = Part(disk[mv.src][1]) /\ disk'[mv.src] = disk[mv.src]
     \/ mv.at = "copying" /\ mv'.at = "copied" /\ disk'[mv.dst] = mv.data /\ disk'[mv.src] = disk[mv.src]
          /\ disk[mv.src] \in {NoFile, mv.data} /\ disk[mv.dst] = Part(mv.data[1]) /\ mv.data \in Bytes \ {NoFile}
     \/ mv.at = "copied" /\ mv'.at = "done" /\ disk'[mv.dst] = mv.data /\ disk[mv.dst] = mv.data /\ disk'[mv.src] = NoFile
          /\ disk[mv.src] \in {NoFile, mv.data} /\ mv.data \in Bytes \ {NoFile}
  /\ UNCHANGED <<row, other, gone>>

LEMMA MoveGoesOnHolds ==
  ASSUME Faultless, FilesTypeOK, MoveInv, mv.at # "stuck", MoveStep
  PROVE  MoveGoesOn
<1> USE BytesFacts DEF FilesTypeOK, MoveSteps, MoveInv, MoveGoesOn, Here, Faultless
<1>0. mv.at # "none" => mv.src \in Place /\ mv.dst \in Place /\ mv.src # mv.dst /\ disk[mv.src] \in Bytes  OBVIOUS
<1>1. CASE MoveRefused \/ MoveChecked \/ MoveFails  BY <1>1 DEF MoveRefused, MoveChecked, MoveFails
<1>2. CASE MoveRename
  <2>1. disk' \in [Place -> Bytes] /\ disk'[mv.dst] = disk[mv.src] /\ disk'[mv.src] = NoFile
        /\ \A p \in Place \ {mv.src, mv.dst} : disk'[p] = disk[p]
    BY <1>0, <1>2 DEF MoveRename
  <2> QED  BY <1>0, <1>2, <2>1 DEF MoveRename
<1>3. CASE CopyStarts
  <2>1. disk' = [disk EXCEPT ![mv.dst] = Part(disk[mv.src][1])] /\ mv' = [mv EXCEPT !.at = "copying", !.data = disk[mv.src]]
    BY <1>3 DEF CopyStarts
  <2>2. disk'[mv.dst] = Part(disk[mv.src][1]) /\ disk'[mv.src] = disk[mv.src]
        /\ \A p \in Place \ {mv.src, mv.dst} : disk'[p] = disk[p]
    BY <1>0, <1>3, <2>1 DEF CopyStarts
  <2> QED  BY <1>0, <1>3, <2>1, <2>2 DEF CopyStarts
<1>4. CASE CopyEnds  BY <1>0, <1>4 DEF CopyEnds
<1>5. CASE SourceRemoved  BY <1>0, <1>5 DEF SourceRemoved
<1>6. ~CopyFails /\ ~SourceStays /\ ~CopyDropped /\ ~CopyLeft  BY DEF CopyFails, SourceStays, CopyDropped, CopyLeft
<1> QED  BY <1>1, <1>2, <1>3, <1>4, <1>5, <1>6 DEF MoveStep

\* What a move is of, when it is one of organize or of a delete and when it is one of a restore.
LEMMA WhatMoves ==
  ASSUME IInv, AgreeInv, mv.at # "none"
  PROVE  /\ Taking \/ (Restoring("move") /\ mv.src \in Slot /\ mv.dst \in Path /\ ~Taking)
         /\ mv.src \in Place /\ mv.dst \in Place /\ mv.src # mv.dst
         /\ phase = "open"
         /\ Taking => /\ \A j \in Jid : jr[j].st = "planned" => jr[j].file = job.file /\ jr[j].src = mv.src /\ jr[j].dst = mv.dst
                      /\ \A e \in Pid : rec[e].st = "pending" =>
                           Deleting("move") /\ rec[e].file = job.file /\ rec[e].orig = mv.src /\ rec[e].slot = mv.dst
                      /\ mv.dst \in Slot => Deleting("move") /\ rec[job.id].slot = mv.dst /\ job.id \in Pid
                      /\ (\E j \in Jid : jr[j].st = "planned" /\ jr[j].file = job.file)
                           \/ (\E e \in Pid : rec[e].st = "pending" /\ rec[e].file = job.file)
         /\ ~Taking => (\A j \in Jid : jr[j].st # "planned") /\ \A e \in Pid : rec[e].st # "pending"
<1>0. MoveInv /\ OrganizeInv /\ TrashJobInv /\ RecInv /\ UnsettledOK /\ TakingOK /\ JobOK
  BY DEF IInv, TrashInv, AgreeInv
<1>1. Moving /\ mv.src \in Place /\ mv.dst \in Place /\ mv.src # mv.dst  BY <1>0 DEF MoveInv
<1>2. phase = "open"  BY <1>0, <1>1 DEF TrashJobInv, Moving
<1>3. CASE job.kind = "organize"
  <2>1. job.id \in Jid /\ mv.dst \in Path /\ job.file \in File /\ Taking
    BY <1>0, <1>1, <1>3 DEF OrganizeInv, Taking, TakingOK
  <2> QED  BY <1>0, <1>1, <1>2, <1>3, <2>1, PlaceFacts DEF UnsettledOK, TakingOK, Deleting
<1>4. CASE job.kind = "delete"
  <2>1. Deleting("move") /\ Taking  BY <1>0, <1>1, <1>4 DEF Moving, JobOK, Deleting, Taking
  <2>2. job.id \in Pid /\ rec[job.id].st = "pending" /\ rec[job.id].file = job.file /\ mv.dst = rec[job.id].slot
        /\ rec[job.id].orig = mv.src
    BY <1>0, <2>1 DEF TrashJobInv, TakingOK
  <2> QED  BY <1>0, <1>1, <1>2, <1>4, <2>1, <2>2 DEF UnsettledOK
<1>5. CASE job.kind = "restore"
  <2>1. Restoring("move") /\ ~Taking  BY <1>1, <1>5 DEF Moving, Restoring, Taking, Deleting
  <2>2. mv.src \in Slot /\ mv.dst \in Path  BY <1>0, <2>1 DEF TrashJobInv, RecInv, Restoring
  <2> QED  BY <1>0, <1>1, <1>2, <1>5, <2>1, <2>2 DEF UnsettledOK, Deleting
<1> QED  BY <1>1, <1>3, <1>4, <1>5 DEF Moving

\* A step of a move leaves catalog and disk agreeing.
LEMMA MoveAgrees ==
  ASSUME Faultless, IInv, AgreeInv, MoveStep, UNCHANGED <<orgVars, trashVars>>
  PROVE  AgreeInv'
<1>0. FilesTypeOK /\ RowsTypeOK /\ MoveInv /\ OrganizeInv /\ TrashJobInv /\ RecInv  BY DEF IInv, TrashInv, TypeOK
<1>a. RowsOK(row, jr) /\ PlacesOK /\ UnsettledOK /\ TakingOK /\ JobOK /\ PlansOK  BY DEF AgreeInv
<1>b. RowsApart(row) /\ RowsStand(row, jr) /\ OneUnsettled(jr) /\ JournalStands(row, jr) /\ PendingStand(row)
  BY <1>a DEF RowsOK
<1>1. MoveGoesOn  BY <1>0, <1>a, MoveGoesOnHolds DEF JobOK
<1>2. /\ job' = job /\ phase' = phase /\ saved' = saved /\ jr' = jr /\ oplan' = oplan
      /\ rec' = rec /\ dplan' = dplan /\ rplan' = rplan /\ row' = row /\ other' = other
  BY <1>1 DEF orgVars, trashVars, MoveGoesOn
<1>3. /\ mv.at # "none" /\ mv.src \in Place /\ mv.dst \in Place /\ mv.src # mv.dst /\ phase = "open"
      /\ mv'.at \notin {"none", "stuck", "copyleft"} /\ mv.at \notin {"done", "failed"}
  BY <1>1, WhatMoves DEF MoveGoesOn
<1>4. disk \in [Place -> Bytes] /\ row \in [File -> AnyPath] /\ other \subseteq Path  BY <1>0 DEF FilesTypeOK, AnyPath
\* The destination is nobody's when something is put there.
<1>5. mv'.at \in {"copying", "copied", "done"} => Unnamed(row, mv.dst)
  <2>1. CASE mv.at \in {"copying", "copied"}  BY <1>a, <2>1 DEF JobOK
  <2>2. CASE mv.at = "checked" /\ ~Here(mv.dst)
    <3>1. CASE mv.dst \in Slot  BY <1>0, <3>1, SlotUnnamed
    <3>2. CASE mv.dst \in Path  BY <1>a, <1>3, <2>2, <3>2, WhatMoves, NothingNamed
    <3> QED  BY <1>3, <3>1, <3>2 DEF Place
  <2> QED  BY <1>1, <2>1, <2>2 DEF MoveGoesOn
<1>6. disk' # disk => mv'.at \in {"copying", "copied", "done"}  BY <1>1 DEF MoveGoesOn
\* The file of a move that takes it from its row's path.
<1>7. Taking => /\ job.file \in File /\ row[job.file] = mv.src /\ mv.src \in Path /\ disk[mv.src] = Whole(job.file)
                /\ IF mv'.at = "done" THEN disk'[mv.src] = NoFile /\ disk'[mv.dst] = Whole(job.file)
                                      ELSE disk'[mv.src] = Whole(job.file)
                /\ disk'[mv.dst] \in {disk[mv.dst], Whole(job.file), Part(job.file)}
  <2> SUFFICES ASSUME Taking
               PROVE  /\ job.file \in File /\ row[job.file] = mv.src /\ mv.src \in Path /\ disk[mv.src] = Whole(job.file)
                /\ IF mv'.at = "done" THEN disk'[mv.src] = NoFile /\ disk'[mv.dst] = Whole(job.file)
                                      ELSE disk'[mv.src] = Whole(job.file)
                /\ disk'[mv.dst] \in {disk[mv.dst], Whole(job.file), Part(job.file)}
    OBVIOUS
  <2>1. job.file \in File /\ row[job.file] = mv.src /\ mv.src \in Path /\ disk[mv.src] = Whole(job.file)
    BY <1>a, <1>3 DEF TakingOK
  <2>2. Whole(job.file) # NoFile /\ Whole(job.file)[1] = job.file  BY <2>1, BytesFacts
  <2> QED  BY <1>1, <2>1, <2>2 DEF MoveGoesOn
\* Rows whose files no move takes stay where their files are.
<1>8. \A f \in File : row[f] # NoPath /\ ~(Taking /\ f = job.file) => disk'[row[f]] = disk[row[f]]
  <2> SUFFICES ASSUME NEW f \in File, row[f] # NoPath, ~(Taking /\ f = job.file)  PROVE disk'[row[f]] = disk[row[f]]
    OBVIOUS
  <2>1. row[f] \in Path /\ row[f] \in Place  BY <1>4, PlaceFacts DEF AnyPath
  <2>2. row[f] # mv.src
    <3>1. CASE Taking  BY <1>7, <1>b, <3>1 DEF RowsApart
    <3>2. CASE ~Taking  BY <1>3, <2>1, <3>2, WhatMoves, PlaceFacts
    <3> QED  BY <3>1, <3>2
  <2>3. CASE disk' = disk  BY <2>3
  <2>4. CASE disk' # disk  BY <1>1, <1>5, <1>6, <2>1, <2>2, <2>4 DEF MoveGoesOn, Unnamed
  <2> QED  BY <2>3, <2>4
<1>9. \A p \in other : disk'[p] # NoFile
  <2> SUFFICES ASSUME NEW p \in other  PROVE disk'[p] # NoFile  OBVIOUS
  <2>1. disk[p] # NoFile /\ p \in Path /\ p \in Place  BY <1>a, <1>4, PlaceFacts DEF PlacesOK, Here
  <2>2. p # mv.src
    <3>1. CASE Taking  BY <1>7, <1>b, <3>1 DEF RowsApart
    <3>2. CASE ~Taking  BY <1>3, <2>1, <3>2, WhatMoves, PlaceFacts
    <3> QED  BY <3>1, <3>2
  <2>3. CASE disk' # disk  BY <1>1, <1>5, <1>6, <2>1, <2>2, <2>3 DEF MoveGoesOn, Unnamed
  <2> QED  BY <2>1, <2>3
<1>10. RowsOK(row, jr)'
  <2>1. RowsApart(row)' /\ OneUnsettled(jr)'  BY <1>b, <1>2 DEF RowsApart, OneUnsettled
  <2>2. RowsStand(row, jr)'
    <3> SUFFICES ASSUME NEW f \in File, row[f] # NoPath
                 PROVE  \/ disk'[row[f]] = Whole(f)
                        \/ \E j \in Jid : jr[j].st = "planned" /\ jr[j].file = f
                        \/ \E e \in Pid : rec[e].st = "pending" /\ rec[e].file = f
      BY <1>2 DEF RowsStand
    <3>1. CASE Taking /\ f = job.file  BY <1>3, <3>1, WhatMoves
    <3>2. CASE ~(Taking /\ f = job.file)  BY <1>b, <1>8, <3>2 DEF RowsStand
    <3> QED  BY <3>1, <3>2
  <2>3. Taking => \/ disk'[mv.src] = Whole(job.file)
                  \/ disk'[mv.src] = NoFile /\ disk'[mv.dst] = Whole(job.file) /\ Unnamed(row, mv.dst)
    BY <1>5, <1>7
  <2>w. \A f \in File : Whole(f) # NoFile  BY BytesFacts
  <2>4. JournalStands(row, jr)'
    <3> SUFFICES ASSUME NEW j \in Jid, jr[j].st = "planned"
                 PROVE  /\ disk'[jr[j].src] = Whole(jr[j].file) \/ (disk'[jr[j].src] = NoFile /\ disk'[jr[j].dst] = Whole(jr[j].file))
                        /\ disk'[jr[j].src] = NoFile => Unnamed(row, jr[j].dst)
      BY <1>b, <1>2 DEF JournalStands, MoveWhere, Here, Unnamed
    <3>1. Taking /\ jr[j].file = job.file /\ jr[j].src = mv.src /\ jr[j].dst = mv.dst  BY <1>3, WhatMoves
    <3> QED  BY <1>7, <2>3, <2>w, <3>1
  <2>5. PendingStand(row)'
    <3> SUFFICES ASSUME NEW e \in Pid, rec[e].st = "pending"
                 PROVE  disk'[rec[e].orig] = Whole(rec[e].file) \/ (disk'[rec[e].orig] = NoFile /\ disk'[rec[e].slot] = Whole(rec[e].file))
      BY <1>b, <1>2 DEF PendingStand, MoveWhere, Here
    <3>1. Taking /\ rec[e].file = job.file /\ rec[e].orig = mv.src /\ rec[e].slot = mv.dst  BY <1>3, WhatMoves
    <3> QED  BY <2>3, <3>1
  <2> QED  BY <2>1, <2>2, <2>4, <2>5 DEF RowsOK
<1>11. PlacesOK'
  <2> SUFFICES ASSUME NEW e \in Pid, rec[e].st \in {"pending", "active"}, disk'[rec[e].slot] # NoFile
               PROVE  disk'[rec[e].slot][1] = rec[e].file
    BY <1>2, <1>9 DEF PlacesOK, Here
  <2>1. rec[e].slot \in Slot /\ rec[e].slot \in Place /\ rec[e].slot \notin Path  BY <1>0, PlaceFacts DEF RecInv
  <2>2. CASE disk'[rec[e].slot] = disk[rec[e].slot]  BY <1>a, <2>2 DEF PlacesOK, Here
  <2>3. CASE disk'[rec[e].slot] # disk[rec[e].slot]
    <3>1. rec[e].slot \in {mv.src, mv.dst}  BY <1>1, <2>1, <2>3 DEF MoveGoesOn
    <3>2. CASE ~Taking
      <4>1. rec[e].slot = mv.src  BY <1>3, <2>1, <3>1, <3>2, WhatMoves, PlaceFacts
      <4> QED  BY <1>1, <2>3, <4>1 DEF MoveGoesOn
    <3>3. CASE Taking
      <4>1. rec[e].slot = mv.dst  BY <1>7, <2>1, <3>1, <3>3
      <4>2. Deleting("move") /\ rec[job.id].slot = mv.dst /\ job.id \in Pid  BY <1>3, <2>1, <3>3, <4>1, WhatMoves
      <4>3. rec[e].st = "pending"  BY <1>0, <4>1, <4>2 DEF TrashJobInv
      <4>4. rec[e].file = job.file /\ job.file \in File  BY <1>3, <1>7, <3>3, <4>3, WhatMoves
      <4> QED  BY <1>7, <2>3, <3>3, <4>1, <4>4, BytesFacts
    <3> QED  BY <3>2, <3>3
  <2> QED  BY <2>2, <2>3
<1>12. UnsettledOK'  BY <1>a, <1>2, <1>3 DEF UnsettledOK, Deleting
<1>t. Taking' = Taking /\ Moving' = Moving  BY <1>2 DEF Taking, Moving, Deleting
<1>s. mv'.src = mv.src /\ mv'.dst = mv.dst  BY <1>1 DEF MoveGoesOn
<1>13. TakingOK'
  <2>1. Deleting("move") => mv'.at # "failed" /\ (mv'.at \in {"ready", "checked"} => disk'[mv.dst] = NoFile)
    <3> SUFFICES ASSUME Deleting("move")  PROVE mv'.at # "failed" /\ (mv'.at \in {"ready", "checked"} => disk'[mv.dst] = NoFile)
      OBVIOUS
    <3>1. Taking  BY DEF Taking
    <3>2. disk[mv.src] # NoFile  BY <1>7, <3>1, BytesFacts
    <3> QED  BY <1>a, <1>1, <3>2 DEF TakingOK, MoveGoesOn, Here
  <2>2. Taking => /\ job.file \in File /\ row[job.file] = mv.src /\ mv.src \in Path
                  /\ IF mv'.at = "done" THEN disk'[mv.src] = NoFile /\ disk'[mv.dst] = Whole(job.file)
                                        ELSE disk'[mv.src] = Whole(job.file)
    BY <1>7
  <2> QED  BY <1>a, <1>2, <1>t, <1>s, <2>1, <2>2 DEF TakingOK, Here, Deleting
<1>14. JobOK'  BY <1>a, <1>2, <1>3, <1>5, <1>s DEF JobOK, Unnamed, Deleting
<1>15. PlansOK'
  <2> SUFFICES ASSUME dplan.file # NoFile, ~(Deleting("move") /\ rec[job.id].slot = dplan.slot)
               PROVE  disk'[dplan.slot] = NoFile
    BY <1>a, <1>2 DEF PlansOK, Here, Deleting
  <2>1. disk[dplan.slot] = NoFile /\ dplan.slot \in Slot /\ dplan.slot \in Place /\ dplan.slot \notin Path
    BY <1>0, <1>a, PlaceFacts DEF PlansOK, Here, RecInv
  <2>2. dplan.slot # mv.dst  BY <1>3, <2>1, WhatMoves, PlaceFacts
  <2>3. CASE dplan.slot = mv.src
    <3>1. ~Taking  BY <1>7, <2>1, <2>3
    <3> QED  BY <1>1, <2>1, <2>3 DEF MoveGoesOn
  <2> QED  BY <1>1, <2>1, <2>2, <2>3 DEF MoveGoesOn
<1> QED  BY <1>10, <1>11, <1>12, <1>13, <1>14, <1>15 DEF AgreeInv
-----------------------------------------------------------------------------
\* Nothing is unsettled: every row's file stands at its path.
LEMMA AllSettled ==
  ASSUME RowsApart(row)', \A f \in File : row'[f] # NoPath => disk'[row'[f]] = Whole(f),
         \A j \in Jid : jr'[j].st # "planned", \A e \in Pid : rec'[e].st # "pending"
  PROVE  RowsOK(row, jr)'
BY DEF RowsOK, RowsStand, OneUnsettled, JournalStands, PendingStand

LEMMA SettledStand ==
  ASSUME RowsOK(row, jr), \A j \in Jid : jr[j].st # "planned", \A e \in Pid : rec[e].st # "pending"
  PROVE  RowsApart(row) /\ \A f \in File : row[f] # NoPath => disk[row[f]] = Whole(f)
BY DEF RowsOK, RowsStand

\* A step that leaves the tree and the rows alone.
LEMMA SameRows ==
  ASSUME RowsOK(row, jr), PlacesOK, UNCHANGED <<disk, row, other, jr, rec>>
  PROVE  RowsOK(row, jr)' /\ PlacesOK'
BY DEF RowsOK, RowsApart, RowsStand, OneUnsettled, JournalStands, PendingStand, MoveWhere, Unnamed, Here, PlacesOK

\* Outside a move of organize and of a delete nothing is unsettled in an open store.
LEMMA OpenSettled ==
  ASSUME IInv, AgreeInv, phase = "open", ~Taking
  PROVE  /\ \A j \in Jid : jr[j].st # "planned"
         /\ \A e \in Pid : rec[e].st # "pending"
         /\ dplan.file # NoFile => ~Here(dplan.slot)
<1>0. MoveInv /\ UnsettledOK /\ PlansOK  BY DEF IInv, TrashInv, AgreeInv
<1>1. job.kind = "organize" => ~Moving  BY DEF Taking
<1> QED  BY <1>0, <1>1 DEF UnsettledOK, PlansOK, Taking, Moving

\* A job in an open store that is about no move, with nothing unsettled, and its plans.
LEMMA QuietAgrees ==
  ASSUME RowsOK(row, jr)', PlacesOK', phase' \in {"open", "down"}, ~Taking', mv'.at \in {"none", "ready"},
         \A j \in Jid : jr'[j].st # "planned", \A e \in Pid : rec'[e].st # "pending",
         job'.kind = "organize" => \A f \in job'.todo : row'[f] = job'.src[f],
         job'.kind = "delete" => job'.step = "none",
         dplan'.file # NoFile => disk'[dplan'.slot] = NoFile
  PROVE  AgreeInv'
<1>1. UnsettledOK'  BY DEF UnsettledOK
<1>2. TakingOK'
  <2>1. ~(job.kind = "organize" /\ Moving)' /\ ~Deleting("move")'  BY DEF Taking
  <2> QED  BY <2>1 DEF TakingOK, Taking
<1>3. JobOK'  BY DEF JobOK, Deleting
<1>4. PlansOK'  BY DEF PlansOK, Here
<1> QED  BY <1>1, <1>2, <1>3, <1>4 DEF AgreeInv

\* A scan gives a standing file's row a path no other row has, or none.
LEMMA ScanAgrees ==
  ASSUME FilesTypeOK, RowsOK(row, jr), PlacesOK, NEW p \in Path, ScanPath(p), UNCHANGED <<disk, jr, rec>>,
         \A j \in Jid : jr[j].st # "planned", \A e \in Pid : rec[e].st # "pending"
  PROVE  RowsOK(row, jr)' /\ PlacesOK'
<1>1. RowsApart(row) /\ \A f \in File : row[f] # NoPath => disk[row[f]] = Whole(f)  BY SettledStand
<1>t. row \in [File -> AnyPath] /\ p # NoPath /\ disk[p] \in Bytes  BY PlaceFacts DEF FilesTypeOK, AnyPath
<1>2. CASE UNCHANGED <<row, other>>  BY <1>2, SameRows
<1>3. CASE Here(p) /\ RowAt(p) = {} /\ p \notin other /\ Relinks(p) /\ row' = [row EXCEPT ![disk[p][1]] = p] /\ other' = other
  <2>1. PICK g \in File : disk[p] = Whole(g) /\ disk[p][1] = g  BY <1>t, <1>3, BytesFacts DEF Here, Relinks
  <2>2. row'[g] = p /\ \A f \in File \ {g} : row'[f] = row[f]  BY <1>t, <1>3, <2>1
  <2>3. \A f \in File : row[f] # p  BY <1>3 DEF RowAt
  <2>4. RowsApart(row)'  BY <1>1, <1>3, <2>2, <2>3 DEF RowsApart
  <2>5. \A f \in File : row'[f] # NoPath => disk'[row'[f]] = Whole(f)  BY <1>1, <2>1, <2>2
  <2>6. RowsOK(row, jr)'  BY <2>4, <2>5, AllSettled
  <2> QED  BY <1>3, <2>6 DEF PlacesOK, Here
<1>4. CASE Here(p) /\ RowAt(p) = {} /\ p \notin other /\ other' = other \cup {p} /\ row' = row
  <2>1. RowsApart(row)'  BY <1>1, <1>4 DEF RowsApart, RowAt
  <2>2. RowsOK(row, jr)'  BY <1>1, <1>4, <2>1, AllSettled
  <2> QED  BY <1>4, <2>2 DEF PlacesOK, Here
<1> QED  BY <1>2, <1>3, <1>4 DEF ScanPath

\* The start of a move of organize, from where the file's row is.
LEMMA PlanMoveAgrees ==
  ASSUME Faultless, IInv, AgreeInv, job.kind = "organize", job.step = "pick",
         NEW f \in job.todo, NEW dst \in Path, NEW step \in {"apply", "park"}, dst # job.src[f],
         PlanMove(f, dst, step), UNCHANGED trashVars
  PROVE  AgreeInv'
<1>0. FilesTypeOK /\ RowsTypeOK /\ MoveInv /\ OrganizeInv /\ TrashJobInv  BY DEF IInv, TrashInv, TypeOK
<1>a. RowsOK(row, jr) /\ PlacesOK /\ JobOK /\ PlansOK  BY DEF AgreeInv
<1>1. f \in File /\ row[f] = job.src[f] /\ row[f] \in Path /\ row[f] # NoPath /\ phase = "open" /\ job \in Jobs
  BY <1>0, <1>a, PlaceFacts DEF RowsTypeOK, Jobs, OrganizeInv, TrashJobInv, JobOK
<1>2. PICK j \in Jid :
       /\ jr' = [jr EXCEPT ![j] = [st |-> "planned", file |-> f, linked |-> TRUE, src |-> job.src[f], dst |-> dst]]
       /\ job' = [job EXCEPT !.step = step, !.file = f, !.id = j]
  BY <1>1 DEF PlanMove, Faultless
<1>3. mv' = [at |-> "ready", src |-> job.src[f], dst |-> dst, data |-> NoFile]
      /\ UNCHANGED <<disk, row, other, gone, phase, saved, oplan>> /\ rec' = rec /\ dplan' = dplan
  BY <1>1 DEF PlanMove, StartMove, Faultless, trashVars
<1>4. job'.kind = "organize" /\ job'.step = step /\ job'.file = f /\ job'.id = j
      /\ job'.todo = job.todo /\ job'.src = job.src
  BY <1>1, <1>2 DEF Jobs
<1>5. jr'[j] = [st |-> "planned", file |-> f, linked |-> TRUE, src |-> job.src[f], dst |-> dst]
      /\ \A k \in Jid \ {j} : jr'[k] = jr[k]
  BY <1>0, <1>2 DEF RowsTypeOK
<1>6. ~Taking  BY DEF Taking, Moving, Deleting
<1>7. (\A k \in Jid : jr[k].st # "planned") /\ (\A e \in Pid : rec[e].st # "pending")
      /\ (dplan.file # NoFile => ~Here(dplan.slot))
  BY <1>1, <1>6, OpenSettled
<1>8. RowsApart(row) /\ \A g \in File : row[g] # NoPath => disk[row[g]] = Whole(g)  BY <1>a, <1>7, SettledStand
<1>w. disk[row[f]] = Whole(f) /\ disk[row[f]] # NoFile  BY <1>1, <1>8, BytesFacts
<1>9. RowsOK(row, jr)'
  <2>1. RowsApart(row)' /\ RowsStand(row, jr)'  BY <1>3, <1>8 DEF RowsApart, RowsStand
  <2>2. OneUnsettled(jr)' /\ PendingStand(row)'  BY <1>3, <1>5, <1>7 DEF OneUnsettled, PendingStand
  <2>3. \A k \in Jid : jr'[k].st = "planned" => k = j  BY <1>5, <1>7
  <2>4. row[f] # dst  BY <1>1
  <2>5. JournalStands(row, jr)'
    BY <1>1, <1>3, <1>5, <1>w, <2>3, <2>4 DEF JournalStands, MoveWhere, Here
  <2> QED  BY <2>1, <2>2, <2>5 DEF RowsOK
<1>10. PlacesOK'  BY <1>a, <1>3 DEF PlacesOK, Here
<1>11. UnsettledOK'  BY <1>1, <1>3, <1>4, <1>5, <1>7 DEF UnsettledOK
<1>12. TakingOK'
  <2>1. ~Deleting("move")'  BY <1>4 DEF Deleting
  <2> QED  BY <1>1, <1>3, <1>4, <1>5, <1>w, <2>1 DEF TakingOK
<1>13. JobOK'  BY <1>a, <1>3, <1>4 DEF JobOK, Deleting
<1>14. PlansOK'  BY <1>a, <1>3, <1>7 DEF PlansOK, Here
<1> QED  BY <1>9, <1>10, <1>11, <1>12, <1>13, <1>14 DEF AgreeInv

\* The end of a move of organize: its journal row is settled, with its file where the row says.
LEMMA OrgMoveSettles ==
  ASSUME IInv, AgreeInv, job.kind = "organize", job.step \in {"apply", "park"},
         UNCHANGED <<disk, other, gone, phase, saved, oplan, trashVars>>,
         jr' = [jr EXCEPT ![job.id] = FreeRow], mv' = NoMove,
         job' \in {Dropped(job.file), AfterMove(job.file, mv.dst)},
         \/ row' = row /\ job' = Dropped(job.file) /\ mv.at # "done"
         \/ row' = [row EXCEPT ![job.file] = mv.dst] /\ job' = AfterMove(job.file, mv.dst) /\ mv.at = "done"
  PROVE  AgreeInv'
<1>0. FilesTypeOK /\ RowsTypeOK /\ MoveInv /\ OrganizeInv /\ TrashJobInv  BY DEF IInv, TrashInv, TypeOK
<1>a. RowsOK(row, jr) /\ PlacesOK /\ UnsettledOK /\ TakingOK /\ JobOK /\ PlansOK  BY DEF AgreeInv
<1>b. RowsApart(row) /\ RowsStand(row, jr) /\ OneUnsettled(jr)  BY <1>a DEF RowsOK
<1>1. /\ Moving /\ job.file \in job.todo /\ job.file \in File /\ job.id \in Jid /\ phase = "open"
      /\ mv.dst \in Path /\ mv.dst # NoPath /\ job \in Jobs
  BY <1>0, PlaceFacts DEF OrganizeInv, Moving, RowsTypeOK, Jobs, TrashJobInv
<1>2. /\ row[job.file] = mv.src /\ jr[job.id].st = "planned" /\ jr[job.id].file = job.file
      /\ IF mv.at = "done" THEN disk[mv.dst] = Whole(job.file) ELSE disk[mv.src] = Whole(job.file)
  BY <1>a, <1>1 DEF TakingOK, Taking
<1>3. (\A j \in Jid : jr[j].st = "planned" => j = job.id) /\ (\A e \in Pid : rec[e].st # "pending")
  BY <1>a, <1>b, <1>1, <1>2 DEF UnsettledOK, OneUnsettled
<1>4. (\A j \in Jid : jr'[j].st # "planned") /\ (\A e \in Pid : rec'[e].st # "pending")
  BY <1>0, <1>1, <1>3, EmptyFacts DEF RowsTypeOK, trashVars
<1>5. \A f \in File \ {job.file} : row[f] # NoPath => disk[row[f]] = Whole(f)
  BY <1>b, <1>2, <1>3 DEF RowsStand
<1>6. (\A f \in File \ {job.file} : row'[f] = row[f])
      /\ (\/ row'[job.file] = row[job.file] /\ mv.at # "done" /\ job' = Dropped(job.file) /\ row' = row
          \/ row'[job.file] = mv.dst /\ mv.at = "done" /\ job' = AfterMove(job.file, mv.dst) /\ Unnamed(row, mv.dst))
  BY <1>0, <1>a, <1>1 DEF FilesTypeOK, JobOK
<1>7. RowsOK(row, jr)'
  <2>1. RowsApart(row)'  BY <1>b, <1>6 DEF RowsApart, Unnamed
  <2>2. \A f \in File : row'[f] # NoPath => disk'[row'[f]] = Whole(f)  BY <1>2, <1>5, <1>6
  <2> QED  BY <1>4, <2>1, <2>2, AllSettled
<1>8. PlacesOK'  BY <1>a DEF PlacesOK, Here, trashVars
<1>9. job'.kind = "organize" /\ job'.step = "pick" /\ \A f \in job'.todo : row'[f] = job'.src[f]
  <2>1. \A f \in job.todo : row[f] = job.src[f] /\ f \in File  BY <1>a, <1>1 DEF JobOK, Jobs
  <2>2. CASE job' = Dropped(job.file)
    <3>1. job'.kind = "organize" /\ job'.step = "pick" /\ job'.todo = job.todo \ {job.file} /\ job'.src = job.src
      BY <1>1, <2>2 DEF Dropped, Jobs
    <3> QED  BY <1>6, <2>1, <3>1
  <2>3. CASE job.step = "park" /\ job' = AfterMove(job.file, mv.dst) /\ row'[job.file] = mv.dst
    <3>1. job'.kind = "organize" /\ job'.step = "pick" /\ job'.todo = job.todo /\ job'.src[job.file] = mv.dst
          /\ \A f \in File \ {job.file} : job'.src[f] = job.src[f]
      BY <1>1, <2>3 DEF AfterMove, Jobs
    <3> QED  BY <1>6, <2>1, <2>3, <3>1
  <2>4. CASE job.step # "park" /\ job' = AfterMove(job.file, mv.dst)  BY <2>2, <2>4 DEF AfterMove
  <2> QED  BY <1>6, <2>2, <2>3, <2>4
<1>10. ~Taking' /\ mv'.at = "none"  BY <1>9, EmptyFacts DEF Taking, Moving, Deleting
<1>11. dplan'.file # NoFile => disk'[dplan'.slot] = NoFile
  BY <1>a DEF PlansOK, Here, Deleting, trashVars
<1> QED  BY <1>1, <1>4, <1>7, <1>8, <1>9, <1>10, <1>11, QuietAgrees

\* With no job there is no move, and plans stand as they did while trash folders at most lose a file.
LEMMA NoJobAgrees ==
  ASSUME job'.kind = "none", mv'.at = "none"
  PROVE  TakingOK' /\ JobOK'
BY DEF TakingOK, Taking, JobOK, Deleting

LEMMA PlansKept ==
  ASSUME PlansOK, ~Deleting("move"), UNCHANGED <<oplan, dplan>>,
         dplan.file # NoFile => disk'[dplan.slot] \in {disk[dplan.slot], NoFile}
  PROVE  PlansOK'
BY DEF PlansOK, Here

\* The rows a recovery's transaction began with, while the tree stays as it is.
LEMMA SavedStay ==
  ASSUME RowsOK(saved.row, saved.jr), UNCHANGED <<disk, other, rec, saved>>
  PROVE  RowsOK(saved.row, saved.jr)'
BY DEF RowsOK, RowsApart, RowsStand, OneUnsettled, JournalStands, PendingStand, MoveWhere, Unnamed, Here

\* A step that changes no more than an organize plan or an entry read.
LEMMA AgreeUnchanged ==
  ASSUME AgreeInv, UNCHANGED <<disk, row, other, mv, phase, saved, job, jr, rec, dplan>>
  PROVE  AgreeInv'
<1>a. RowsOK(row, jr) /\ PlacesOK /\ UnsettledOK /\ TakingOK /\ JobOK /\ PlansOK  BY DEF AgreeInv
<1>1. RowsOK(row, jr)' /\ PlacesOK'  BY <1>a, SameRows
<1>2. UnsettledOK'
  <2>1. phase = "moves" => RowsOK(saved.row, saved.jr)'  BY <1>a, SavedStay DEF UnsettledOK
  <2> QED  BY <1>a, <2>1 DEF UnsettledOK, Deleting
<1>3. TakingOK' /\ JobOK'  BY <1>a DEF TakingOK, Taking, Moving, Deleting, JobOK, Here, Unnamed
<1>4. PlansOK'  BY <1>a DEF PlansOK, Here, Deleting
<1> QED  BY <1>1, <1>2, <1>3, <1>4 DEF AgreeInv

\* A recovery of organize begins, and what it began with is what a failed one leaves.
LEMMA RecoveryTurns ==
  ASSUME IInv, AgreeInv, BeginRecovery \/ MovesUnrecovered, UNCHANGED trashVars
  PROVE  AgreeInv'
<1>0. MoveInv /\ TrashJobInv  BY DEF IInv, TrashInv
<1>a. RowsOK(row, jr) /\ PlacesOK /\ UnsettledOK /\ PlansOK  BY DEF AgreeInv
<1>1. /\ phase # "open" /\ job.kind = "none" /\ mv.at = "none" /\ UNCHANGED <<disk, other, mv, job, rec, dplan, oplan>>
      /\ ~Deleting("move")
  BY <1>0, NotMoving DEF BeginRecovery, MovesUnrecovered, TrashJobInv, Moving, Deleting, trashVars, diskVars
<1>2. TakingOK' /\ JobOK' /\ PlansOK'  BY <1>a, <1>1, NoJobAgrees, PlansKept
<1>3. PlacesOK'  BY <1>a, <1>1 DEF PlacesOK, Here
<1>4. CASE BeginRecovery
  <2>1. UNCHANGED <<row, jr>> /\ phase' = "moves" /\ saved'.row = row /\ saved'.jr = jr
    BY <1>4 DEF BeginRecovery, diskVars
  <2>2. RowsOK(row, jr)'  BY <1>a, <1>1, <2>1, SameRows
  <2>3. RowsOK(saved.row, saved.jr)'
    BY <2>1, <2>2 DEF RowsOK, RowsApart, RowsStand, OneUnsettled, JournalStands, PendingStand, MoveWhere, Unnamed
  <2>4. UnsettledOK'  BY <2>1, <2>3 DEF UnsettledOK
  <2> QED  BY <1>2, <1>3, <2>2, <2>4 DEF AgreeInv
<1>5. CASE MovesUnrecovered
  <2>1. row' = saved.row /\ jr' = saved.jr /\ phase = "moves" /\ phase' = "down"  BY <1>5 DEF MovesUnrecovered
  <2>2. RowsOK(saved.row, saved.jr)  BY <1>a, <2>1 DEF UnsettledOK
  <2>3. RowsOK(row, jr)'
    BY <1>1, <2>1, <2>2
    DEF RowsOK, RowsApart, RowsStand, OneUnsettled, JournalStands, PendingStand, MoveWhere, Unnamed, Here
  <2>4. UnsettledOK'  BY <2>1 DEF UnsettledOK
  <2> QED  BY <1>2, <1>3, <2>3, <2>4 DEF AgreeInv
<1> QED  BY <1>4, <1>5

\* A recovery settles a journal row: the row follows a move that was made, and a copy is
\* dropped where the file never left.
LEMMA JournalRowSettles ==
  ASSUME Faultless, IInv, AgreeInv, NEW j \in Jid, FinishMove(j) \/ RollBackMove(j), UNCHANGED trashVars
  PROVE  AgreeInv' /\ RecoveryKeepsRows
<1>0. FilesTypeOK /\ RowsTypeOK /\ MoveInv /\ OrganizeInv /\ TrashJobInv /\ RecInv  BY DEF IInv, TrashInv, TypeOK
<1>a. RowsOK(row, jr) /\ PlacesOK /\ UnsettledOK /\ PlansOK  BY DEF AgreeInv
<1>b. RowsApart(row) /\ RowsStand(row, jr) /\ OneUnsettled(jr) /\ JournalStands(row, jr)  BY <1>a DEF RowsOK
<1>1. /\ phase = "moves" /\ phase' = "moves" /\ jr[j].st = "planned" /\ jr' = [jr EXCEPT ![j] = FreeRow]
      /\ UNCHANGED <<other, mv, gone, saved, job, oplan, rec, dplan>>
  BY DEF FinishMove, RollBackMove, trashVars
<1>2. job.kind = "none" /\ mv.at = "none" /\ ~Deleting("move")
  BY <1>0, <1>1, NotMoving DEF TrashJobInv, Moving, Deleting
<1>3. TakingOK' /\ JobOK'  BY <1>1, <1>2, NoJobAgrees
<1>t. row \in [File -> AnyPath] /\ disk \in [Place -> Bytes] /\ other \subseteq Path  BY <1>0 DEF FilesTypeOK, AnyPath
<1>4. (\A k \in Jid : jr[k].st = "planned" => k = j) /\ (\A e \in Pid : rec[e].st # "pending")
  BY <1>b, <1>1 DEF OneUnsettled
<1>5. (\A k \in Jid : jr'[k].st # "planned") /\ (\A e \in Pid : rec'[e].st # "pending")
  BY <1>0, <1>1, <1>4, EmptyFacts DEF RowsTypeOK
<1>6. saved.row = row /\ saved.jr = jr /\ RowsOK(saved.row, saved.jr)  BY <1>a, <1>1 DEF UnsettledOK
<1> DEFINE r == jr[j]
<1>7. /\ r.linked /\ r.file \in File /\ row[r.file] = r.src /\ r.src \in Path /\ r.dst \in Path /\ r.src # r.dst
      /\ MoveWhere(r.file, r.src, r.dst) /\ (~Here(r.src) => Unnamed(row, r.dst))
  BY <1>b, <1>1 DEF JournalStands
<1>8. \A f \in File \ {r.file} : row[f] # NoPath => disk[row[f]] = Whole(f)  BY <1>b, <1>4 DEF RowsStand
<1>p. r.dst # NoPath /\ r.src # NoPath /\ r.src \in Place /\ r.dst \in Place /\ r.dst \notin Slot  BY <1>7, PlaceFacts
<1>9. CASE FinishMove(j)
  <2>1. disk' = disk /\ row' = [row EXCEPT ![r.file] = r.dst] /\ ~Here(r.src)  BY <1>9 DEF FinishMove, MoveMade
  <2>2. disk[r.dst] = Whole(r.file) /\ Unnamed(row, r.dst)  BY <1>7, <2>1, BytesFacts DEF MoveWhere, Here
  <2>3. row'[r.file] = r.dst /\ \A f \in File \ {r.file} : row'[f] = row[f]  BY <1>t, <1>7, <2>1
  <2>4. RowsApart(row)'  BY <1>b, <1>1, <2>2, <2>3 DEF RowsApart, Unnamed
  <2>5. \A f \in File : row'[f] # NoPath => disk'[row'[f]] = Whole(f)  BY <1>8, <2>1, <2>2, <2>3
  <2>6. RowsOK(row, jr)'  BY <1>5, <2>4, <2>5, AllSettled
  <2>7. PlacesOK'  BY <1>a, <1>1, <2>1 DEF PlacesOK, Here
  <2>8. UnsettledOK'  BY <1>1, <1>5, <1>6, <2>1, SavedStay DEF UnsettledOK
  <2>9. PlansOK'  BY <1>a, <1>1, <1>2, <2>1, PlansKept
  <2>10. RecoveryKeepsRows  BY <1>p, <2>1, <2>2, <2>3 DEF RecoveryKeepsRows
  <2> QED  BY <1>3, <2>6, <2>7, <2>8, <2>9, <2>10 DEF AgreeInv
<1>10. CASE RollBackMove(j)
  <2>1. row' = row /\ (disk' = disk \/ (disk' = [disk EXCEPT ![r.dst] = NoFile] /\ ~DstTaken(r)))
    BY <1>10 DEF RollBackMove
  <2>2. Here(r.src)
    <3> SUFFICES ASSUME ~Here(r.src)  PROVE FALSE  OBVIOUS
    <3>1. disk[r.dst] = Whole(r.file) /\ Unnamed(row, r.dst)  BY <1>7, BytesFacts DEF MoveWhere, Here
    <3>2. MoveMade(r)  BY <1>7, <3>1, BytesFacts DEF MoveMade, Here
    <3>3. ~DstTaken(r)  BY <3>1 DEF DstTaken, HeldByAnother, RowAt, Unnamed
    <3> QED  BY <1>10, <3>2, <3>3 DEF RollBackMove
  <2>3. disk[r.src] = Whole(r.file)  BY <1>7, <2>2 DEF MoveWhere
  <2>4. disk'[r.src] = Whole(r.file) /\ \A p \in Place \ {r.dst} : disk'[p] = disk[p]  BY <1>t, <1>7, <1>p, <2>1, <2>3
  \* A copy that is dropped was no row's.
  <2>5. disk' # disk => Unnamed(row, r.dst)
    <3> SUFFICES ASSUME ~DstTaken(r)  PROVE Unnamed(row, r.dst)  BY <2>1
    <3>1. r.dst \notin other /\ \A f \in File : row[f] = r.dst => f = r.file  BY DEF DstTaken, HeldByAnother, RowAt
    <3> QED  BY <1>7, <3>1 DEF Unnamed
  <2>6. \A f \in File : row[f] # NoPath => disk'[row[f]] = Whole(f)
    <3> SUFFICES ASSUME NEW f \in File, row[f] # NoPath  PROVE disk'[row[f]] = Whole(f)  OBVIOUS
    <3>1. CASE f = r.file  BY <1>7, <2>4, <3>1
    <3>2. CASE f # r.file
      <4>1. row[f] \in Place  BY <1>t, PlaceFacts DEF AnyPath
      <4> QED  BY <1>8, <2>4, <2>5, <3>2, <4>1 DEF Unnamed
    <3> QED  BY <3>1, <3>2
  <2>7. RowsApart(row)'  BY <1>b, <1>1, <2>1 DEF RowsApart
  <2>8. RowsOK(row, jr)'  BY <1>5, <2>1, <2>6, <2>7, AllSettled
  <2>9. PlacesOK'
    <3>1. \A p \in other : disk'[p] # NoFile
      <4> SUFFICES ASSUME NEW p \in other  PROVE disk'[p] # NoFile  OBVIOUS
      <4>1. p \in Place /\ disk[p] # NoFile  BY <1>a, <1>t, PlaceFacts DEF PlacesOK, Here
      <4> QED  BY <2>4, <2>5, <4>1 DEF Unnamed
    <3>2. \A e \in Pid : rec[e].st \in {"pending", "active"} => disk'[rec[e].slot] = disk[rec[e].slot]
      BY <1>0, <1>p, <2>4, PlaceFacts DEF RecInv
    <3> QED  BY <1>a, <1>1, <3>1, <3>2 DEF PlacesOK, Here
  <2>10. RowsOK(saved.row, saved.jr)'
    <3>1. saved'.row = row /\ saved'.jr = jr  BY <1>1, <1>6
    <3>2. RowsApart(saved.row)' /\ OneUnsettled(saved.jr)' /\ PendingStand(saved.row)'
      BY <1>b, <1>1, <1>4, <3>1 DEF RowsApart, OneUnsettled, PendingStand
    <3>3. RowsStand(saved.row, saved.jr)'  BY <2>6, <3>1 DEF RowsStand
    <3>4. JournalStands(saved.row, saved.jr)'
      <4> SUFFICES ASSUME NEW k \in Jid, jr[k].st = "planned"
                   PROVE  /\ jr[k].linked /\ jr[k].file \in File /\ row[jr[k].file] = jr[k].src
                          /\ {jr[k].src, jr[k].dst} \subseteq Path /\ jr[k].src # jr[k].dst
                          /\ disk'[jr[k].src] = Whole(jr[k].file) /\ disk'[jr[k].src] # NoFile
        BY <1>1, <3>1 DEF JournalStands, MoveWhere, Here
      <4>1. k = j  BY <1>4
      <4> QED  BY <1>7, <2>4, <4>1, BytesFacts
    <3> QED  BY <3>2, <3>3, <3>4 DEF RowsOK
  <2>11. UnsettledOK'  BY <1>1, <1>5, <2>10 DEF UnsettledOK
  <2>12. PlansOK'
    <3>1. dplan.file # NoFile => dplan.slot \in Slot  BY <1>0 DEF RecInv
    <3> QED  BY <1>a, <1>1, <1>2, <1>p, <2>4, <3>1, PlansKept, PlaceFacts
  <2>13. RecoveryKeepsRows  BY <2>1, <2>6 DEF RecoveryKeepsRows
  <2> QED  BY <1>3, <2>8, <2>9, <2>11, <2>12, <2>13 DEF AgreeInv
<1> QED  BY <1>9, <1>10

\* Every step of organize, its recovery and its scan leaves catalog and disk agreeing.
LEMMA OrgAgrees ==
  ASSUME Faultless, IInv, AgreeInv, OrgStep, UNCHANGED trashVars, strayed' = {}
  PROVE  AgreeInv'
<1>0. FilesTypeOK /\ RowsTypeOK /\ MoveInv /\ OrganizeInv /\ TrashJobInv /\ RecInv  BY DEF IInv, TrashInv, TypeOK
<1>a. RowsOK(row, jr) /\ PlacesOK /\ UnsettledOK /\ TakingOK /\ JobOK /\ PlansOK  BY DEF AgreeInv
<1>i. Idle => /\ (\A j \in Jid : jr[j].st # "planned") /\ (\A e \in Pid : rec[e].st # "pending")
              /\ (dplan.file # NoFile => ~Here(dplan.slot)) /\ mv.at = "none" /\ ~Taking
  BY <1>0, OpenSettled, NotMoving DEF Idle, Taking, Moving, Deleting
<1>1. CASE PlanOrganize
  BY <1>1, AgreeUnchanged DEF PlanOrganize, diskVars, trashVars
\* No plan of the run is out of date, or strayed would say so.
<1>2. CASE RunOrganize \/ ApplyOrganize
  <2>1. \E plan : Execute(plan)  BY <1>2 DEF RunOrganize, ApplyOrganize
  <2>0. PICK plan : Execute(plan)  BY <2>1
  <2>2. PICK T \in SUBSET File :
          /\ job' = [NoJob EXCEPT !.kind = "organize", !.step = "pick", !.todo = T, !.src = plan.src, !.dst = plan.dst]
          /\ strayed' = strayed \cup {f \in T : plan.src[f] # row[f]}
    BY <2>0 DEF Execute
  <2>3. UNCHANGED <<disk, row, other, mv, gone, phase, saved, jr, rec, dplan>> /\ Idle
    BY <2>0 DEF Execute, diskVars, trashVars
  <2>4. job'.kind = "organize" /\ job'.step = "pick" /\ job'.todo = T /\ job'.src = plan.src  BY <2>2 DEF NoJob
  <2>5. \A f \in T : row[f] = plan.src[f]  BY <2>2
  <2>6. ~Taking'  BY <2>4 DEF Taking, Moving, Deleting
  <2>7. RowsOK(row, jr)' /\ PlacesOK'  BY <1>a, <2>3, SameRows
  <2> QED  BY <1>i, <2>3, <2>4, <2>5, <2>6, <2>7, QuietAgrees DEF Idle, Here
<1>3. CASE CommitMove
  <2>1. /\ job.kind = "organize" /\ job.step \in {"apply", "park"} /\ mv.at = "done"
        /\ row' = [row EXCEPT ![job.file] = mv.dst] /\ jr' = [jr EXCEPT ![job.id] = FreeRow]
        /\ job' = AfterMove(job.file, mv.dst) /\ mv' = NoMove
        /\ UNCHANGED <<disk, other, gone, phase, saved, oplan>>
    BY <1>3 DEF CommitMove
  <2> QED  BY <2>1, OrgMoveSettles
<1>4. ~CommitMoveFails
  <2> SUFFICES ASSUME CommitMoveFails  PROVE FALSE  OBVIOUS
  <2>1. Moving /\ job.kind = "organize" /\ mv.at = "done"  BY DEF CommitMoveFails, Moving
  <2>2. row[job.file] = mv.src /\ mv.src \in Path  BY <1>a, <2>1 DEF TakingOK, Taking
  <2>3. Unnamed(row, mv.dst)  BY <1>a, <2>1 DEF JobOK
  <2> QED  BY <2>2, <2>3, PlaceFacts DEF CommitMoveFails, HeldByAnother, RowAt, Unnamed, Faultless
<1>5. CASE AbortMove
  <2>1. /\ job.kind = "organize" /\ job.step \in {"apply", "park"} /\ mv.at # "done"
        /\ jr' = [jr EXCEPT ![job.id] = FreeRow]
        /\ job' = Dropped(job.file) /\ mv' = NoMove
        /\ UNCHANGED <<disk, row, other, gone, phase, saved, oplan>>
    BY <1>5, <1>a DEF AbortMove, JobOK, Faultless
  <2> QED  BY <2>1, OrgMoveSettles
<1>6. CASE ExecuteEnds
  <2>1. UNCHANGED <<disk, row, other, mv, gone, phase, saved, jr, oplan, rec, dplan>> /\ job'.kind = "none"
        /\ job.kind = "organize" /\ job.step = "pick"
    BY <1>6, EmptyFacts DEF ExecuteEnds, diskVars, trashVars
  <2>2. ~Taking /\ ~Taking' /\ ~Moving /\ phase = "open"  BY <1>0, <2>1 DEF Taking, Moving, Deleting, TrashJobInv
  <2>3. mv'.at = "none"  BY <1>0, <2>1, <2>2, NotMoving
  <2>4. /\ (\A j \in Jid : jr[j].st # "planned") /\ (\A e \in Pid : rec[e].st # "pending")
        /\ (dplan.file # NoFile => ~Here(dplan.slot))
    BY <2>2, OpenSettled
  <2>5. RowsOK(row, jr)' /\ PlacesOK'  BY <1>a, <2>1, SameRows
  <2> QED  BY <2>1, <2>2, <2>3, <2>4, <2>5, QuietAgrees DEF Here
<1>7. CASE BeginRecovery \/ MovesUnrecovered  BY <1>7, RecoveryTurns
<1>8. CASE MovesRecovered
  <2>1. UNCHANGED <<disk, row, other, mv, gone, job, jr, oplan, rec, dplan>> /\ phase = "moves" /\ phase' = "trash"
        /\ \A j \in Jid : jr[j].st # "planned"
    BY <1>8 DEF MovesRecovered, diskVars, trashVars, Faultless
  <2>2. job.kind = "none" /\ mv.at = "none" /\ ~Deleting("move")
    BY <1>0, <2>1, NotMoving DEF TrashJobInv, Moving, Deleting
  <2>3. TakingOK' /\ JobOK' /\ PlansOK'  BY <1>a, <2>1, <2>2, NoJobAgrees, PlansKept
  <2>4. RowsOK(row, jr)' /\ PlacesOK'  BY <1>a, <2>1, SameRows
  <2>5. UnsettledOK'  BY <2>1 DEF UnsettledOK
  <2> QED  BY <2>3, <2>4, <2>5 DEF AgreeInv
<1>9. CASE \E f \in File : Apply(f) \/ Park(f)
  <2>1. PICK f \in File : Apply(f) \/ Park(f)  BY <1>9
  <2>2. CASE Apply(f)
    <3>1. job.kind = "organize" /\ job.step = "pick" /\ f \in job.todo /\ PlanMove(f, job.dst[f], "apply")  BY <2>2 DEF Apply
    <3>2. job.dst[f] \in Path /\ job.dst[f] # job.src[f]  BY <1>0, <3>1 DEF OrganizeInv
    <3> QED  BY <3>1, <3>2, PlanMoveAgrees
  <2>3. CASE Park(f)
    <3>1. PICK tmp \in Path : job.kind = "organize" /\ job.step = "pick" /\ f \in job.todo /\ PlanMove(f, tmp, "park")
                             /\ tmp # job.src[f]
      BY <2>3 DEF Park
    <3> QED  BY <3>1, PlanMoveAgrees
  <2> QED  BY <2>1, <2>2, <2>3
<1>10. CASE \E j \in Jid : FinishMove(j) \/ RollBackMove(j)  BY <1>10, JournalRowSettles
<1>11. CASE \E p \in Path : Scan(p)
  <2>1. PICK p \in Path : Scan(p)  BY <1>11
  <2>2. UNCHANGED <<disk, mv, phase, job, jr, oplan, rec, dplan>> /\ Idle /\ ScanPath(p)
    BY <2>1 DEF Scan, orgVars, trashVars
  <2>3. RowsOK(row, jr)' /\ PlacesOK'  BY <1>0, <1>a, <1>i, <2>2, ScanAgrees
  <2>4. ~Taking'  BY <2>2 DEF Taking, Moving, Deleting, Idle
  <2> QED  BY <1>i, <2>2, <2>3, <2>4, QuietAgrees DEF Idle, Here
<1> QED
  BY <1>1, <1>2, <1>3, <1>4, <1>5, <1>6, <1>7, <1>8, <1>9, <1>10, <1>11 DEF OrgStep

-----------------------------------------------------------------------------
\* Dropping the rows of some files leaves the other rows and every journal row's state.
LEMMA DropRowsLeave ==
  ASSUME FilesTypeOK, RowsTypeOK, NEW fs \in SUBSET File, DropRows(fs)
  PROVE  /\ \A f \in File : row'[f] = IF f \in fs THEN NoPath ELSE row[f]
         /\ \A j \in Jid : jr'[j].st = jr[j].st
         /\ dplan' \in {dplan, NoDelete} /\ dplan'.file \notin fs
<1>1. \A f \in File : row'[f] = IF f \in fs THEN NoPath ELSE row[f]  BY DEF DropRows
<1>2. \A j \in Jid : jr[j] \in JournalRows  BY DEF RowsTypeOK
<1>3. jr' = [j \in Jid |-> IF jr[j].file \in fs THEN [jr[j] EXCEPT !.linked = FALSE] ELSE jr[j]]
  BY DEF DropRows, Detached, RowsTypeOK
<1>4. \A j \in Jid : jr'[j].st = jr[j].st  BY <1>2, <1>3 DEF JournalRows
<1>6. dplan' \in {dplan, NoDelete} /\ dplan'.file \notin fs  BY EmptyFacts, TrashAssumption DEF DropRows
<1> QED  BY <1>1, <1>4, <1>6

\* A delete's last step: the row goes with the file.
LEMMA TrashFileAgrees ==
  ASSUME IInv, AgreeInv, TrashFile
  PROVE  AgreeInv'
<1>0. FilesTypeOK /\ RowsTypeOK /\ MoveInv /\ TrashJobInv /\ RecInv  BY DEF IInv, TrashInv, TypeOK
<1>a. RowsOK(row, jr) /\ PlacesOK /\ UnsettledOK /\ TakingOK /\ PlansOK  BY DEF AgreeInv
<1>b. RowsApart(row) /\ RowsStand(row, jr) /\ OneUnsettled(jr)  BY <1>a DEF RowsOK
<1>1. DropRows({job.file}) /\ JobEnds /\ UNCHANGED <<disk, other, phase>> /\ Deleting("move") /\ mv.at = "done"
      /\ rec' = [Detached(rec, {job.file}) EXCEPT ![job.id].st = "active", ![job.id].orig = row[job.file]]
  BY DEF TrashFile
<1>2. /\ job.file \in File /\ job.id \in Pid /\ rec[job.id].st = "pending" /\ rec[job.id].file = job.file /\ phase = "open"
      /\ rec[job.id].slot = mv.dst /\ disk[mv.dst] = Whole(job.file)
  BY <1>0, <1>a, <1>1 DEF TrashJobInv, TakingOK, Taking, Deleting
<1>3. /\ \A f \in File : row'[f] = IF f = job.file THEN NoPath ELSE row[f]
      /\ \A j \in Jid : jr'[j].st = jr[j].st
      /\ dplan' \in {dplan, NoDelete} /\ dplan'.file # job.file
  BY <1>0, <1>a, <1>1, <1>2, DropRowsLeave DEF PlansOK
<1>4. PICK d \in [Pid -> RecRows] :
        /\ d = Detached(rec, {job.file})
        /\ \A e \in Pid : d[e].st = rec[e].st /\ d[e].file = rec[e].file /\ d[e].orig = rec[e].orig /\ d[e].slot = rec[e].slot
  BY <1>0, <1>2, DetachedFacts DEF RowsTypeOK
<1>5. \A e \in Pid : rec'[e].file = rec[e].file /\ rec'[e].slot = rec[e].slot
                     /\ rec'[e].st = IF e = job.id THEN "active" ELSE rec[e].st
  <2> TAKE e \in Pid
  <2>1. rec' = [d EXCEPT ![job.id] = [d[job.id] EXCEPT !.st = "active", !.orig = row[job.file]]]  BY <1>1, <1>2, <1>4
  <2>2. CASE e # job.id  BY <1>2, <1>4, <2>1, <2>2
  <2>3. CASE e = job.id
    <3>1. rec'[e] = [d[e] EXCEPT !.st = "active", !.orig = row[job.file]] /\ d[e] \in RecRows  BY <1>2, <1>4, <2>1, <2>3
    <3> QED  BY <1>4, <2>3, <3>1 DEF RecRows
  <2> QED  BY <2>2, <2>3
<1>6. (\A j \in Jid : jr[j].st # "planned") /\ (\A e \in Pid : rec[e].st = "pending" => e = job.id)
  BY <1>b, <1>2 DEF OneUnsettled
<1>7. (\A j \in Jid : jr'[j].st # "planned") /\ (\A e \in Pid : rec'[e].st # "pending")  BY <1>3, <1>5, <1>6
<1>8. RowsOK(row, jr)'
  <2>1. NoPath \notin other  BY <1>0, PlaceFacts DEF FilesTypeOK
  <2>2. RowsApart(row)'  BY <1>b, <1>1, <1>3, <2>1 DEF RowsApart
  <2>3. \A f \in File : row'[f] # NoPath => disk'[row'[f]] = Whole(f)  BY <1>b, <1>1, <1>2, <1>3, <1>6 DEF RowsStand
  <2> QED  BY <1>7, <2>2, <2>3, AllSettled
<1>9. PlacesOK'
  <2>1. \A e \in Pid : rec'[e].st \in {"pending", "active"} => rec[e].st \in {"pending", "active"}  BY <1>2, <1>5
  <2> QED  BY <1>a, <1>1, <1>5, <2>1 DEF PlacesOK, Here
<1>10. dplan'.file # NoFile => disk'[dplan'.slot] = NoFile
  <2>1. CASE dplan' = NoDelete  BY <2>1, EmptyFacts DEF NoDelete
  <2>2. CASE dplan' = dplan
    <3>1. dplan.file # NoFile => rec[job.id].slot # dplan.slot  BY <1>0, <1>2, <1>3, <2>2 DEF RecInv
    <3> QED  BY <1>a, <1>1, <2>2, <3>1 DEF PlansOK, Here
  <2> QED  BY <1>3, <2>1, <2>2
<1>11. job'.kind = "none" /\ mv'.at = "none" /\ ~Taking'  BY <1>1, EmptyFacts DEF JobEnds, Taking, Deleting
<1> QED  BY <1>1, <1>2, <1>3, <1>7, <1>8, <1>9, <1>10, <1>11, QuietAgrees

\* The steps of PlanDelete and ApplyDelete.
LEMMA DeleteAgrees ==
  ASSUME Faultless, IInv, AgreeInv, strayed' = {},
         \/ TrashFile \/ TrashFileFails \/ AbortTrash \/ KeepPending \/ DetachFile
         \/ (\E f \in File : PlanDelete(f)) \/ (\E e \in Pid : PlanTrash(e))
  PROVE  AgreeInv'
<1>0. FilesTypeOK /\ RowsTypeOK /\ MoveInv /\ TrashJobInv /\ RecInv  BY DEF IInv, TrashInv, TypeOK
<1>a. RowsOK(row, jr) /\ PlacesOK /\ UnsettledOK /\ TakingOK /\ JobOK /\ PlansOK  BY DEF AgreeInv
<1>1. CASE TrashFile  BY <1>1, TrashFileAgrees
<1>2. ~TrashFileFails /\ ~AbortTrash /\ ~KeepPending /\ ~DetachFile
  BY <1>a DEF TrashFileFails, AbortTrash, KeepPending, DetachFile, Faultless, JobOK, TakingOK
<1>3. CASE \E f \in File : PlanDelete(f)
  <2>1. PICK f \in File, s \in Slot, m \in Modes :
          ~Here(s) /\ dplan' = [file |-> f, src |-> row[f], slot |-> s, mode |-> m] /\ UNCHANGED <<diskVars, orgVars, rec, rplan>>
    BY <1>3 DEF PlanDelete
  <2>2. UNCHANGED <<disk, row, other, mv, phase, saved, job, jr, oplan, rec>>  BY <2>1 DEF diskVars, orgVars
  <2>3. RowsOK(row, jr)' /\ PlacesOK'  BY <1>a, <2>2, SameRows
  <2>4. UnsettledOK'
    <3>1. phase = "moves" => RowsOK(saved.row, saved.jr)'  BY <1>a, <2>2, SavedStay DEF UnsettledOK
    <3> QED  BY <1>a, <2>2, <3>1 DEF UnsettledOK, Deleting
  <2>5. TakingOK' /\ JobOK'  BY <1>a, <2>2 DEF TakingOK, Taking, Moving, Deleting, JobOK, Here, Unnamed
  <2>6. PlansOK'  BY <1>a, <2>1, <2>2 DEF PlansOK, Here, Faultless
  <2> QED  BY <2>3, <2>4, <2>5, <2>6 DEF AgreeInv
<1>4. CASE \E e \in Pid : PlanTrash(e)
  <2>1. PICK e \in Pid : PlanTrash(e)  BY <1>4
  <2>2. /\ rec[e].st = "none" /\ Idle /\ dplan.file # NoFile /\ dplan.src = row[dplan.file]
        /\ rec' = [rec EXCEPT ![e] = [st |-> "pending", file |-> dplan.file, linked |-> TRUE,
                                      orig |-> row[dplan.file], slot |-> dplan.slot]]
        /\ job' = [NoJob EXCEPT !.kind = "delete", !.step = "move", !.file = dplan.file, !.id = e]
        /\ mv' = [at |-> "ready", src |-> dplan.src, dst |-> dplan.slot, data |-> NoFile]
        /\ UNCHANGED <<disk, row, other, gone, phase, saved, jr, oplan, dplan, rplan>>
    BY <2>1 DEF PlanTrash, CanApplyDelete, StaleDelete, StartMove, Faultless
  <2>3. ~Taking /\ phase = "open"  BY <2>2 DEF Taking, Moving, Deleting, Idle
  <2>4. /\ (\A j \in Jid : jr[j].st # "planned") /\ (\A x \in Pid : rec[x].st # "pending")
        /\ ~Here(dplan.slot)
    BY <2>2, <2>3, OpenSettled
  <2>5. dplan.file \in File /\ row[dplan.file] \in Path /\ row[dplan.file] # NoPath /\ dplan.slot \in Slot
    BY <1>0, <2>2 DEF RecInv, RowsTypeOK
  <2>6. RowsApart(row) /\ \A f \in File : row[f] # NoPath => disk[row[f]] = Whole(f)  BY <1>a, <2>4, SettledStand
  <2>w. disk[row[dplan.file]] = Whole(dplan.file)  BY <2>5, <2>6
  <2>7. /\ \A x \in Pid \ {e} : rec'[x] = rec[x]
        /\ rec'[e] = [st |-> "pending", file |-> dplan.file, linked |-> TRUE, orig |-> row[dplan.file], slot |-> dplan.slot]
    BY <1>0, <2>2 DEF RowsTypeOK
  <2>8. job'.kind = "delete" /\ job'.step = "move" /\ job'.file = dplan.file /\ job'.id = e  BY <2>2 DEF NoJob
  <2>9. RowsOK(row, jr)'
    <3>1. RowsApart(row)' /\ RowsStand(row, jr)'  BY <2>2, <2>6 DEF RowsApart, RowsStand
    <3>2. OneUnsettled(jr)' /\ JournalStands(row, jr)'  BY <2>2, <2>4, <2>7 DEF OneUnsettled, JournalStands
    <3>3. PendingStand(row)'
      <4> SUFFICES ASSUME NEW x \in Pid, rec'[x].st = "pending"
                   PROVE  /\ rec'[x].linked /\ rec'[x].file \in File /\ row[rec'[x].file] = rec'[x].orig
                          /\ rec'[x].orig \in Path /\ rec'[x].slot \in Slot
                          /\ disk[rec'[x].orig] = Whole(rec'[x].file)
        BY <2>2 DEF PendingStand, MoveWhere
      <4>1. x = e  BY <2>4, <2>7
      <4> QED  BY <2>5, <2>w, <2>7, <4>1
    <3> QED  BY <3>1, <3>2, <3>3 DEF RowsOK
  <2>10. PlacesOK'  BY <1>a, <2>2, <2>4, <2>7 DEF PlacesOK, Here
  <2>11. UnsettledOK'  BY <2>2, <2>3, <2>4, <2>7, <2>8 DEF UnsettledOK, Deleting
  <2>12. TakingOK'  BY <2>2, <2>4, <2>5, <2>w, <2>7, <2>8 DEF TakingOK, Here
  <2>13. JobOK'  BY <2>2, <2>8 DEF JobOK, Deleting
  <2>14. PlansOK'  BY <1>a, <2>2, <2>4 DEF PlansOK, Here
  <2> QED  BY <2>9, <2>10, <2>11, <2>12, <2>13, <2>14 DEF AgreeInv
<1> QED  BY <1>1, <1>2, <1>3, <1>4

\* The steps of RestoreTrash and PurgeTrash.
LEMMA RestorePurgeAgrees ==
  ASSUME Faultless, IInv, AgreeInv,
         \/ Restore \/ RestoreMoved \/ RestoreFails \/ RestoreScan \/ MarkTrashRestored
         \/ DeleteTrashRow \/ Sweep \/ \E e \in Pid : ReadEntry(e) \/ Purge(e)
  PROVE  AgreeInv'
<1>0. FilesTypeOK /\ RowsTypeOK /\ MoveInv /\ TrashJobInv /\ RecInv  BY DEF IInv, TrashInv, TypeOK
<1>a. RowsOK(row, jr) /\ PlacesOK /\ UnsettledOK /\ TakingOK /\ JobOK /\ PlansOK  BY DEF AgreeInv
<1>t. disk \in [Place -> Bytes] /\ row \in [File -> AnyPath] /\ rec \in [Pid -> RecRows] /\ job \in Jobs
  BY <1>0 DEF FilesTypeOK, RowsTypeOK, AnyPath
<1>1. CASE \E e \in Pid : ReadEntry(e)
  <2>1. UNCHANGED <<disk, row, other, mv, phase, saved, job, jr, oplan, rec, dplan>>  BY <1>1 DEF ReadEntry, diskVars, orgVars
  <2>2. RowsOK(row, jr)' /\ PlacesOK'  BY <1>a, <2>1, SameRows
  <2>3. UnsettledOK'
    <3>1. phase = "moves" => RowsOK(saved.row, saved.jr)'  BY <1>a, <2>1, SavedStay DEF UnsettledOK
    <3> QED  BY <1>a, <2>1, <3>1 DEF UnsettledOK, Deleting
  <2>4. TakingOK' /\ JobOK'  BY <1>a, <2>1 DEF TakingOK, Taking, Moving, Deleting, JobOK, Here, Unnamed
  <2>5. PlansOK'  BY <1>a, <2>1 DEF PlansOK, Here, Deleting
  <2> QED  BY <2>2, <2>3, <2>4, <2>5 DEF AgreeInv
\* Every other step is of a job about nothing unsettled, or starts one.
<1>k. ASSUME phase = "open", job.kind \in {"none", "restore", "purge"}
      PROVE  /\ (\A j \in Jid : jr[j].st # "planned") /\ (\A e \in Pid : rec[e].st # "pending")
             /\ (dplan.file # NoFile => disk[dplan.slot] = NoFile)
             /\ RowsApart(row) /\ \A f \in File : row[f] # NoPath => disk[row[f]] = Whole(f)
  <2>1. ~Taking  BY <1>k DEF Taking, Deleting
  <2> QED  BY <1>a, <1>k, <2>1, OpenSettled, SettledStand DEF Here
<1>2. CASE Restore \/ RestoreMoved \/ RestoreFails
  <2>1. /\ UNCHANGED <<disk, row, other, phase, jr, oplan, rec, dplan>> /\ phase = "open" /\ job.kind \in {"none", "restore"}
        /\ job'.kind \in {"none", "restore"} /\ mv'.at \in {"none", "ready"}
    <3>1. CASE Restore
      <4>1. UNCHANGED <<disk, row, other, phase, jr, oplan, rec, dplan>> /\ phase = "open" /\ job.kind = "none" /\ mv.at = "none"
        BY <1>0, <3>1, NotMoving DEF Restore, Idle, Moving
      <4>2. \/ job' = [NoJob EXCEPT !.kind = "restore", !.step = "scan", !.id = rplan] /\ mv' = mv
            \/ job' = [NoJob EXCEPT !.kind = "restore", !.step = "move", !.id = rplan]
                 /\ mv' = [at |-> "ready", src |-> rec[rplan].slot, dst |-> rec[rplan].orig, data |-> NoFile]
            \/ job' = job /\ mv' = mv
        BY <3>1 DEF Restore, StartMove
      <4>3. job'.kind \in {"none", "restore"}  BY <4>1, <4>2 DEF NoJob
      <4>4. mv'.at \in {"none", "ready"}  BY <4>1, <4>2
      <4> QED  BY <4>1, <4>3, <4>4
    <3>2. CASE RestoreMoved
      <4>1. phase = "open" /\ job'.kind = "restore" /\ mv'.at = "none"
        BY <1>0, <1>t, <3>2, EmptyFacts DEF RestoreMoved, Restoring, TrashJobInv, Jobs
      <4> QED  BY <3>2, <4>1 DEF RestoreMoved, Restoring, trashVars
    <3>3. CASE RestoreFails
      <4>1. phase = "open" /\ job'.kind = "none" /\ mv'.at = "none"
        BY <1>0, <3>3, EmptyFacts DEF RestoreFails, Restoring, TrashJobInv, JobEnds
      <4> QED  BY <3>3, <4>1 DEF RestoreFails, Restoring, trashVars
    <3> QED  BY <1>2, <3>1, <3>2, <3>3
  <2>2. RowsOK(row, jr)' /\ PlacesOK'  BY <1>a, <2>1, SameRows
  <2>3. ~Taking'  BY <2>1 DEF Taking, Deleting
  <2> QED  BY <1>k, <2>1, <2>2, <2>3, QuietAgrees
<1>3. CASE RestoreScan
  <2>1. /\ UNCHANGED <<disk, mv, phase, jr, oplan, rec, dplan>> /\ job.kind = "restore" /\ job.step = "scan"
        /\ job' = [job EXCEPT !.step = "mark"] /\ ScanPath(rec[job.id].orig)
    BY <1>3 DEF RestoreScan, Restoring, trashVars
  <2>2. phase = "open" /\ rec[job.id].orig \in Path /\ mv.at = "none" /\ job'.kind = "restore"
    BY <1>0, <1>t, <2>1, NotMoving DEF TrashJobInv, RecInv, Moving, Jobs
  <2>3. RowsOK(row, jr)' /\ PlacesOK'  BY <1>0, <1>a, <1>k, <2>1, <2>2, ScanAgrees
  <2>4. ~Taking'  BY <2>2 DEF Taking, Deleting
  <2> QED  BY <1>k, <2>1, <2>2, <2>3, <2>4, QuietAgrees
<1>4. CASE MarkTrashRestored \/ DeleteTrashRow
  <2>1. /\ UNCHANGED <<disk, row, other, phase, jr, oplan, dplan>> /\ job.kind \in {"restore", "purge"} /\ phase = "open"
        /\ job'.kind \in {"none", "purge"} /\ mv'.at = "none" /\ job.id \in Pid
        /\ rec' \in {[rec EXCEPT ![job.id].st = "restored"], [rec EXCEPT ![job.id].st = "gone"]}
    <3>1. CASE MarkTrashRestored
      <4>1. JobEnds /\ job.kind = "restore"  BY <3>1 DEF MarkTrashRestored, Restoring
      <4> QED  BY <1>0, <3>1, <4>1, EmptyFacts DEF MarkTrashRestored, TrashJobInv, JobEnds
    <3>2. CASE DeleteTrashRow
      <4>1. job.kind = "purge" /\ job' = [job EXCEPT !.step = "sweep"] /\ mv' = mv  BY <3>2 DEF DeleteTrashRow, Purging, Faultless, diskVars
      <4>2. phase = "open" /\ job.id \in Pid /\ mv.at = "none" /\ job'.kind = "purge"
        BY <1>0, <1>t, <4>1, NotMoving DEF TrashJobInv, Moving, Jobs
      <4> QED  BY <3>2, <4>1, <4>2 DEF DeleteTrashRow, Faultless, diskVars
    <3> QED  BY <1>4, <3>1, <3>2
  <2>2. \A e \in Pid : rec'[e].slot = rec[e].slot /\ rec'[e].file = rec[e].file
                       /\ (rec'[e].st \in {"pending", "active"} => rec'[e].st = rec[e].st)
    BY <1>t, <2>1 DEF RecRows
  <2>3. (\A j \in Jid : jr'[j].st # "planned") /\ (\A e \in Pid : rec'[e].st # "pending")  BY <1>k, <2>1, <2>2
  <2>4. RowsOK(row, jr)'
    <3>1. RowsApart(row)'  BY <1>k, <2>1 DEF RowsApart
    <3> QED  BY <1>k, <2>1, <2>3, <3>1, AllSettled
  <2>5. PlacesOK'  BY <1>a, <2>1, <2>2 DEF PlacesOK, Here
  <2>6. ~Taking'  BY <2>1 DEF Taking, Deleting
  <2> QED  BY <1>k, <2>1, <2>3, <2>4, <2>5, <2>6, QuietAgrees
<1>5. CASE Sweep \/ \E e \in Pid : Purge(e)
  <2>1. /\ UNCHANGED <<row, other, mv, phase, jr, oplan, rec, dplan>> /\ phase = "open" /\ job.kind \in {"none", "purge"}
        /\ job'.kind \in {"none", "purge"} /\ mv.at = "none"
        /\ \A p \in Path : disk'[p] = disk[p]
        /\ \A s \in Slot : disk'[s] \in {disk[s], NoFile}
    <3>1. CASE Sweep
      <4>1. job'.kind = "none" /\ job.kind = "purge" /\ UNCHANGED <<row, other, mv, phase, jr, oplan, rec, dplan>>
        BY <3>1, EmptyFacts DEF Sweep, Purging, trashVars
      <4>2. phase = "open" /\ mv.at = "none"  BY <1>0, <4>1, NotMoving DEF TrashJobInv, Moving
      <4>3. \A p \in Place : disk'[p] = disk[p] \/ (p \in Slot /\ disk'[p] = NoFile)  BY <3>1 DEF Sweep, Swept
      <4> QED  BY <4>1, <4>2, <4>3, PlaceFacts
    <3>2. CASE \E e \in Pid : Purge(e)
      <4>1. PICK e \in Pid : Purge(e)  BY <3>2
      <4>2. job.kind = "none" /\ phase = "open" /\ job' = [NoJob EXCEPT !.kind = "purge", !.step = "row", !.id = e]
            /\ UNCHANGED <<row, other, mv, phase, jr, oplan, rec, dplan>>
            /\ disk' = [disk EXCEPT ![rec[e].slot] = NoFile] /\ rec[e].st = "active"
        BY <4>1 DEF Purge, Idle, trashVars
      <4>3. mv.at = "none" /\ rec[e].slot \in Slot /\ job'.kind = "purge"
        BY <1>0, <4>2, NotMoving DEF Moving, RecInv, NoJob
      <4> QED  BY <1>t, <4>2, <4>3, PlaceFacts
    <3> QED  BY <1>5, <3>1, <3>2
  <2>2. RowsOK(row, jr)'
    <3>1. RowsApart(row)'  BY <1>k, <2>1 DEF RowsApart
    <3>2. \A f \in File : row'[f] # NoPath => disk'[row'[f]] = Whole(f)  BY <1>k, <1>t, <2>1 DEF AnyPath
    <3> QED  BY <1>k, <2>1, <3>1, <3>2, AllSettled
  <2>3. PlacesOK'
    <3>1. \A p \in other : disk'[p] = disk[p]  BY <1>0, <2>1 DEF FilesTypeOK
    <3>2. \A e \in Pid : rec[e].st \in {"pending", "active"} => disk'[rec[e].slot] \in {disk[rec[e].slot], NoFile}
      BY <1>0, <2>1 DEF RecInv
    <3> QED  BY <1>a, <2>1, <3>1, <3>2 DEF PlacesOK, Here
  <2>4. dplan.file # NoFile => disk'[dplan.slot] = NoFile  BY <1>0, <1>k, <2>1 DEF RecInv
  <2>5. ~Taking'  BY <2>1 DEF Taking, Deleting
  <2> QED  BY <1>k, <2>1, <2>2, <2>3, <2>4, <2>5, QuietAgrees
<1> QED  BY <1>1, <1>2, <1>3, <1>4, <1>5

\* recoverTrash settles every delete that was cut off: the row of a file in the trash goes,
\* and that of a file that never left stays.
LEMMA RecoverTrashAgrees ==
  ASSUME Faultless, IInv, AgreeInv, RecoverTrash
  PROVE  AgreeInv' /\ RecoveryKeepsRows
<1>0. FilesTypeOK /\ RowsTypeOK /\ MoveInv /\ TrashJobInv /\ RecInv  BY DEF IInv, TrashInv, TypeOK
<1>a. RowsOK(row, jr) /\ PlacesOK /\ UnsettledOK /\ PlansOK  BY DEF AgreeInv
<1>b. RowsApart(row) /\ RowsStand(row, jr) /\ PendingStand(row)  BY <1>a DEF RowsOK
<1> DEFINE done == {e \in Pending : Trashed(e)}
           dropped == {e \in Pending : ~Here(rec[e].slot)}
           files == {f \in File : \E e \in done : rec[e].linked /\ rec[e].file = f}
<1>1. PICK dn \in SUBSET Pid, dr \in SUBSET Pid, fs \in SUBSET File :
        /\ \A e \in Pid : e \in dn <=> rec[e].st = "pending" /\ Here(rec[e].slot) /\ ~Here(rec[e].orig)
        /\ \A e \in Pid : e \in dr <=> rec[e].st = "pending" /\ ~Here(rec[e].slot)
        /\ \A e \in dn : rec[e].linked /\ rec[e].file \in File => rec[e].file \in fs
        /\ fs \subseteq {rec[e].file : e \in {x \in dn : rec[x].linked}}
        /\ DropRows(fs)
        /\ rec' = [e \in Pid |->
             LET r == Detached(rec, fs)[e] IN
             IF e \in dn THEN [r EXCEPT !.st = "active"]
             ELSE IF e \in dr THEN [r EXCEPT !.st = "gone"] ELSE r]
  <2>1. done \in SUBSET Pid /\ dropped \in SUBSET Pid /\ files \in SUBSET File  BY DEF Pending
  <2>2. /\ \A e \in Pid : e \in done <=> rec[e].st = "pending" /\ Here(rec[e].slot) /\ ~Here(rec[e].orig)
        /\ \A e \in Pid : e \in dropped <=> rec[e].st = "pending" /\ ~Here(rec[e].slot)
        /\ \A e \in done : rec[e].linked /\ rec[e].file \in File => rec[e].file \in files
        /\ files \subseteq {rec[e].file : e \in {x \in done : rec[x].linked}}
    BY DEF Pending, Trashed
  <2>3. /\ DropRows(files)
        /\ rec' = [e \in Pid |->
             LET r == Detached(rec, files)[e] IN
             IF e \in done THEN [r EXCEPT !.st = "active"]
             ELSE IF e \in dropped THEN [r EXCEPT !.st = "gone"] ELSE r]
    BY DEF RecoverTrash
  <2> HIDE DEF done, dropped, files
  <2> QED  BY <2>1, <2>2, <2>3
<1>2. /\ phase = "trash" /\ phase' = "open" /\ UNCHANGED <<disk, other, mv, job>>
      /\ \A e \in Pid : rec[e].st = "pending" /\ InBoth(e) => ~CopyOfStart(rec[e].orig, rec[e].slot)
  BY DEF RecoverTrash, Pending, Faultless
<1>3. job.kind = "none" /\ mv.at = "none"  BY <1>0, <1>2, NotMoving DEF TrashJobInv, Moving
<1>4. /\ \A f \in File : row'[f] = IF f \in fs THEN NoPath ELSE row[f]
      /\ \A j \in Jid : jr'[j].st = jr[j].st
      /\ dplan' \in {dplan, NoDelete}
  BY <1>0, <1>a, <1>1, DropRowsLeave DEF PlansOK
<1>5. PICK d \in [Pid -> RecRows] :
        /\ d = Detached(rec, fs)
        /\ \A e \in Pid : d[e].st = rec[e].st /\ d[e].file = rec[e].file /\ d[e].orig = rec[e].orig /\ d[e].slot = rec[e].slot
  BY <1>0, <1>1, DetachedFacts DEF RowsTypeOK
<1>6. \A e \in Pid : /\ rec'[e].file = rec[e].file /\ rec'[e].slot = rec[e].slot
                     /\ rec'[e].st = (IF e \in dn THEN "active" ELSE IF e \in dr THEN "gone" ELSE rec[e].st)
  <2> TAKE e \in Pid
  <2>0. rec' = [x \in Pid |-> IF x \in dn THEN [d[x] EXCEPT !.st = "active"]
                              ELSE IF x \in dr THEN [d[x] EXCEPT !.st = "gone"] ELSE d[x]]
    BY <1>1, <1>5
  <2>1. d[e] \in RecRows  BY <1>5
  <2>2. CASE e \in dn  BY <1>5, <2>0, <2>1, <2>2 DEF RecRows
  <2>3. CASE e \notin dn /\ e \in dr  BY <1>5, <2>0, <2>1, <2>3 DEF RecRows
  <2>4. CASE e \notin dn /\ e \notin dr  BY <1>5, <2>0, <2>1, <2>4
  <2> QED  BY <2>2, <2>3, <2>4
<1>7. \A j \in Jid : jr[j].st # "planned"  BY <1>a, <1>2 DEF UnsettledOK
\* Of a pending delete, the file is in one place alone or the copy in the trash is the start of it.
<1>8. \A e \in Pid : rec[e].st = "pending" => e \in dn \/ e \in dr
  <2> SUFFICES ASSUME NEW e \in Pid, rec[e].st = "pending", Here(rec[e].slot), Here(rec[e].orig)  PROVE FALSE
    BY <1>1
  <2>1. rec[e].file \in File /\ disk[rec[e].orig] = Whole(rec[e].file)  BY <1>b DEF PendingStand, MoveWhere
  <2>2. disk[rec[e].slot][1] = rec[e].file  BY <1>a DEF PlacesOK
  <2>3. disk[rec[e].orig][1] = rec[e].file /\ disk[rec[e].orig][2] = "whole"  BY <2>1 DEF Whole
  <2> QED  BY <1>2, <2>2, <2>3 DEF InBoth, CopyOfStart
<1>9. \A e \in Pid : rec'[e].st # "pending"  BY <1>6, <1>8
<1>10. \A f \in File \ fs : row[f] # NoPath => disk[row[f]] = Whole(f)
  <2> SUFFICES ASSUME NEW f \in File \ fs, row[f] # NoPath, disk[row[f]] # Whole(f)  PROVE FALSE  OBVIOUS
  <2>1. PICK e \in Pid : rec[e].st = "pending" /\ rec[e].file = f  BY <1>b, <1>7 DEF RowsStand
  <2>2. rec[e].linked /\ row[f] = rec[e].orig /\ MoveWhere(f, rec[e].orig, rec[e].slot)  BY <1>b, <2>1 DEF PendingStand
  <2>3. e \in dr  BY <1>1, <1>8, <2>1, <2>2
  <2> QED  BY <1>1, <2>2, <2>3, BytesFacts DEF MoveWhere, Here
<1>11. RowsOK(row, jr)'
  <2>1. NoPath \notin other  BY <1>0, PlaceFacts DEF FilesTypeOK
  <2>2. RowsApart(row)'  BY <1>b, <1>2, <1>4, <2>1 DEF RowsApart
  <2>3. \A f \in File : row'[f] # NoPath => disk'[row'[f]] = Whole(f)  BY <1>2, <1>4, <1>10
  <2> QED  BY <1>4, <1>7, <1>9, <2>2, <2>3, AllSettled
<1>12. PlacesOK'
  <2>1. \A e \in Pid : rec'[e].st \in {"pending", "active"} => rec[e].st \in {"pending", "active"}  BY <1>1, <1>6
  <2> QED  BY <1>a, <1>2, <1>6, <2>1 DEF PlacesOK, Here
<1>13. dplan'.file # NoFile => disk'[dplan'.slot] = NoFile
  <2>1. CASE dplan' = NoDelete  BY <2>1, EmptyFacts DEF NoDelete
  <2>2. CASE dplan' = dplan  BY <1>a, <1>2, <1>3, <2>2 DEF PlansOK, Here, Deleting
  <2> QED  BY <1>4, <2>1, <2>2
<1>14. ~Taking'  BY <1>2, <1>3 DEF Taking, Deleting
<1>15. AgreeInv'  BY <1>2, <1>3, <1>4, <1>7, <1>9, <1>11, <1>12, <1>13, <1>14, QuietAgrees
<1>16. RecoveryKeepsRows
  <2> SUFFICES ASSUME NEW f \in File, row[f] # NoPath, disk[row[f]] = Whole(f), f \in fs  PROVE FALSE
    BY <1>2, <1>4 DEF RecoveryKeepsRows
  <2>1. PICK e \in Pid : rec[e].st = "pending" /\ rec[e].file = f /\ ~Here(rec[e].orig)  BY <1>1
  <2> QED  BY <1>b, <2>1, BytesFacts DEF PendingStand, Here
<1> QED  BY <1>15, <1>16

\* A copy that recoverTrash drops leaves the file where its row says.
LEMMA SettleCopyAgrees ==
  ASSUME IInv, AgreeInv, NEW e \in Pid, SettleTrashCopy(e)
  PROVE  AgreeInv' /\ RecoveryKeepsRows
<1>0. FilesTypeOK /\ RowsTypeOK /\ MoveInv /\ TrashJobInv /\ RecInv  BY DEF IInv, TrashInv, TypeOK
<1>a. RowsOK(row, jr) /\ PlacesOK /\ UnsettledOK /\ PlansOK  BY DEF AgreeInv
<1>b. RowsApart(row) /\ RowsStand(row, jr) /\ OneUnsettled(jr) /\ PendingStand(row)  BY <1>a DEF RowsOK
<1>t. disk \in [Place -> Bytes] /\ row \in [File -> AnyPath] /\ other \subseteq Path  BY <1>0 DEF FilesTypeOK, AnyPath
<1>1. /\ phase = "trash" /\ rec[e].st = "pending" /\ Here(rec[e].orig) /\ disk' = [disk EXCEPT ![rec[e].slot] = NoFile]
      /\ UNCHANGED <<row, other, mv, phase, saved, job, jr, oplan, rec, dplan>>
  BY DEF SettleTrashCopy, Pending, InBoth, orgVars, trashVars
<1>2. job.kind = "none" /\ mv.at = "none" /\ ~Deleting("move") /\ rec[e].slot \in Slot /\ rec[e].orig \in Path
  BY <1>0, <1>1, NotMoving DEF TrashJobInv, RecInv, Moving, Deleting
<1>3. disk'[rec[e].slot] = NoFile /\ \A p \in Place \ {rec[e].slot} : disk'[p] = disk[p]  BY <1>t, <1>1, <1>2, PlaceFacts
<1>4. \A p \in Path : disk'[p] = disk[p]  BY <1>2, <1>3, PlaceFacts
<1>5. \A f \in File : row[f] # NoPath => disk'[row[f]] = disk[row[f]]  BY <1>t, <1>4 DEF AnyPath
<1>6. \A d \in Pid : rec[d].st = "pending" => d = e  BY <1>b, <1>1 DEF OneUnsettled
<1>7. \A j \in Jid : jr[j].st # "planned"  BY <1>a, <1>1 DEF UnsettledOK
<1>8. disk[rec[e].orig] = Whole(rec[e].file)  BY <1>b, <1>1 DEF PendingStand, MoveWhere
<1>9. RowsOK(row, jr)'
  <2>1. RowsApart(row)' /\ OneUnsettled(jr)' /\ JournalStands(row, jr)'
    BY <1>b, <1>1, <1>7 DEF RowsApart, OneUnsettled, JournalStands
  <2>2. RowsStand(row, jr)'  BY <1>b, <1>1, <1>5 DEF RowsStand
  <2>3. PendingStand(row)'  BY <1>b, <1>1, <1>2, <1>4, <1>6, <1>8 DEF PendingStand, MoveWhere
  <2> QED  BY <2>1, <2>2, <2>3 DEF RowsOK
<1>10. PlacesOK'
  <2>1. \A d \in Pid : rec[d].st \in {"pending", "active"} => disk'[rec[d].slot] \in {disk[rec[d].slot], NoFile}
    BY <1>0, <1>3, PlaceFacts DEF RecInv
  <2> QED  BY <1>a, <1>t, <1>1, <1>4, <2>1 DEF PlacesOK, Here
<1>11. UnsettledOK'  BY <1>1, <1>7 DEF UnsettledOK
<1>12. TakingOK' /\ JobOK'  BY <1>1, <1>2, NoJobAgrees
<1>13. PlansOK'
  <2>1. dplan.file # NoFile => disk'[dplan.slot] \in {disk[dplan.slot], NoFile}  BY <1>0, <1>3, PlaceFacts DEF RecInv
  <2> QED  BY <1>a, <1>1, <1>2, <2>1, PlansKept
<1>14. RecoveryKeepsRows  BY <1>1, <1>5 DEF RecoveryKeepsRows
<1> QED  BY <1>9, <1>10, <1>11, <1>12, <1>13, <1>14 DEF AgreeInv

\* A delete for good removes the file its plan names, where its row says.
LEMMA RemoveAgrees ==
  ASSUME IInv, AgreeInv, RemoveFile, strayed' = {}
  PROVE  DetachOK' /\ (\A f \in gone' \ gone : f = job'.file)
<1>0. FilesTypeOK /\ MoveInv /\ RecInv  BY DEF IInv, TrashInv, TypeOK
<1>a. RowsOK(row, jr) /\ PlacesOK  BY DEF AgreeInv
<1>1. /\ Idle /\ dplan.file # NoFile /\ dplan.src = row[dplan.file]
      /\ disk' = [disk EXCEPT ![dplan.src] = NoFile] /\ gone' = gone \cup LastCopies(dplan.src)
      /\ job' = [NoJob EXCEPT !.kind = "delete", !.step = "detach", !.file = dplan.file]
      /\ UNCHANGED <<row, other, mv, phase, jr, rec, dplan>>
  BY DEF RemoveFile, CanApplyDelete, StaleDelete, trashVars
<1>2. ~Taking /\ phase = "open" /\ mv.at = "none"  BY <1>0, <1>1, NotMoving DEF Taking, Moving, Deleting, Idle
<1>3. /\ (\A j \in Jid : jr[j].st # "planned") /\ (\A e \in Pid : rec[e].st # "pending")
      /\ ~Here(dplan.slot)
  BY <1>1, <1>2, OpenSettled
<1>4. RowsApart(row) /\ \A f \in File : row[f] # NoPath => disk[row[f]] = Whole(f)  BY <1>a, <1>3, SettledStand
<1>5. dplan.file \in File /\ dplan.src \in Path /\ dplan.src \in Place /\ dplan.src # NoPath /\ dplan.slot \in Slot
  BY <1>0, <1>1, PlaceFacts DEF RecInv, IInv, TrashInv, TypeOK, RowsTypeOK
<1>6. disk \in [Place -> Bytes] /\ row \in [File -> AnyPath] /\ other \subseteq Path  BY <1>0 DEF FilesTypeOK, AnyPath
<1>7. \A p \in Place \ {dplan.src} : disk'[p] = disk[p]  BY <1>1, <1>6
<1>8. job'.kind = "delete" /\ job'.step = "detach" /\ job'.file = dplan.file  BY <1>1 DEF NoJob
<1>9. \A f \in File \ {dplan.file} : row[f] # NoPath => disk'[row[f]] = Whole(f)
  <2> SUFFICES ASSUME NEW f \in File \ {dplan.file}, row[f] # NoPath  PROVE disk'[row[f]] = Whole(f)  OBVIOUS
  <2>1. row[f] # dplan.src /\ row[f] \in Place  BY <1>1, <1>4, <1>5, <1>6, PlaceFacts DEF RowsApart, AnyPath
  <2> QED  BY <1>4, <1>7, <2>1
<1>10. PlacesOK'
  <2>1. \A p \in other : p \in Place /\ p # dplan.src  BY <1>1, <1>4, <1>5, <1>6, PlaceFacts DEF RowsApart
  <2>2. \A e \in Pid : rec[e].st # "none" => rec[e].slot \in Place /\ rec[e].slot # dplan.src
    BY <1>0, <1>5, PlaceFacts DEF RecInv
  <2> QED  BY <1>a, <1>1, <1>7, <2>1, <2>2 DEF PlacesOK, Here
<1>11. ~Here(dplan.slot)'
  <2>1. dplan.slot \in Place /\ dplan.slot # dplan.src  BY <1>5, PlaceFacts
  <2> QED  BY <1>1, <1>3, <1>7, <2>1 DEF Here
<1>12. RowsApart(row)'  BY <1>1, <1>4 DEF RowsApart
<1>13. DetachOK'
  BY <1>1, <1>2, <1>3, <1>5, <1>8, <1>9, <1>10, <1>11, <1>12 DEF DetachOK, Deleting
<1>14. \A f \in gone' \ gone : f = job'.file
  <2> SUFFICES ASSUME NEW f \in LastCopies(dplan.src)  PROVE f = dplan.file  BY <1>1, <1>8
  <2>1. f \in File /\ disk[dplan.src] = Whole(f)  BY DEF LastCopies
  <2>2. disk[dplan.src] = Whole(dplan.file)  BY <1>1, <1>4, <1>5
  <2> QED  BY <1>5, <2>1, <2>2, BytesFacts
<1> QED  BY <1>13, <1>14

\* A delete for good ends with its row, and every other step of an open store goes past it.
LEMMA DetachAgrees ==
  ASSUME Faultless, IInv, DetachOK, [Next]_vars, strayed' = {}
  PROVE  /\ Agree'
         /\ gone' = gone
<1>0. FilesTypeOK /\ RowsTypeOK /\ MoveInv /\ TrashJobInv /\ RecInv  BY DEF IInv, TrashInv, TypeOK
<1>d. /\ job.kind = "delete" /\ job.step = "detach" /\ phase = "open" /\ mv.at = "none" /\ job.file \in File
      /\ ~Deleting("move") /\ ~Deleting("back") /\ ~Idle
  BY DEF DetachOK, Deleting, Idle
<1>u. ASSUME UNCHANGED <<disk, row, other, mv, phase, job, jr, rec>>, dplan'.file # NoFile => ~Here(dplan'.slot)
      PROVE  DetachOK'
  BY <1>u DEF DetachOK, Deleting, RowsApart, PlacesOK, Here
<1>1. CASE DetachFile
  <2>1. DropRows({job.file}) /\ rec' = Detached(rec, {job.file}) /\ job' = NoJob /\ mv' = NoMove
        /\ UNCHANGED <<disk, other, gone, phase, saved, rplan>>
    BY <1>1 DEF DetachFile, JobEnds, Faultless
  <2>2. /\ \A f \in File : row'[f] = IF f = job.file THEN NoPath ELSE row[f]
        /\ \A j \in Jid : jr'[j].st = jr[j].st
        /\ dplan' \in {dplan, NoDelete}
    BY <1>0, <1>d, <2>1, DropRowsLeave
  <2>3. \A e \in Pid : rec'[e].st = rec[e].st /\ rec'[e].file = rec[e].file /\ rec'[e].slot = rec[e].slot
    BY <1>0, <1>d, <2>1, DetachedFacts DEF RowsTypeOK
  <2>4. (\A j \in Jid : jr'[j].st # "planned") /\ (\A e \in Pid : rec'[e].st # "pending")
    BY <2>2, <2>3 DEF DetachOK
  <2>5. RowsOK(row, jr)'
    <3>1. NoPath \notin other  BY <1>0, PlaceFacts DEF FilesTypeOK
    <3>2. RowsApart(row)'  BY <2>1, <2>2, <3>1 DEF RowsApart, DetachOK
    <3>3. \A f \in File : row'[f] # NoPath => disk'[row'[f]] = Whole(f)  BY <2>1, <2>2 DEF DetachOK
    <3> QED  BY <2>4, <3>2, <3>3, AllSettled
  <2>6. PlacesOK'  BY <2>1, <2>3 DEF DetachOK, PlacesOK, Here
  <2>7. dplan'.file # NoFile => disk'[dplan'.slot] = NoFile
    <3>1. CASE dplan' = NoDelete  BY <3>1, EmptyFacts
    <3>2. CASE dplan' = dplan  BY <2>1, <3>2 DEF DetachOK, Here
    <3> QED  BY <2>2, <3>1, <3>2
  <2>8. job'.kind = "none" /\ mv'.at = "none" /\ ~Taking'  BY <2>1, EmptyFacts DEF Taking, Deleting
  <2>9. AgreeInv'  BY <1>d, <2>1, <2>4, <2>5, <2>6, <2>7, <2>8, QuietAgrees
  <2> QED  BY <2>1, <2>9 DEF Agree
<1>2. CASE \E f \in File : PlanDelete(f)
  <2>1. PICK f \in File, s \in Slot, m \in Modes :
          ~Here(s) /\ dplan' = [file |-> f, src |-> row[f], slot |-> s, mode |-> m] /\ UNCHANGED <<diskVars, orgVars, rec, rplan>>
    BY <1>2 DEF PlanDelete
  <2>2. UNCHANGED <<disk, row, other, mv, gone, phase, job, jr, rec>>  BY <2>1 DEF diskVars, orgVars
  <2> QED  BY <1>u, <2>1, <2>2 DEF Agree
<1>3. CASE PlanOrganize /\ UNCHANGED trashVars
  <2>1. UNCHANGED <<disk, row, other, mv, gone, phase, job, jr, rec, dplan>>  BY <1>3 DEF PlanOrganize, diskVars, trashVars
  <2> QED  BY <1>u, <2>1 DEF Agree, DetachOK
<1>4. CASE (\E e \in Pid : ReadEntry(e)) \/ UNCHANGED vars
  <2>1. UNCHANGED <<disk, row, other, mv, gone, phase, job, jr, rec, dplan>>
    BY <1>4 DEF ReadEntry, vars, diskVars, orgVars, trashVars
  <2> QED  BY <1>u, <2>1 DEF Agree, DetachOK
<1>5. ~MoveStep
  BY <1>d DEF MoveStep, MoveRefused, MoveChecked, MoveFails, MoveRename, CopyStarts, CopyEnds, CopyFails, SourceRemoved,
    SourceStays, CopyDropped, CopyLeft
<1>6. ~UserStep  BY DEF UserStep, UserRemoves, UserMoves, UserCopies, Faultless
<1>7. OrgStep => PlanOrganize
  BY <1>d DEF OrgStep, RunOrganize, ApplyOrganize, Execute, CommitMove, CommitMoveFails, AbortMove, ExecuteEnds,
    BeginRecovery, MovesRecovered, MovesUnrecovered, Apply, Park, FinishMove, RollBackMove, Scan
<1>8. TrashStep => DetachFile \/ (\E f \in File : PlanDelete(f)) \/ (\E e \in Pid : ReadEntry(e))
  <2>1. ~TrashFile /\ ~TrashFileFails /\ ~AbortTrash /\ ~KeepPending /\ ~RemoveFile /\ ~Restore
    BY <1>d DEF TrashFile, TrashFileFails, AbortTrash, KeepPending, RemoveFile, CanApplyDelete, Restore
  <2>2. ~RestoreMoved /\ ~RestoreFails /\ ~RestoreScan /\ ~MarkTrashRestored /\ ~DeleteTrashRow /\ ~Sweep
    BY <1>d DEF RestoreMoved, RestoreFails, RestoreScan, MarkTrashRestored, DeleteTrashRow, Sweep, Restoring, Purging
  <2>3. ~RecoverTrash /\ ~TrashRootDown /\ ~HandOver /\ \A e \in Pid : ~PlanTrash(e) /\ ~Purge(e) /\ ~SettleTrashCopy(e)
    BY <1>d DEF RecoverTrash, TrashRootDown, HandOver, PlanTrash, CanApplyDelete, Purge, SettleTrashCopy
  <2>4. ~Crash  BY DEF Crash, DetachOK
  <2> QED  BY <2>1, <2>2, <2>3, <2>4 DEF TrashStep
<1> QED  BY <1>1, <1>2, <1>3, <1>4, <1>5, <1>6, <1>7, <1>8 DEF Next

\* A crash, or the lock handed over, at any point of a run: what is unsettled is on record.
LEMMA EndAgrees ==
  ASSUME IInv, AgreeInv, Crash \/ HandOver
  PROVE  AgreeInv'
<1>0. MoveInv  BY DEF IInv, TrashInv
<1>a. RowsOK(row, jr) /\ PlacesOK /\ PlansOK  BY DEF AgreeInv
<1>1. phase' = "down" /\ UNCHANGED <<disk, row, other, jr, rec>>  BY DEF Crash, HandOver, diskVars, trashVars
<1>2. job'.kind = "none" /\ mv'.at = "none"
  <2>1. CASE Crash  BY <2>1, EmptyFacts DEF Crash, JobEnds
  <2>2. CASE HandOver  BY <1>0, <2>2, NotMoving DEF HandOver, Idle, Moving, diskVars
  <2> QED  BY <2>1, <2>2
<1>3. PlansOK'
  <2>1. CASE Crash  BY <2>1, EmptyFacts DEF Crash, PlansOK, NoDelete
  <2>2. CASE HandOver
    <3>1. ~Deleting("move") /\ UNCHANGED <<disk, oplan, dplan>>  BY <2>2 DEF HandOver, Idle, Deleting, diskVars, trashVars
    <3> QED  BY <1>a, <3>1, PlansKept
  <2> QED  BY <2>1, <2>2
<1>4. RowsOK(row, jr)' /\ PlacesOK'  BY <1>a, <1>1, SameRows
<1>5. UnsettledOK'  BY <1>1 DEF UnsettledOK
<1> QED  BY <1>2, <1>3, <1>4, <1>5, NoJobAgrees DEF AgreeInv

\* At the start every file stands at its row's path and nothing is unsettled.
LEMMA InitAgrees ==
  ASSUME Init
  PROVE  AgreeInv
<1> USE DEF Init, OrgInit, FilesInit
<1>1. job.kind = "none" /\ mv.at = "none" /\ phase = "open" /\ dplan = NoDelete /\ dplan.file = NoFile  BY EmptyFacts
<1>2. (\A j \in Jid : jr[j].st # "planned") /\ \A e \in Pid : rec[e].st = "none"  BY EmptyFacts
<1>3. \A f \in File : row[f] \in Path /\ row[f] \in Place /\ disk[row[f]] = Whole(f)  BY PlaceFacts
<1>4. RowsApart(row)  BY <1>3, BytesFacts DEF RowsApart
<1>5. RowsOK(row, jr)
  BY <1>2, <1>3, <1>4 DEF RowsOK, RowsStand, OneUnsettled, JournalStands, PendingStand
<1>6. PlacesOK  BY <1>2 DEF PlacesOK
<1>7. UnsettledOK  BY <1>1, <1>2 DEF UnsettledOK
<1>8. TakingOK /\ JobOK  BY <1>1 DEF TakingOK, Taking, JobOK, Deleting
<1>9. PlansOK  BY <1>1 DEF PlansOK, NoDelete
<1> QED  BY <1>5, <1>6, <1>7, <1>8, <1>9 DEF AgreeInv

\* Every step leaves catalog and disk agreeing.
LEMMA StepAgrees ==
  ASSUME Faultless, IInv, AgreeInv, [Next]_vars, ~RemoveFile, strayed' = {}
  PROVE  AgreeInv'
<1>1. CASE MoveStep /\ UNCHANGED <<orgVars, trashVars>>  BY <1>1, MoveAgrees
<1>2. ~UserStep  BY DEF UserStep, UserRemoves, UserMoves, UserCopies, Faultless
<1>3. CASE OrgStep /\ UNCHANGED trashVars  BY <1>3, OrgAgrees
<1>4. CASE TrashStep
  <2>1. ~TrashRootDown  BY DEF TrashRootDown, Faultless
  <2> QED  BY <1>4, <2>1, DeleteAgrees, RestorePurgeAgrees, RecoverTrashAgrees, SettleCopyAgrees, EndAgrees DEF TrashStep
<1>5. CASE UNCHANGED vars  BY <1>5, AgreeUnchanged DEF vars, diskVars, orgVars, trashVars
<1> QED  BY <1>1, <1>2, <1>3, <1>4, <1>5 DEF Next

\* Until something strays, catalog and disk agree but for a delete for good at work.
AgreeSoFar == IInv /\ StrayedOK /\ (strayed = {} => Agree)

LEMMA AgreeSafe ==
  ASSUME Faultless, AgreeSoFar, [Next]_vars
  PROVE  AgreeSoFar'
<1>0. IInv /\ StrayedOK /\ (strayed = {} => Agree)  BY DEF AgreeSoFar
<1>1. IInv' /\ strayed \subseteq strayed' /\ StrayedOK'  BY <1>0, StepSafe, StrayedGrows
<1>2. ASSUME strayed' = {}  PROVE Agree'
  <2>1. strayed = {}  BY <1>1, <1>2
  <2>2. CASE DetachOK  BY <1>0, <1>2, <2>2, DetachAgrees
  <2>3. CASE AgreeInv /\ RemoveFile  BY <1>0, <1>2, <2>3, RemoveAgrees DEF Agree
  <2>4. CASE AgreeInv /\ ~RemoveFile  BY <1>0, <1>2, <2>4, StepAgrees DEF Agree
  <2> QED  BY <1>0, <2>1, <2>2, <2>3, <2>4 DEF Agree
<1> QED  BY <1>1, <1>2 DEF AgreeSoFar

\* A purge empties the folder of the entry it names, which holds that entry's file, and a
\* delete for good the path of the file it names.
LEMMA StepNames ==
  ASSUME Faultless, IInv, AgreeInv, [Next]_vars, strayed' = {}
  PROVE  DeletesWhatItNames
<1>0. FilesTypeOK /\ RowsTypeOK /\ MoveInv /\ RecInv /\ PlacesOK /\ PlansOK  BY DEF IInv, TrashInv, TypeOK, AgreeInv
<1>r. CASE RemoveFile
  <2>1. job'.kind = "delete"  BY <1>r DEF RemoveFile, NoJob
  <2> QED  BY <1>r, <2>1, RemoveAgrees DEF DeletesWhatItNames
<1>1. CASE \E e \in Pid : Purge(e)
  <2>1. PICK e \in Pid : Purge(e)  BY <1>1
  <2>2. /\ rec[e].st = "active" /\ gone' = gone \cup LastCopies(rec[e].slot)
        /\ job' = [NoJob EXCEPT !.kind = "purge", !.step = "row", !.id = e]
    BY <2>1 DEF Purge
  <2>3. job'.kind = "purge" /\ job'.id = e  BY <2>2 DEF NoJob
  <2>4. ASSUME NEW f \in gone' \ gone  PROVE rec[e].file = f
    <3>1. f \in File /\ disk[rec[e].slot] = Whole(f)  BY <2>2, <2>4 DEF LastCopies
    <3>2. Here(rec[e].slot) /\ disk[rec[e].slot][1] = f  BY <3>1, BytesFacts DEF Here
    <3> QED  BY <1>0, <2>2, <3>2 DEF PlacesOK
  <2> QED  BY <2>3, <2>4 DEF DeletesWhatItNames
<1>2. CASE gone' = gone  BY <1>2 DEF DeletesWhatItNames
<1>3. RemoveFile \/ (\E e \in Pid : Purge(e)) \/ gone' = gone
  <2>1. MoveStep => gone' = gone
    BY DEF MoveStep, MoveRefused, MoveChecked, MoveFails, MoveRename, CopyStarts, CopyEnds, CopyFails, SourceRemoved, SourceStays,
      CopyDropped, CopyLeft
  <2>2. ~UserStep  BY DEF UserStep, UserRemoves, UserMoves, UserCopies, Faultless
  <2>3. OrgStep => gone' = gone
    BY DEF OrgStep, PlanOrganize, RunOrganize, ApplyOrganize, Execute, CommitMove, CommitMoveFails, AbortMove, ExecuteEnds,
      BeginRecovery, MovesRecovered, MovesUnrecovered, Apply, Park, PlanMove, FinishMove, RollBackMove, Scan, diskVars
  <2>4. TrashStep => RemoveFile \/ gone' = gone \/ \E e \in Pid : Purge(e)
    BY DEF TrashStep, TrashFile, TrashFileFails, AbortTrash, KeepPending, DetachFile, Restore, RestoreMoved, RestoreFails,
      RestoreScan, MarkTrashRestored, DeleteTrashRow, Sweep, RecoverTrash, TrashRootDown, Crash, HandOver, PlanDelete, PlanTrash,
      ReadEntry, SettleTrashCopy, diskVars
  <2>5. UNCHANGED vars => gone' = gone  BY DEF vars, diskVars
  <2> QED  BY <2>1, <2>2, <2>3, <2>4, <2>5 DEF Next
<1> QED  BY <1>r, <1>1, <1>2, <1>3

\* A recovery leaves the row of every file that stands where the row says.
LEMMA StepKeepsRows ==
  ASSUME Faultless, IInv, AgreeInv, [Next]_vars
  PROVE  RecoveryKeepsRows
<1>0. MoveInv /\ TrashJobInv /\ JobOK  BY DEF IInv, TrashInv, AgreeInv
<1> SUFFICES ASSUME phase \in {"moves", "trash"}, phase' # "down"  PROVE RecoveryKeepsRows
  BY DEF RecoveryKeepsRows
<1>1. job.kind = "none" /\ mv.at = "none"  BY <1>0, NotMoving DEF TrashJobInv, Moving
<1>2. CASE row' = row /\ disk' = disk  BY <1>2 DEF RecoveryKeepsRows
<1>3. ~MoveStep  BY <1>0, <1>1, MoveGoesOnHolds DEF MoveStep, MoveRefused, MoveChecked, MoveFails, MoveRename, CopyStarts, CopyEnds,
        CopyFails, SourceRemoved, SourceStays, CopyDropped, CopyLeft
<1>4. ~UserStep  BY DEF UserStep, UserRemoves, UserMoves, UserCopies, Faultless
<1>5. CASE OrgStep /\ UNCHANGED trashVars
  <2>1. (\E j \in Jid : FinishMove(j) \/ RollBackMove(j)) \/ (row' = row /\ disk' = disk)
    BY <1>1, <1>5 DEF OrgStep, PlanOrganize, RunOrganize, ApplyOrganize, Execute, CommitMove, CommitMoveFails, AbortMove, ExecuteEnds,
      BeginRecovery, MovesRecovered, MovesUnrecovered, Apply, Park, Scan, Idle, diskVars
  <2> QED  BY <1>2, <1>5, <2>1, JournalRowSettles
<1>6. CASE TrashStep
  <2>1. RecoverTrash \/ (\E e \in Pid : SettleTrashCopy(e)) \/ (row' = row /\ disk' = disk)
    BY <1>1, <1>6 DEF TrashStep, TrashFile, TrashFileFails, AbortTrash, KeepPending, RemoveFile, DetachFile, Restore, RestoreMoved,
      RestoreFails, RestoreScan, MarkTrashRestored, DeleteTrashRow, Sweep, TrashRootDown, Crash, HandOver, PlanDelete, PlanTrash,
      ReadEntry, Purge, CanApplyDelete, Idle, Deleting, Restoring, Purging, diskVars
  <2> QED  BY <1>2, <2>1, RecoverTrashAgrees, SettleCopyAgrees
<1>7. CASE UNCHANGED vars  BY <1>2, <1>7 DEF vars, diskVars
<1> QED  BY <1>3, <1>4, <1>5, <1>6, <1>7 DEF Next

\* Where nothing fails and nobody touches the tree by hand, every row names its file where
\* it stands whenever no job runs and nothing is left to settle, whatever was cut off before:
\* until a plan is applied to a path its file has left, or a delete for good is cut off.
THEOREM CatalogMatchesDiskHolds ==
  ASSUME Faultless
  PROVE  Spec => []CatalogMatchesDisk
<1>1. Init => AgreeSoFar  BY InitSafe, InitAgrees DEF AgreeSoFar, Agree, StrayedOK, Init, OrgInit
<1>2. AgreeSoFar /\ [Next]_vars => AgreeSoFar'  BY AgreeSafe
<1>3. AgreeSoFar => CatalogMatchesDisk
  <2> SUFFICES ASSUME AgreeSoFar, strayed = {}, Idle, Pending = {}, \A j \in Jid : jr[j].st = "free",
                      NEW f \in File, row[f] # NoPath
               PROVE  disk[row[f]] = Whole(f)
    BY DEF CatalogMatchesDisk
  <2>1. AgreeInv  BY DEF AgreeSoFar, Agree, DetachOK, Deleting, Idle
  <2> QED  BY <2>1 DEF AgreeInv, RowsOK, RowsStand, Pending
<1> QED  BY <1>1, <1>2, <1>3, PTL DEF Spec

\* There a delete, to the trash or for good, and a purge end no file but the one they name,
\* with delete plans and organize plans waiting while other jobs move files, and the recovery
\* of an open keeps every row whose file stands.
THEOREM FilesNamedHolds ==
  ASSUME Faultless
  PROVE  Spec => FilesNamed
<1>1. Init => AgreeSoFar  BY InitSafe, InitAgrees DEF AgreeSoFar, Agree, StrayedOK, Init, OrgInit
<1>2. AgreeSoFar /\ [Next]_vars => AgreeSoFar'  BY AgreeSafe
<1>3. AgreeSoFar /\ [Next]_vars => [strayed' = {} => DeletesWhatItNames /\ RecoveryKeepsRows]_vars
  <2> SUFFICES ASSUME AgreeSoFar, [Next]_vars, strayed' = {}  PROVE DeletesWhatItNames /\ RecoveryKeepsRows  OBVIOUS
  <2>0. IInv /\ Agree  BY StrayedGrows DEF AgreeSoFar
  <2>1. CASE AgreeInv  BY <2>0, <2>1, StepNames, StepKeepsRows
  <2>2. CASE DetachOK
    <3>1. gone' = gone  BY <2>0, <2>2, DetachAgrees
    <3> QED  BY <2>2, <3>1 DEF DetachOK, DeletesWhatItNames, RecoveryKeepsRows
  <2> QED  BY <2>0, <2>1, <2>2 DEF Agree
<1> QED  BY <1>1, <1>2, <1>3, PTL DEF Spec, FilesNamed
=============================================================================
