------------------------------ MODULE Organize ------------------------------
(***************************************************************************)
(* Organize: the plan of moves, Execute with its journal (PlanMove, move,  *)
(* CommitMove or AbortMove), cycles broken by parking, and recoverOrganize *)
(* on the next open.  A job holds the fs-mutate lease, so one runs at a    *)
(* time; job is that job, whatever its kind.                               *)
(***************************************************************************)
EXTENDS FileMoves

CONSTANTS
  Jid,         \* organize_journal pids in use at once
  PlansWait    \* the plans that may be applied later than they were made: "organize", "delete"

VARIABLES
  phase,   \* of the store: down | moves (recoverOrganize) | trash (recoverTrash) | open
  saved,   \* row and jr as they were when recoverOrganize began its transaction
  job,     \* the job holding the lease
  jr,      \* organize_journal: the planned rows; a settled one is "free"
  oplan,   \* an organize plan a host keeps: where each file was and is to go
  strayed  \* history: files of plans applied to paths they had left, and of deletes for good cut off half-way

orgVars == <<phase, saved, job, jr, oplan, strayed>>

NoPlan == [src |-> [f \in File |-> NoPath], dst |-> [f \in File |-> NoPath]]
FreeRow == [st |-> "free", file |-> NoFile, linked |-> FALSE, src |-> NoPath, dst |-> NoPath]
NoJob == [kind |-> "none", step |-> "none", file |-> NoFile, id |-> NoFile,
          todo |-> {}, src |-> NoPlan.src, dst |-> NoPlan.dst]
NoSave == [row |-> [f \in File |-> NoPath], jr |-> [j \in Jid |-> FreeRow]]

Idle == phase = "open" /\ job.kind = "none"

OrgInit ==
  /\ FilesInit
  /\ phase = "open"
  /\ saved = NoSave
  /\ job = NoJob
  /\ jr = [j \in Jid |-> FreeRow]
  /\ oplan = NoPlan
  /\ strayed = {}

-----------------------------------------------------------------------------
(***************************************************************************)
(* PlanOrganize, then Execute inside the job or ApplyOrganize later.       *)
(***************************************************************************)
Plans == {[src |-> row, dst |-> d] : d \in [File -> Path \cup {NoPath}]}

PlanOrganize ==
  /\ phase = "open" /\ "organize" \in PlansWait
  /\ \E d \in [File -> Path \cup {NoPath}] : oplan' = [src |-> row, dst |-> d]
  /\ UNCHANGED <<diskVars, phase, saved, job, jr, strayed>>

(***************************************************************************)
(* Hold: what may move.  The source stands; two moves do not share a       *)
(* destination; a destination another file stands at, or a row names, is   *)
(* free only if the plan moves that file away.  Which of two clashing      *)
(* moves is held, and what a cancel cuts off, is left open.                *)
(***************************************************************************)
Movable(plan, T) ==
  \A f \in T :
    LET p == plan.dst[f] IN
    /\ plan.src[f] # NoPath /\ p \notin {NoPath, plan.src[f]}
    /\ Here(plan.src[f])
    /\ \A g \in T \ {f} : plan.dst[g] # p
    /\ \A g \in File \ T : plan.dst[g] # NoPath => plan.src[g] # p
    /\ Here(p) \/ p \in other \/ RowAt(p) # {} => \E g \in T : plan.src[g] = p

Execute(plan) ==
  /\ Idle
  /\ \E T \in SUBSET File :
       /\ T # {} /\ Movable(plan, T)
       /\ job' = [NoJob EXCEPT !.kind = "organize", !.step = "pick", !.todo = T,
                               !.src = plan.src, !.dst = plan.dst]
       /\ strayed' = strayed \cup {f \in T : plan.src[f] # row[f]}
  /\ UNCHANGED <<diskVars, phase, saved, jr, oplan>>

RunOrganize == \E plan \in Plans : Execute(plan)
ApplyOrganize == oplan # NoPlan /\ Execute(oplan)

\* A move waits while its destination is the source of a move still to come.
Blocked(f) == \E g \in job.todo \ {f} : job.src[g] = job.dst[f]

Dropped(f) == [job EXCEPT !.step = "pick", !.file = NoFile, !.id = NoFile, !.todo = @ \ {f}]

\* PlanMove: the journal row, which the file's row must exist for.
PlanMove(f, dst, step) ==
  \/ /\ row[f] # NoPath
     /\ \E j \in Jid :
          /\ jr[j].st = "free"
          /\ jr' = [jr EXCEPT ![j] = [st |-> "planned", file |-> f, linked |-> TRUE,
                                      src |-> job.src[f], dst |-> dst]]
          /\ job' = [job EXCEPT !.step = step, !.file = f, !.id = j]
     /\ StartMove(job.src[f], dst)
     /\ UNCHANGED <<disk, row, other, gone, phase, saved, oplan, strayed>>
  \/ /\ DBFaults \/ row[f] = NoPath
     /\ job' = Dropped(f)
     /\ UNCHANGED <<diskVars, phase, saved, jr, oplan, strayed>>

\* apply: journal a move nothing waits in front of.
Apply(f) ==
  /\ job.kind = "organize" /\ job.step = "pick" /\ f \in job.todo
  /\ ~Blocked(f)
  /\ PlanMove(f, job.dst[f], "apply")

\* park: every move left waits on another; one goes to a fresh name (FreeName) first.
Park(f) ==
  /\ job.kind = "organize" /\ job.step = "pick" /\ f \in job.todo
  /\ \A g \in job.todo : Blocked(g)
  /\ \E tmp \in Path :
       /\ ~Here(tmp) /\ RowAt(tmp) = {} /\ tmp \notin other /\ \A g \in job.todo : tmp \notin {job.src[g], job.dst[g]}
       /\ PlanMove(f, tmp, "park")

\* The run goes on: past a move that ended, or from the name it was parked at.
AfterMove(f, dst) ==
  IF job.step = "park"
  THEN [job EXCEPT !.step = "pick", !.file = NoFile, !.id = NoFile, !.src[f] = dst]
  ELSE Dropped(f)

\* Mutant: the journal row is settled and the file row forgotten.
CommitMoveUnrecorded ==
  /\ job.kind = "organize" /\ job.step \in {"apply", "park"} /\ mv.at = "done"
  /\ jr' = [jr EXCEPT ![job.id] = FreeRow]
  /\ job' = AfterMove(job.file, mv.dst)
  /\ mv' = NoMove
  /\ UNCHANGED <<disk, row, other, gone, phase, saved, oplan, strayed>>

\* CommitMove: row, journal row and change in one transaction; paths are unique.
CommitMove ==
  LET f == job.file IN
  /\ job.kind = "organize" /\ job.step \in {"apply", "park"} /\ mv.at = "done"
  /\ row[f] # NoPath /\ ~HeldByAnother(mv.dst, f)
  /\ row' = [row EXCEPT ![f] = mv.dst]
  /\ jr' = [jr EXCEPT ![job.id] = FreeRow]
  /\ job' = AfterMove(f, mv.dst)
  /\ mv' = NoMove
  /\ UNCHANGED <<disk, other, gone, phase, saved, oplan, strayed>>

\* The write fails, or another row has the path: the journal row stays planned.
CommitMoveFails ==
  LET f == job.file IN
  /\ job.kind = "organize" /\ job.step \in {"apply", "park"} /\ mv.at = "done"
  /\ DBFaults \/ row[f] = NoPath \/ HeldByAnother(mv.dst, f)
  /\ job' = Dropped(f)
  /\ mv' = NoMove
  /\ UNCHANGED <<disk, row, other, gone, phase, saved, jr, oplan, strayed>>

\* abortMove: rolled back, unless both files are left or the write fails.
AbortMove ==
  /\ job.kind = "organize" /\ job.step \in {"apply", "park"} /\ mv.at \in {"failed", "copyleft"}
  /\ \/ mv.at = "failed" /\ jr' = [jr EXCEPT ![job.id] = FreeRow]
     \/ (mv.at = "copyleft" \/ DBFaults) /\ UNCHANGED jr
  /\ job' = Dropped(job.file)
  /\ mv' = NoMove
  /\ UNCHANGED <<disk, row, other, gone, phase, saved, oplan, strayed>>

\* The run is over, or its context ends between two moves.
ExecuteEnds ==
  /\ job.kind = "organize" /\ job.step = "pick"
  /\ job' = NoJob
  /\ UNCHANGED <<diskVars, phase, saved, jr, oplan, strayed>>

\* A scan of the path, which takes the same lease.
Scan(p) ==
  /\ Idle
  /\ ScanPath(p)
  /\ UNCHANGED <<disk, mv, gone, orgVars>>

-----------------------------------------------------------------------------
(***************************************************************************)
(* recoverOrganize, one transaction over the planned rows.                 *)
(***************************************************************************)
BeginRecovery ==
  /\ phase = "down"
  /\ phase' = "moves"
  /\ saved' = [row |-> row, jr |-> jr]
  /\ UNCHANGED <<diskVars, job, jr, oplan, strayed>>

MoveMade(r) == r.linked /\ Here(r.dst) /\ ~Here(r.src)
BothStand(r) == r.linked /\ Here(r.dst) /\ Here(r.src)
DstTaken(r) == HeldByAnother(r.dst, r.file)

\* The move completed: the row follows, unless another row holds the path.
FinishMove(j) ==
  /\ phase = "moves" /\ jr[j].st = "planned"
  /\ MoveMade(jr[j]) /\ ~DstTaken(jr[j])
  /\ row' = [row EXCEPT ![jr[j].file] = jr[j].dst]
  /\ jr' = [jr EXCEPT ![j] = FreeRow]
  /\ UNCHANGED <<disk, other, mv, gone, phase, saved, job, oplan, strayed>>

\* Mutant: a move that was made is rolled back in the catalog alone.
RollBackMoveMade(j) ==
  /\ phase = "moves" /\ jr[j].st = "planned"
  /\ jr' = [jr EXCEPT ![j] = FreeRow]
  /\ UNCHANGED <<diskVars, phase, saved, job, oplan, strayed>>

\* The move did not take effect; dropMoveCopyTx removes a copy it left.
RollBackMove(j) ==
  LET r == jr[j] IN
  /\ phase = "moves" /\ r.st = "planned"
  /\ MoveMade(r) => DstTaken(r)
  /\ disk' = IF BothStand(r) /\ ~DstTaken(r) /\ CopyOfStart(r.src, r.dst)
             THEN [disk EXCEPT ![r.dst] = NoFile] ELSE disk
  /\ jr' = [jr EXCEPT ![j] = FreeRow]
  /\ UNCHANGED <<row, other, mv, gone, phase, saved, job, oplan, strayed>>

\* The transaction commits.  A copy that could not be read or removed keeps its
\* row for the next open, and so do all rows under a root that does not answer.
MovesRecovered ==
  /\ phase = "moves"
  /\ \/ \A j \in Jid : jr[j].st = "planned" => (IOFaults /\ BothStand(jr[j]))
     \/ IOFaults /\ jr = saved.jr /\ row = saved.row
  /\ phase' = "trash"
  /\ saved' = NoSave
  /\ UNCHANGED <<diskVars, job, jr, oplan, strayed>>

\* The transaction fails or the process dies in it: the disk keeps what was done.
MovesUnrecovered ==
  /\ phase = "moves"
  /\ phase' = "down"
  /\ row' = saved.row /\ jr' = saved.jr
  /\ saved' = NoSave
  /\ UNCHANGED <<disk, other, mv, gone, job, oplan, strayed>>

OrgStep ==
  \/ PlanOrganize \/ RunOrganize \/ ApplyOrganize \/ CommitMove \/ CommitMoveFails
  \/ AbortMove \/ ExecuteEnds \/ BeginRecovery \/ MovesRecovered \/ MovesUnrecovered
  \/ \E f \in File : Apply(f) \/ Park(f)
  \/ \E j \in Jid : FinishMove(j) \/ RollBackMove(j)
  \/ \E p \in Path : Scan(p)
=============================================================================
