----------------------------- MODULE FileMoves -----------------------------
(***************************************************************************)
(* The tree of a library, the catalog's file rows, and fsx.Move, the move  *)
(* that organize, trash and restore share.  A place is a path of the       *)
(* library or a slot, the file inside one trash entry folder.  A file is   *)
(* known by its bytes, so a file row and the bytes it was cataloged from   *)
(* have one name; a copy that is cut off is the "part" of its file.        *)
(***************************************************************************)
EXTENDS Naturals, FiniteSets

CONSTANTS
  File, Path, Slot,
  NoFile,      \* nothing at a place
  NoPath,      \* no place: a file without a row
  IOFaults,    \* a rename, copy or removal may fail
  DBFaults,    \* a catalog write may fail
  UserActs,    \* somebody moves and deletes library files by hand
  UserRaces    \* ... even a move's destination between its check and its rename

Place == Path \cup Slot
Whole(f) == <<f, "whole">>
Part(f) == <<f, "part">>
Bytes == {NoFile} \cup (File \X {"whole", "part"})

ASSUME FileMovesAssumption ==
  /\ Path \cap Slot = {}
  /\ NoPath \notin Place
  /\ NoFile \notin File \X {"whole", "part"}
  /\ {IOFaults, DBFaults, UserActs, UserRaces} \subseteq BOOLEAN

VARIABLES
  disk,    \* Place -> Bytes
  row,     \* file.path: File -> Path, NoPath when there is no row
  other,   \* the paths that rows of second or cut-off copies name
  mv,      \* the call of fsx.Move in progress
  gone     \* history: the files whose last whole copy was deleted on request

diskVars == <<disk, row, other, mv, gone>>

MoveSteps == {"none", "ready", "checked", "copying", "copied", "stuck",
              "done", "failed", "copyleft"}
NoMove == [at |-> "none", src |-> NoPath, dst |-> NoPath, data |-> NoFile]

FilesTypeOK ==
  /\ disk \in [Place -> Bytes]
  /\ row \in [File -> Path \cup {NoPath}]
  /\ other \subseteq Path
  /\ mv \in [at : MoveSteps, src : Place \cup {NoPath}, dst : Place \cup {NoPath}, data : Bytes]
  /\ gone \subseteq File

\* Every file starts whole at the path its row names.
FilesInit ==
  /\ row \in [File -> Path]
  /\ disk \in [Place -> {NoFile} \cup {Whole(f) : f \in File}]
  /\ \A f \in File, p \in Place : disk[p] = Whole(f) <=> row[f] = p
  /\ other = {}
  /\ mv = NoMove
  /\ gone = {}

Here(p) == disk[p] # NoFile
Held(f) == \E p \in Place : disk[p] = Whole(f)
RowAt(p) == {f \in File : row[f] = p}

\* A row other than f's holds the path: file.path is unique.
HeldByAnother(p, f) == p \in other \/ ~(RowAt(p) \subseteq {f})

\* copyOfStart: the copy holds the original's bytes or the start of them.
CopyOfStart(orig, copy) ==
  /\ Here(orig) /\ Here(copy)
  /\ disk[orig][1] = disk[copy][1]
  /\ disk[copy][2] = "part" \/ disk[orig][2] = "whole"

-----------------------------------------------------------------------------
(***************************************************************************)
(* fsx.Move(src, dst): ensureAbsent, a rename, and across filesystems a    *)
(* copy followed by the removal of the source.  Its caller starts it and   *)
(* acts on "done", "failed" (nothing moved) or "copyleft" (ErrCopyLeft).   *)
(***************************************************************************)
StartMove(src, dst) == mv' = [at |-> "ready", src |-> src, dst |-> dst, data |-> NoFile]

MoveRefused ==
  /\ mv.at = "ready"
  /\ Here(mv.dst)
  /\ mv' = [mv EXCEPT !.at = "failed"]
  /\ UNCHANGED <<disk, row, other, gone>>

MoveChecked ==
  /\ mv.at = "ready"
  /\ ~Here(mv.dst)
  /\ mv' = [mv EXCEPT !.at = "checked"]
  /\ UNCHANGED <<disk, row, other, gone>>

\* The folder cannot be made, the source is gone, or the rename is refused.
MoveFails ==
  /\ mv.at = "checked"
  /\ IOFaults \/ ~Here(mv.src)
  /\ mv' = [mv EXCEPT !.at = "failed"]
  /\ UNCHANGED <<disk, row, other, gone>>

\* os.Rename replaces whatever stands at the destination by now.
MoveRename ==
  /\ mv.at = "checked"
  /\ Here(mv.src)
  /\ disk' = [disk EXCEPT ![mv.dst] = disk[mv.src], ![mv.src] = NoFile]
  /\ mv' = [mv EXCEPT !.at = "done"]
  /\ UNCHANGED <<row, other, gone>>

\* copyContents opens the destination with O_EXCL, so it never clobbers.
CopyStarts ==
  /\ mv.at = "checked"
  /\ Here(mv.src)
  /\ IF Here(mv.dst)
     THEN mv' = [mv EXCEPT !.at = "failed"] /\ UNCHANGED disk
     ELSE /\ mv' = [mv EXCEPT !.at = "copying", !.data = disk[mv.src]]
          /\ disk' = [disk EXCEPT ![mv.dst] = Part(disk[mv.src][1])]
  /\ UNCHANGED <<row, other, gone>>

CopyEnds ==
  /\ mv.at = "copying"
  /\ disk' = [disk EXCEPT ![mv.dst] = mv.data]
  /\ mv' = [mv EXCEPT !.at = "copied"]
  /\ UNCHANGED <<row, other, gone>>

\* The part that was copied is removed too, if it can be.
CopyFails ==
  /\ IOFaults
  /\ mv.at = "copying"
  /\ disk' = [disk EXCEPT ![mv.dst] = NoFile] \/ UNCHANGED disk
  /\ mv' = [mv EXCEPT !.at = "failed"]
  /\ UNCHANGED <<row, other, gone>>

\* copyThenRemove: a source already gone is a move made.
SourceRemoved ==
  /\ mv.at = "copied"
  /\ disk' = [disk EXCEPT ![mv.src] = NoFile]
  /\ mv' = [mv EXCEPT !.at = "done"]
  /\ UNCHANGED <<row, other, gone>>

SourceStays ==
  /\ IOFaults
  /\ mv.at = "copied"
  /\ Here(mv.src)
  /\ mv' = [mv EXCEPT !.at = "stuck"]
  /\ UNCHANGED <<disk, row, other, gone>>

CopyDropped ==
  /\ mv.at = "stuck"
  /\ disk' = [disk EXCEPT ![mv.dst] = NoFile]
  /\ mv' = [mv EXCEPT !.at = "failed"]
  /\ UNCHANGED <<row, other, gone>>

CopyLeft ==
  /\ mv.at = "stuck"
  /\ mv' = [mv EXCEPT !.at = "copyleft"]
  /\ UNCHANGED <<disk, row, other, gone>>

MoveStep ==
  \/ MoveRefused \/ MoveChecked \/ MoveFails \/ MoveRename \/ CopyStarts \/ CopyEnds
  \/ CopyFails \/ SourceRemoved \/ SourceStays \/ CopyDropped \/ CopyLeft

-----------------------------------------------------------------------------
(***************************************************************************)
(* The user, on library paths.  While a move runs he leaves its two places *)
(* alone, except that he may delete the source of a copy in progress and,  *)
(* with UserRaces, put a file at the destination.                          *)
(***************************************************************************)
Untouched(p) == mv.at \in {"none", "done", "failed", "copyleft"} \/ p \notin {mv.src, mv.dst}

\* The files whose last whole copy goes with what is at p.
LastCopies(p) == {f \in File : disk[p] = Whole(f) /\ \A q \in Place \ {p} : disk[q] # Whole(f)}

UserRemoves(p) ==
  /\ UserActs
  /\ p \in Path /\ Here(p)
  /\ Untouched(p) \/ (p = mv.src /\ mv.at \in {"copying", "copied"})
  /\ disk' = [disk EXCEPT ![p] = NoFile]
  /\ gone' = gone \cup LastCopies(p)
  /\ UNCHANGED <<row, other, mv>>

UserMoves(p, q) ==
  /\ UserActs
  /\ {p, q} \subseteq Path /\ Here(p) /\ ~Here(q)
  /\ Untouched(p) /\ (Untouched(q) \/ (UserRaces /\ q = mv.dst))
  /\ disk' = [disk EXCEPT ![q] = disk[p], ![p] = NoFile]
  /\ UNCHANGED <<row, other, mv, gone>>

\* A stranded file is copied back out of the trash by hand.
UserCopies(s, q) ==
  /\ UserActs
  /\ s \in Slot /\ q \in Path /\ Here(s) /\ ~Here(q)
  /\ Untouched(s) /\ Untouched(q)
  /\ disk' = [disk EXCEPT ![q] = disk[s]]
  /\ UNCHANGED <<row, other, mv, gone>>

UserStep ==
  \/ \E p \in Path : UserRemoves(p)
  \/ \E p, q \in Path : UserMoves(p, q)
  \/ \E s \in Slot, q \in Path : UserCopies(s, q)

-----------------------------------------------------------------------------
(***************************************************************************)
(* resolveFile, for the file a scan meets at p: the row at the path stays, *)
(* else the row of the same audio gone from its path moves here, else the  *)
(* file gets a row.  The rows of second and cut-off copies are kept only   *)
(* as the paths they hold.                                                 *)
(***************************************************************************)
Relinks(p) == LET f == disk[p][1] IN
  /\ disk[p] = Whole(f)
  /\ row[f] = NoPath \/ ~Here(row[f])

ScanPath(p) ==
  \/ /\ ~Here(p) \/ RowAt(p) # {} \/ p \in other
     /\ UNCHANGED <<row, other>>
  \/ /\ Here(p) /\ RowAt(p) = {} /\ p \notin other
     /\ IF Relinks(p) THEN row' = [row EXCEPT ![disk[p][1]] = p] /\ UNCHANGED other
                      ELSE other' = other \cup {p} /\ UNCHANGED row
=============================================================================
