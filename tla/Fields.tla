------------------------------- MODULE Fields -------------------------------
(***************************************************************************)
(* One field of one item: its value in the catalog, the provenance rows    *)
(* that say who set it and whether it is locked, the tag each of the       *)
(* item's files carries for it, and what the catalog still owes the files. *)
(*                                                                         *)
(* Three kinds of field behave differently.  "composer" has two spellings  *)
(* with a row each, the column and the credit; enrichment fills it.        *)
(* "title" falls back to the file's name when the tags are silent.  "mood" *)
(* is a custom tag.  A behaviour is about one of them, since fields of     *)
(* different columns share no row.  The files' write-backs run after the   *)
(* edit's transaction and hold no lease.                                   *)
(***************************************************************************)
EXTENDS Integers, FiniteSets, FiniteSetsExt

CONSTANTS
  Copy,       \* the item's files
  Main,       \* the one that is its primary file
  Text,       \* values other than "not stated", the file's name and SQL's NULL
  Editor,     \* callers whose edits are written back, none of them enrichment
  MaxStamp,   \* bound: catalog writes that stamp a row, and retags
  MaxRetags   \* bound: files retagged by other programs

ASSUME FieldsAssumption ==
  /\ IsFiniteSet(Copy) /\ Main \in Copy /\ IsFiniteSet(Text) /\ IsFiniteSet(Editor)
  /\ {"", "stem", "null"} \cap Text = {} /\ "enrich" \notin Editor
  /\ MaxStamp \in Nat /\ MaxRetags \in Nat

VARIABLES
  field,     \* the field this behaviour is about
  column,    \* its value in the catalog
  row,       \* spelling -> its field_provenance row
  credited,  \* the composer the item's contributor rows name, "" for none
  owed,      \* tag_write_owed diagnostics: (file, spelling)
  tag,       \* file -> what its tags say, "" for nothing
  settled,   \* file -> enrich_settled_at
  lost,      \* files with a tag_write_lost diagnostic of enrichment's
  back,      \* caller -> its write-back
  stamp,     \* the clock of updated_at
  retags,    \* retags left
  strayed,   \* history: files given a value other than the catalog's, or stamped without one
             \* that nothing notes as lost, and not read since by a scan that met neither a
             \* lock nor a write-back of theirs half-way
  overtaken  \* history: (caller, file) of a write-back since whose start the catalog's value
             \* changed, or since whose write of the file another hand wrote it

fieldVars == <<field, column, row, credited, owed, tag, settled, lost, back, stamp, retags, strayed, overtaken>>
fileSide == <<tag, retags, strayed>>
enrichSide == <<settled, lost>>

Enricher == "enrich"
Writers == Editor \cup {Enricher}
Spellings == CASE field = "composer" -> {"composer", "credit.composer"}
               [] OTHER -> {field}
Twin(k) == Spellings \ {k}
Value == Text \cup {""} \cup (IF field = "title" THEN {"stem"} ELSE {})
Null == "null"
NoRow == [src |-> "none", locked |-> FALSE, value |-> Null, at |-> 0]
Idle == [step |-> "idle", value |-> "", keys |-> {}, left |-> {}, file |-> Main, upTo |-> 0]
Filled(k) == row[k].src = "enrichment"

\* A lock taken through the credit that the column does not know of.
LockedByColumn == row[field].locked

\* fieldLockedTx, lockedFieldSetTx: a lock on either spelling holds the column.
FieldLocked == \E k \in Spellings : row[k].locked

\* What a scan reads for the field: a silent file's title is its name.
Derived(f) == field = "title" /\ tag[f] = ""
Scanned(f) == IF Derived(f) THEN "stem" ELSE tag[f]

FieldsInit ==
  /\ field \in {"composer", "title", "mood"}
  /\ \E v \in Text : tag = [f \in Copy |-> v] \/ tag = [f \in Copy |-> ""]
  /\ column = IF field = "title" /\ tag[Main] = "" THEN "stem" ELSE tag[Main]
  /\ row = [k \in Spellings |-> NoRow]
  /\ credited = ""
  /\ owed = {} /\ settled = [f \in Copy |-> 0] /\ lost = {}
  /\ back = [w \in Writers |-> Idle]
  /\ stamp = 0 /\ retags = MaxRetags /\ strayed = {} /\ overtaken = {}

Stamps == /\ stamp < MaxStamp
          /\ stamp' = stamp + 1

-----------------------------------------------------------------------------
\* updated_at is read of enrichment's rows alone, so no other row keeps it.
StampOf(src) == IF src = "enrichment" THEN stamp + 1 ELSE 0

\* A row whose lock is taken or let go is written again.
Relocked(r, l) == [src |-> r.src, locked |-> l, value |-> r.value, at |-> StampOf(r.src)]

\* upsertEditProvenanceTx
Attribute(r, k, src, v, lock) ==
  [r EXCEPT ![k] = [src |-> src, value |-> v, at |-> StampOf(src),
                    locked |-> IF lock = "unchanged" THEN r[k].locked ELSE lock = "on"]]

\* An edit through one spelling that leaves the other's row as it was.
SupersedeKeeps(r, k, v, lock) == r

\* supersedeTwinTx: the other spelling keeps its row when it names the new value, and is
\* dropped when it does not; a lock it held moves to the spelling just written.
SupersedeTwin(r, k, v, lock) ==
  [q \in DOMAIN r |->
     CASE q # k /\ r[q].src # "none" /\ r[q].value = v ->
            IF r[q].locked /\ lock = "off" THEN Relocked(r[q], FALSE) ELSE r[q]
       [] q # k /\ r[q].value # v -> NoRow
       [] q = k /\ lock = "unchanged" /\ (\E t \in Twin(k) : r[t].locked /\ r[t].value # v) -> Relocked(r[q], TRUE)
       [] OTHER -> r[q]]

\* The contributor rows after the same step: a composer edit that contradicts the credit's
\* row drops them.
CreditsAfter(k, v) ==
  IF k = "credit.composer" THEN v
  ELSE IF \E t \in Twin(k) : row[t].src # "none" /\ row[t].value # v THEN ""
  ELSE credited

\* applyItemEditTx, applyItemCreditsTx: the value, its row, and the twin.
ApplyItemEdit(k, src, v, lock) ==
  /\ column' = v
  /\ row' = SupersedeTwin(Attribute(row, k, src, v, lock), k, v, lock)
  /\ credited' = CreditsAfter(k, v)

\* noteOwedEntryTx, noteOwedCreditTx: what the edit changed is owed to every file.
NoteOwed(k, v) ==
  owed' = IF column # v \/ (k = "credit.composer" /\ credited # v) THEN owed \cup (Copy \X {k}) ELSE owed

\* A write-back that begins: it holds the edit's own value.
Begin(k, v) == [step |-> "next", value |-> v, keys |-> {k}, left |-> Copy, file |-> Main, upTo |-> 0]

\* EditFields, SetCredits: refused on a locked field unless forced.
EditField(w, k, v, lock, force, writeBack) ==
  /\ back[w] = Idle /\ field # "mood"
  /\ force \/ ~FieldLocked
  /\ Stamps
  /\ ApplyItemEdit(k, "user", v, lock)
  /\ NoteOwed(k, v)
  /\ back' = IF writeBack THEN [back EXCEPT ![w] = Begin(k, v)] ELSE back
  /\ UNCHANGED <<field, fileSide, enrichSide>>

\* SetItemTags: clearing the tag takes its row, lock and all.
SetItemTags(w, v, lock, force, writeBack) ==
  /\ back[w] = Idle /\ field = "mood"
  /\ force \/ ~FieldLocked
  /\ Stamps
  /\ column' = v
  /\ row' = IF v = "" THEN [k \in Spellings |-> NoRow] ELSE Attribute(row, field, "user", v, lock)
  /\ NoteOwed(field, v)
  /\ back' = IF writeBack THEN [back EXCEPT ![w] = Begin(field, v)] ELSE back
  /\ UNCHANGED <<field, credited, fileSide, enrichSide>>

\* LockField: a row that only locks, when there is none.
LockField(k) ==
  /\ ~FieldLocked
  /\ Stamps
  /\ row' = [row EXCEPT ![k] = IF row[k].src = "none" THEN [src |-> "tag", locked |-> TRUE, value |-> Null, at |-> 0]
                               ELSE Relocked(row[k], TRUE)]
  /\ UNCHANGED <<field, column, credited, owed, back, fileSide, enrichSide>>

\* UnlockField, dropUnlockedRowTx: every spelling, and a row that said nothing else goes.
UnlockField ==
  /\ FieldLocked
  /\ Stamps
  /\ row' = [k \in Spellings |->
       LET r == IF row[k].locked THEN Relocked(row[k], FALSE) ELSE row[k] IN
       IF r.src = "tag" /\ r.value \in {Null, ""} THEN NoRow ELSE r]
  /\ UNCHANGED <<field, column, credited, owed, back, fileSide, enrichSide>>

\* ApplyItemFields, acceptedItemFieldsTx: enrichment fills what is empty and not locked, and
\* records nothing as owed: file.enrich_settled_at tells what it owes.
Fill(v) ==
  /\ field = "composer" /\ column = "" /\ ~FieldLocked /\ v # ""
  /\ Stamps
  /\ ApplyItemEdit("composer", "enrichment", v, "unchanged")
  /\ UNCHANGED <<field, owed, back, fileSide, enrichSide>>

-----------------------------------------------------------------------------
\* partitionStoredRows and rowReproduces
Fills(preserve) == {k \in Spellings : Filled(k) /\ ~(row[k].locked /\ preserve)}
Holds == \A k \in Spellings : row[k].src = "none" \/ (Filled(k) /\ row[k].value = column)
Reproduces(k, v) == row[k].value = v /\ ~(k = "credit.composer" /\ v = "")

\* overlayStoredTrackTx: a locked value stands, and so does a fill over a silent file.
Carried(f, preserve) ==
  IF Holds /\ (tag[f] = "" \/ Derived(f)) THEN Fills(preserve) ELSE {}
Overlaid(f, preserve) ==
  IF (preserve /\ FieldLocked) \/ Carried(f, preserve) # {} THEN column ELSE Scanned(f)

\* reopenLostFillsTx left out
ReopenedNever(f, preserve) == settled

\* reopenLostFillsTx: a fill the file turns out not to carry is owed to it again.
Reopened(f, preserve) ==
  LET at == {row[k].at : k \in {c \in Carried(f, preserve) : Filled(c) /\ ~row[c].locked}} IN
  IF at # {} /\ f \notin lost /\ settled[f] >= Min(at) THEN [settled EXCEPT ![f] = 0] ELSE settled

\* rederivedFields: the scan changed the column, or a row it may retire tells another value.
Rederived(v, preserve) ==
  \/ column # v
  \/ \E k \in Spellings : /\ row[k].src \notin {"none", "tag"} /\ row[k].value # Null
                          /\ ~(row[k].locked /\ preserve) /\ ~Reproduces(k, v)

\* retireProvenanceTx
Retired(preserve) ==
  [k \in Spellings |->
     CASE ~row[k].locked -> NoRow
       [] row[k].locked /\ ~preserve /\ row[k].src # "tag" ->
            [src |-> "tag", locked |-> TRUE, value |-> Null, at |-> 0]
       [] OTHER -> row[k]]
RetiredFill(preserve) == \E k \in Spellings : Filled(k) /\ (~row[k].locked \/ ~preserve)

\* settleRederivedTx's contributor rows
CreditsRetired(preserve) ==
  IF /\ field = "composer" /\ row["credit.composer"].src \notin {"none", "tag"}
     /\ row["credit.composer"].value # Null /\ ~(row["credit.composer"].locked /\ preserve)
  THEN "" ELSE credited

\* settleOwedByScanTx comparing values only
PaidByValue(f, v, preserve) ==
  {<<f, k>> : k \in {q \in Spellings : Scanned(f) = v}}

\* settleOwedByScanTx: paid once the file says what the catalog holds; a locked value that
\* only the file's name reproduces is still owed.
PaidByScan(f, v, preserve) ==
  {<<f, k>> : k \in {q \in Spellings : Scanned(f) = v /\ ~(Derived(f) /\ preserve /\ FieldLocked)}}

\* dropMootEnrichmentDriftTx, on the rows and stamps the put leaves
DropMootDrift(f, preserve) ==
  lost' = IF /\ RetiredFill(preserve)
             /\ ~\E k \in Spellings : row'[k].src = "enrichment" /\ ~row'[k].locked /\ row'[k].at > settled'[f]
          THEN lost \ {f} ELSE lost

\* syncItemTagsTx: a fill has no source for a custom tag here, so only a lock holds.  The put
\* that takes the file's values pays every file.
PutCustomTag(f, preserve) ==
  LET v == IF preserve /\ FieldLocked THEN column ELSE tag[f] IN
  /\ column' = v
  /\ row' = IF ~(FieldLocked /\ preserve) /\ row[field].src \notin {"none", "tag"} /\ row[field].value # v
            THEN Retired(preserve) ELSE row
  /\ owed' = IF column # v THEN {} ELSE owed \ PaidByScan(f, v, preserve)
  /\ UNCHANGED <<credited, settled, lost>>

\* PutScannedTrack of the primary file for a field of the track or the item.
PutField(f, preserve) ==
  LET v == Overlaid(f, preserve)
      again == Rederived(v, preserve) IN
  /\ column' = v
  /\ row' = IF again THEN Retired(preserve) ELSE row
  /\ credited' = IF again THEN CreditsRetired(preserve) ELSE credited
  /\ settled' = Reopened(f, preserve)
  /\ owed' = owed \ PaidByScan(f, v, preserve)
  /\ IF again THEN DropMootDrift(f, preserve) ELSE UNCHANGED lost

\* attachCopyTx: another copy of the item re-derives nothing.
PutCopy(f, preserve) ==
  /\ owed' = owed \ PaidByScan(f, column, preserve)
  /\ settled' = Reopened(f, preserve)
  /\ UNCHANGED <<column, row, credited, lost>>

\* A scan that reads a file's tags, with or without --ignore-locks.
ScanFileTags(f, preserve) ==
  /\ preserve \/ stamp < MaxStamp
  /\ stamp' = IF preserve THEN stamp ELSE stamp + 1
  /\ \/ f = Main /\ field = "mood" /\ PutCustomTag(f, preserve)
     \/ f = Main /\ field # "mood" /\ PutField(f, preserve)
     \/ f # Main /\ PutCopy(f, preserve)
  /\ strayed' = IF FieldLocked \/ \E w \in Writers : back[w].file = f /\ back[w].step \notin {"idle", "next"}
                THEN strayed ELSE strayed \ {f}
  /\ UNCHANGED <<field, tag, retags, back>>

-----------------------------------------------------------------------------
\* writeEnrichmentTags, EnrichmentWriteback: what enrichment holds for the files whose stamp
\* is older than its newest row, read before the first file is written.
StartEnrichWrite ==
  LET held == {k \in Spellings : Filled(k) /\ ~row[k].locked}
      newest == Max({row[k].at : k \in held}) IN
  /\ back[Enricher] = Idle
  /\ held # {} /\ \E f \in Copy : newest > settled[f]
  /\ back' = [back EXCEPT ![Enricher] =
       [step |-> "next", value |-> column, keys |-> held \cap {"composer"},
        left |-> {f \in Copy : newest > settled[f]}, file |-> Main, upTo |-> newest]]
  /\ UNCHANGED <<field, column, row, credited, owed, stamp, fileSide, enrichSide>>

\* The files are written in the item's order, the primary first.
NextFile(w, f) ==
  /\ back[w].step = "next" /\ f \in back[w].left
  /\ Main \in back[w].left => f = Main

\* The write-back at another step, with the file it is at and those it has left.
Goes(w, step, f, rest) ==
  back' = [back EXCEPT ![w] = [step |-> step, value |-> back[w].value, keys |-> back[w].keys,
                               left |-> rest, file |-> f, upTo |-> back[w].upTo]]

\* The writer lands the value in one file.
WriteTag(w, f) ==
  /\ NextFile(w, f)
  /\ Goes(w, "written", f, back[w].left \ {f})
  /\ tag' = [tag EXCEPT ![f] = back[w].value]
  /\ strayed' = IF back[w].value = column THEN strayed \ {f} ELSE strayed \cup {f}
  /\ UNCHANGED <<field, column, row, credited, owed, retags, stamp, enrichSide>>

\* The write lands without the value, which the format cannot hold, or the file refuses the
\* key for good: what the file says of it stays.
WriteLosesValue(w, f) ==
  /\ NextFile(w, f)
  /\ Goes(w, "lossy", f, back[w].left \ {f})
  /\ UNCHANGED <<field, column, row, credited, owed, stamp, fileSide, enrichSide>>

\* The writer fails: an edit's stays owed; enrichment's is dropped for good when the file
\* cannot be written in its form, and tried again by the next pass otherwise.
WriteFails(w, f, unsupported) ==
  /\ NextFile(w, f)
  /\ unsupported => w = Enricher
  /\ IF unsupported THEN Goes(w, "loss", f, back[w].left \ {f})
     ELSE Goes(w, "next", back[w].file, back[w].left \ {f})
  /\ UNCHANGED <<field, column, row, credited, owed, stamp, fileSide, enrichSide>>

\* What a landed write pays, taken from every file of the item.
PaidToAll(w) == Copy \X (back[w].keys \cup UNION {Twin(k) : k \in back[w].keys})

\* What a landed write pays: the fields it carried, in both spellings, to its file.
PaidByWrite(w) == {back[w].file} \X (back[w].keys \cup UNION {Twin(k) : k \in back[w].keys})

\* SettleTagWriteOwed: a transaction of its own after the write, whose failure is logged.
\* A value that was lost is owed no more either.
SettleTagWriteOwed(w, fails) ==
  /\ back[w].step \in {"written", "lossy"}
  /\ owed' = IF fails THEN owed ELSE owed \ PaidByWrite(w)
  /\ IF w # Enricher THEN Goes(w, "next", Main, back[w].left)
     ELSE Goes(w, IF back[w].step = "written" THEN "note" ELSE "loss", back[w].file, back[w].left)
  /\ UNCHANGED <<field, column, row, credited, stamp, fileSide, enrichSide>>

\* Enrichment notes on the file what it lost there, or that nothing is: a failure is logged
\* and the file stamped all the same.
NoteLoss(fails) ==
  LET f == back[Enricher].file IN
  /\ back[Enricher].step = "loss"
  /\ lost' = IF fails THEN lost ELSE lost \cup {f}
  /\ strayed' = IF fails THEN strayed \cup {f} ELSE strayed
  /\ Goes(Enricher, "stamp", f, back[Enricher].left)
  /\ UNCHANGED <<field, column, row, credited, owed, stamp, tag, retags, settled>>

NoteLanded(fails) ==
  LET f == back[Enricher].file IN
  /\ back[Enricher].step = "note"
  /\ lost' = IF fails THEN lost ELSE lost \ {f}
  /\ Goes(Enricher, "stamp", f, back[Enricher].left)
  /\ UNCHANGED <<field, column, row, credited, owed, stamp, fileSide, settled>>

\* SettleEnrichmentWrite: stamped with the newest row that was read, never with the clock.
\* A file it fails to stamp is written again.
SettleEnrichmentWrite(fails) ==
  LET f == back[Enricher].file IN
  /\ back[Enricher].step = "stamp"
  /\ settled' = IF fails THEN settled ELSE [settled EXCEPT ![f] = Max({settled[f], back[Enricher].upTo})]
  /\ Goes(Enricher, "next", Main, back[Enricher].left)
  /\ UNCHANGED <<field, column, row, credited, owed, stamp, fileSide, lost>>

\* Every file was tried, or the process was stopped in between.
WriteBackEnds(w) ==
  /\ back[w] # Idle
  /\ back' = [back EXCEPT ![w] = Idle]
  /\ UNCHANGED <<field, column, row, credited, owed, stamp, fileSide, enrichSide>>

\* Another program retags a file (external).
Retag(f, v) ==
  /\ retags > 0 /\ v # tag[f]
  /\ Stamps
  /\ retags' = retags - 1
  /\ tag' = [tag EXCEPT ![f] = v]
  /\ strayed' = strayed \cup {f}
  /\ UNCHANGED <<field, column, row, credited, owed, back, enrichSide>>

\* The step overtakes the caller's write-back of the file, or one before it did.
Overtaken(w, f) ==
  /\ back'[w].step # "idle"
  /\ \/ <<w, f>> \in overtaken
     \/ back[w].step # "idle" /\ column' # column
     \/ back[w].step \notin {"idle", "next"} /\ back[w].file = f /\ tag'[f] # tag[f]
Overtakes == overtaken' = {p \in Writers \X Copy : Overtaken(p[1], p[2])}

FieldsStep ==
  \/ \E w \in Editor, k \in Spellings, v \in Value, l \in {"on", "off", "unchanged"}, force, wb \in BOOLEAN :
       EditField(w, k, v, l, force, wb)
  \/ \E w \in Editor, v \in Value, l \in {"on", "off", "unchanged"}, force, wb \in BOOLEAN :
       SetItemTags(w, v, l, force, wb)
  \/ \E k \in Spellings : LockField(k)
  \/ UnlockField
  \/ \E v \in Text : Fill(v)
  \/ \E f \in Copy, preserve \in BOOLEAN : ScanFileTags(f, preserve)
  \/ StartEnrichWrite
  \/ \E w \in Writers, f \in Copy : WriteTag(w, f) \/ WriteLosesValue(w, f)
  \/ \E w \in Writers, f \in Copy, u \in BOOLEAN : WriteFails(w, f, u)
  \/ \E w \in Writers, fails \in BOOLEAN : SettleTagWriteOwed(w, fails)
  \/ \E fails \in BOOLEAN : NoteLoss(fails) \/ NoteLanded(fails) \/ SettleEnrichmentWrite(fails)
  \/ \E w \in Writers : WriteBackEnds(w)
  \/ \E f \in Copy, v \in Text \cup {""} : Retag(f, v)

FieldsNext == FieldsStep /\ Overtakes

FieldsSpec == FieldsInit /\ [][FieldsNext]_fieldVars

-----------------------------------------------------------------------------
\* A provenance row that records a value tells the catalog's value: an edit through one
\* spelling, a fill, a scan or a scan that ignores locks never leaves a row that attributes
\* a value the item no longer has (upsertEditProvenanceTx, supersedeTwinTx, retireProvenanceTx).
RowsTell ==
  /\ \A k \in Spellings : row[k].value # Null => row[k].value = column
  /\ credited \in {"", column}

\* A locked value stands, and so does its lock: only an edit that forces it, an unlock or a
\* scan told to ignore locks changes either, whichever spelling the lock was taken through.
LockHolds ==
      (\E k \in Spellings : row[k].locked) /\ (column' # column \/ ~\E k \in Spellings : row'[k].locked) =>
        \/ \E w \in Editor, k \in Spellings, v \in Value, l \in {"on", "off", "unchanged"}, wb \in BOOLEAN :
             /\ EditField(w, k, v, l, TRUE, wb)
             /\ l = "off" \/ \E q \in Spellings : row'[q].locked
        \/ \E w \in Editor, v \in Value, l \in {"on", "off", "unchanged"}, wb \in BOOLEAN :
             SetItemTags(w, v, l, TRUE, wb)
        \/ UnlockField
        \/ \E f \in Copy : ScanFileTags(f, FALSE) /\ \E k \in Spellings : row'[k].locked

\* An owed row goes when the file has the value, when a scan found the file's own reading of
\* the field in the catalog and no lock in its way, or when the edit it was about is gone.
\* A write-back takes one from a file without the value only where the file could not hold
\* it, which the caller is told, or where it was overtaken: by a change of the catalog's
\* value since it began, or by another write of that file since its own.
OwedPaid ==
      \A p \in owed \ owed' :
        \/ tag[p[1]] = column'
        \/ Scanned(p[1]) = column' /\ (~FieldLocked \/ ScanFileTags(p[1], FALSE))
        \/ \A k \in Spellings : row'[k].src # "user"
        \/ \E w \in Writers : /\ SettleTagWriteOwed(w, FALSE) /\ p[1] = back[w].file
                              /\ back[w].step = "lossy" \/ <<w, p[1]>> \in overtaken

\* A fill that no curation joined and that the stamp says is written stands in the primary
\* file's tags, or the file is known not to take it; otherwise another hand wrote the file,
\* or the note that it cannot take it failed, and no scan has read the file since.
FillsLand ==
  \A k \in Spellings :
    (Filled(k) /\ Holds /\ ~FieldLocked /\ row[k].at <= settled[Main] /\ Main \notin lost /\ Main \notin strayed)
      => tag[Main] = column

\* A provenance row tells the catalog's value, and a fill the stamp says is
\* written stands in the file (provenance.go, tagwrite.go).
FieldsTold == RowsTell /\ FillsLand

\* A locked value stands until somebody forces it, and an edit owed to a file is
\* owed until it is there or was overtaken (scanlocks.go, tagwrite.go).
CurationKept == [][LockHolds /\ OwedPaid]_fieldVars
=============================================================================
