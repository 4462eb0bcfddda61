---------------------------- MODULE MetadataProofs ----------------------------
(***************************************************************************)
(* Theorems of what is known about the music and the books: first of       *)
(* Fields, for any files, values and editors, then of Enrich, for any      *)
(* rows, providers, ways to force a pass and hands, then of Origins, for   *)
(* any items, tags, events and operators.                                  *)
(***************************************************************************)
EXTENDS Fields, Enrich, Origins, FiniteSetTheorems, SequenceTheorems, TLAPS

AnyValue == Text \cup {"", "stem"}
Rows == [src : {"none", "tag", "user", "enrichment"}, locked : BOOLEAN, value : AnyValue \cup {Null}, at : Nat]
Steps == {"idle", "next", "written", "lossy", "note", "loss", "stamp"}
WriteBacks == [step : Steps, value : AnyValue, keys : SUBSET {"composer", "credit.composer", "title", "mood"},
               left : SUBSET Copy, file : Copy, upTo : Nat]

FieldsTypeOK ==
  /\ field \in {"composer", "title", "mood"} /\ {column, credited} \subseteq AnyValue
  /\ row \in [Spellings -> Rows] /\ tag \in [Copy -> AnyValue] /\ settled \in [Copy -> Nat]
  /\ back \in [Writers -> WriteBacks] /\ stamp \in Nat

\* A row of the user or of enrichment records a value, another row none; enrichment's is
\* the column's.
RowsShape ==
  \A k \in Spellings : /\ row[k].src \in {"none", "tag"} <=> row[k].value = Null
                       /\ Filled(k) => k = "composer" /\ row[k].at \in 1..stamp

\* The contributor rows name what the credit's row tells.
CreditTold == credited # "" => field = "composer" /\ row["credit.composer"].value = credited

\* No stamp is ahead of the clock.
StampsBehind == back[Enricher].upTo <= stamp /\ \A f \in Copy : settled[f] <= stamp

\* A fill the stamp says is written stands in the primary file, whatever its twin's row says.
Standing == row["composer"].src = "enrichment" /\ ~row["composer"].locked
FillStands ==
  field = "composer" /\ Standing /\ row["composer"].at <= settled[Main] /\ Main \notin lost \cup strayed
    => tag[Main] = column

\* The write-back that is about to stamp the primary file has written the fill there, or
\* noted that it is lost.
FillWritten ==
  field = "composer" /\ Standing /\ back[Enricher].file = Main
    /\ row["composer"].at <= back[Enricher].upTo /\ Main \notin strayed
    => /\ back[Enricher].step \in {"written", "note"} => tag[Main] = column
       /\ back[Enricher].step = "stamp" => tag[Main] = column \/ Main \in lost

\* A fill that is stamped is none the write-back under way has not read.
NoneSkipped ==
  field = "composer" /\ Standing /\ back[Enricher].step # "idle" /\ row["composer"].at <= settled[Main]
    => row["composer"].at <= back[Enricher].upTo

FieldsInv == FieldsTypeOK /\ RowsShape /\ RowsTell /\ CreditTold /\ StampsBehind /\ FillStands /\ FillWritten /\ NoneSkipped
-----------------------------------------------------------------------------
\* The spellings of a field.
LEMMA SpellingFacts ==
  ASSUME field \in {"composer", "title", "mood"}
  PROVE  /\ field = "composer" => Spellings = {"composer", "credit.composer"}
         /\ field # "composer" => Spellings = {field}
         /\ Spellings \subseteq {"composer", "credit.composer", "title", "mood"}
         /\ field \in Spellings
BY DEF Spellings

\* The least and the greatest of one number, and the greater of two.
LEMMA MinMaxFacts ==
  /\ \A a \in Int : Min({a}) = a /\ Max({a}) = a
  /\ \A a, b \in Int : Max({a, b}) \in {a, b} /\ Max({a, b}) >= a /\ Max({a, b}) >= b
<1>1. ASSUME NEW a \in Int  PROVE Min({a}) = a /\ Max({a}) = a  BY DEF Min, Max
<1>2. ASSUME NEW a \in Int, NEW b \in Int  PROVE Max({a, b}) \in {a, b} /\ Max({a, b}) >= a /\ Max({a, b}) >= b
  <2>1. \E x \in {a, b} : \A y \in {a, b} : x >= y  BY <1>2
  <2> QED  BY <2>1 DEF Max
<1> QED  BY <1>1, <1>2

\* What never meets another name: values, rows and the two writers.
LEMMA NameFacts ==
  /\ Null \notin AnyValue /\ Enricher \notin Editor /\ Enricher \in Writers /\ Editor \subseteq Writers
  /\ NoRow \in Rows /\ Idle \in WriteBacks /\ Value \subseteq AnyValue /\ Main \in Copy
BY FieldsAssumption DEF AnyValue, Null, Enricher, Writers, NoRow, Rows, Idle, WriteBacks, Steps, Value

\* Rows of this shape that tell the column's value.
RowsGood(r, col, cred, clock) ==
  /\ r \in [Spellings -> Rows] /\ col \in AnyValue /\ cred \in {"", col}
  /\ \A k \in Spellings : /\ r[k].src \in {"none", "tag"} <=> r[k].value = Null
                          /\ r[k].src = "enrichment" => k = "composer" /\ r[k].at \in 1..clock
                          /\ r[k].value # Null => r[k].value = col
  /\ cred # "" => field = "composer" /\ r["credit.composer"].value = cred

LEMMA RowsAreGood ==
  ASSUME FieldsInv
  PROVE  RowsGood(row, column, credited, stamp)
BY DEF FieldsInv, FieldsTypeOK, RowsShape, RowsTell, CreditTold, RowsGood, Filled

\* The fill of the new rows was there before, or is newer than every stamp.
FillOldOrNew ==
  field = "composer" /\ Standing' => (Standing /\ row'["composer"].at = row["composer"].at /\ column' = column)
                                     \/ row'["composer"].at > stamp

\* A step of the catalog alone keeps what is known of the fill in the files.
LEMMA CatalogStep ==
  ASSUME FieldsInv, field' = field, UNCHANGED <<tag, retags, strayed, settled, lost>>,
         back'[Enricher] = back[Enricher], back' \in [Writers -> WriteBacks], stamp' \in Nat, stamp' >= stamp,
         RowsGood(row', column', credited', stamp'), FillOldOrNew
  PROVE  FieldsInv'
<1>0. Spellings' = Spellings  BY DEF Spellings
<1>1. FieldsTypeOK'
  <2>1. column' \in AnyValue /\ credited' \in AnyValue  BY DEF RowsGood, AnyValue
  <2>2. row' \in [Spellings' -> Rows]  BY <1>0 DEF RowsGood
  <2> QED  BY <2>1, <2>2 DEF FieldsInv, FieldsTypeOK
<1>2. RowsShape' /\ RowsTell' /\ CreditTold'
  BY DEF RowsGood, RowsShape, RowsTell, CreditTold, Filled, Spellings
<1>3. StampsBehind'  BY NameFacts DEF FieldsInv, FieldsTypeOK, StampsBehind, WriteBacks
<1>4. FillStands' /\ FillWritten' /\ NoneSkipped'
  <2> SUFFICES ASSUME field = "composer", Standing',
                      row'["composer"].at <= settled[Main] \/ row'["composer"].at <= back[Enricher].upTo
               PROVE  FillStands' /\ FillWritten' /\ NoneSkipped'
    BY DEF FillStands, FillWritten, NoneSkipped
  <2>1. row'["composer"].at \in Nat /\ settled[Main] <= stamp /\ back[Enricher].upTo <= stamp
        /\ settled[Main] \in Nat /\ back[Enricher].upTo \in Nat /\ stamp \in Nat
    BY <1>1, SpellingFacts, NameFacts DEF FieldsInv, FieldsTypeOK, StampsBehind, RowsGood, Rows, WriteBacks
  <2>2. Standing /\ row'["composer"].at = row["composer"].at /\ column' = column  BY <2>1 DEF FillOldOrNew
  <2> QED  BY <2>2 DEF FieldsInv, FillStands, FillWritten, NoneSkipped
<1> QED  BY <1>1, <1>2, <1>3, <1>4 DEF FieldsInv

\* upsertEditProvenanceTx and supersedeTwinTx: the spelling just written, and the other.
LEMMA EditedRows ==
  ASSUME FieldsInv, NEW k \in Spellings, NEW v \in AnyValue, NEW src \in {"user", "enrichment"},
         src = "enrichment" => k = "composer", NEW lock \in {"on", "off", "unchanged"},
         stamp' = stamp + 1, ApplyItemEdit(k, src, v, lock)
  PROVE  /\ RowsGood(row', column', credited', stamp') /\ FillOldOrNew /\ column' = v
         /\ lock = "on" => row'[k].locked
         /\ lock = "unchanged" /\ FieldLocked => \E q \in Spellings : row'[q].locked
<1>0. /\ field \in {"composer", "title", "mood"} /\ stamp \in Nat /\ row \in [Spellings -> Rows]
      /\ RowsGood(row, column, credited, stamp)
  BY RowsAreGood DEF FieldsInv, FieldsTypeOK
<1>n. v # Null /\ NoRow \in Rows /\ NoRow.src = "none" /\ NoRow.value = Null  BY NameFacts DEF NoRow
<1>r. /\ \A q \in Spellings : /\ row[q] \in Rows /\ row[q].locked \in BOOLEAN
                              /\ row[q].src \in {"none", "tag"} <=> row[q].value = Null
                              /\ row[q].src = "enrichment" => q = "composer" /\ row[q].at \in 1..stamp
                              /\ row[q].value # Null => row[q].value = column
      /\ credited \in {"", column}
      /\ credited # "" => field = "composer" /\ row["credit.composer"].value = credited /\ credited # Null
      /\ field = "composer" => {"composer", "credit.composer"} \subseteq Spellings
  <2>1. \A q \in Spellings : row[q] \in Rows /\ row[q].locked \in BOOLEAN  BY <1>0 DEF Rows
  <2>2. credited # Null  BY <1>0, NameFacts DEF FieldsInv, FieldsTypeOK
  <2> QED  BY <1>0, <2>1, <2>2, SpellingFacts DEF RowsGood
<1> DEFINE new == [src |-> src, value |-> v, at |-> StampOf(src),
                   locked |-> IF lock = "unchanged" THEN row[k].locked ELSE lock = "on"]
<1>1. Attribute(row, k, src, v, lock) = [row EXCEPT ![k] = new]  BY DEF Attribute
<1>2. new \in Rows /\ new.src = src /\ new.value = v /\ new.at = (IF src = "enrichment" THEN stamp + 1 ELSE 0)
      /\ (lock = "on" => new.locked) /\ (lock = "unchanged" => new.locked = row[k].locked)
  <2>1. new.locked \in BOOLEAN /\ (lock = "on" => new.locked) /\ (lock = "unchanged" => new.locked = row[k].locked)
    BY <1>r
  <2>2. new.src = src /\ new.value = v /\ new.at = StampOf(src)  OBVIOUS
  <2>3. StampOf(src) \in Nat /\ StampOf(src) = (IF src = "enrichment" THEN stamp + 1 ELSE 0)  BY <1>0 DEF StampOf
  <2>4. new = [src |-> new.src, value |-> new.value, at |-> new.at, locked |-> new.locked]  OBVIOUS
  <2> HIDE DEF new
  <2>5. new \in Rows  BY <2>1, <2>2, <2>3, <2>4 DEF Rows
  <2> QED  BY <2>1, <2>2, <2>3, <2>5
<1> HIDE DEF new
<1>3. PICK r \in [Spellings -> Rows] : r = Attribute(row, k, src, v, lock) /\ r[k] = new /\ \A q \in Spellings \ {k} : r[q] = row[q]
  BY <1>0, <1>1, <1>2
<1>4. /\ row' = SupersedeTwin(r, k, v, lock) /\ column' = v /\ credited' = CreditsAfter(k, v)  BY <1>3 DEF ApplyItemEdit
<1>5. \A x \in Rows, l \in BOOLEAN : Relocked(x, l) \in Rows /\ Relocked(x, l).src = x.src /\ Relocked(x, l).value = x.value
        /\ Relocked(x, l).locked = l /\ Relocked(x, l).at = (IF x.src = "enrichment" THEN stamp + 1 ELSE 0)
  BY <1>0 DEF Relocked, StampOf, Rows
<1>11. \A q \in Spellings : 
         /\ Relocked(row[q], FALSE) \in Rows /\ ~Relocked(row[q], FALSE).locked
         /\ Relocked(row[q], FALSE).src = row[q].src /\ Relocked(row[q], FALSE).value = row[q].value
         /\ Relocked(row[q], FALSE).at = (IF row[q].src = "enrichment" THEN stamp + 1 ELSE 0)
  <2> TAKE q \in Spellings
  <2>1. row[q] \in Rows  BY <1>r
  <2> QED  BY <1>5, <2>1
<1>6. \A q \in Spellings : q # k =>
        row'[q] = IF row[q].src # "none" /\ row[q].value = v
                  THEN IF row[q].locked /\ lock = "off" THEN Relocked(row[q], FALSE) ELSE row[q]
                  ELSE NoRow
  <2> SUFFICES ASSUME NEW q \in Spellings, q # k
               PROVE  row'[q] = IF row[q].src # "none" /\ row[q].value = v
                                THEN IF row[q].locked /\ lock = "off" THEN Relocked(row[q], FALSE) ELSE row[q]
                                ELSE NoRow
    OBVIOUS
  <2>1. row[q].src = "none" => row[q].value # v  BY <1>n, <1>r
  <2>2. r[q] = row[q] /\ q \in DOMAIN r  BY <1>3
  <2>3. row'[q] = CASE row[q].src # "none" /\ row[q].value = v ->
                         IF row[q].locked /\ lock = "off" THEN Relocked(row[q], FALSE) ELSE row[q]
                    [] row[q].value # v -> NoRow
                    [] OTHER -> row[q]
    BY <1>4, <2>2 DEF SupersedeTwin
  <2> QED  BY <2>1, <2>3
<1>7. row'[k] = IF lock = "unchanged" /\ (\E t \in Twin(k) : row[t].locked /\ row[t].value # v) THEN Relocked(new, TRUE) ELSE new
  BY <1>3, <1>4 DEF SupersedeTwin, Twin
<1>8. row'[k] \in Rows /\ row'[k].src = src /\ row'[k].value = v
      /\ row'[k].at = (IF src = "enrichment" THEN stamp + 1 ELSE 0) /\ (lock = "on" => row'[k].locked)
      /\ (lock = "unchanged" => (row'[k].locked <=> (row[k].locked \/ \E t \in Twin(k) : row[t].locked /\ row[t].value # v)))
  BY <1>2, <1>5, <1>7
<1>9. \A q \in Spellings : row'[q] \in Rows
  <2> TAKE q \in Spellings
  <2>1. CASE q = k  BY <1>8, <2>1
  <2>2. CASE q # k
    <3>1. row'[q] = Relocked(row[q], FALSE) \/ row'[q] = row[q] \/ row'[q] = NoRow  BY <1>6, <2>2
    <3>2. Relocked(row[q], FALSE) \in Rows  BY <1>11
    <3>3. row[q] \in Rows  BY <1>r
    <3> QED  BY <1>n, <3>1, <3>2, <3>3
  <2> QED  BY <2>1, <2>2
<1>10. row' \in [Spellings -> Rows]
  BY <1>3, <1>4, <1>9 DEF SupersedeTwin
<1>12. \A q \in Spellings : q # k =>
         /\ row'[q].value # Null => row[q].src # "none" /\ row[q].value = v /\ row'[q].value = v
         /\ row'[q].src = "enrichment" => row[q].src = "enrichment"
         /\ row'[q].src \in {"none", "tag"} <=> row'[q].value = Null
         /\ row'[q].src = "enrichment" =>
              row'[q].at = stamp + 1 \/ (row'[q].at = row[q].at /\ row'[q].locked = row[q].locked /\ row[q].value = v)
  <2> SUFFICES ASSUME NEW q \in Spellings, q # k
               PROVE  /\ row'[q].value # Null => row[q].src # "none" /\ row[q].value = v /\ row'[q].value = v
                      /\ row'[q].src = "enrichment" => row[q].src = "enrichment"
                      /\ row'[q].src \in {"none", "tag"} <=> row'[q].value = Null
                      /\ row'[q].src = "enrichment" =>
                           row'[q].at = stamp + 1 \/ (row'[q].at = row[q].at /\ row'[q].locked = row[q].locked /\ row[q].value = v)
    OBVIOUS
  <2>1. CASE row[q].src # "none" /\ row[q].value = v /\ row[q].locked /\ lock = "off"
    <3>1. row'[q] = Relocked(row[q], FALSE)  BY <1>6, <2>1
    <3>2. row'[q].src = row[q].src /\ row'[q].value = v  BY <1>11, <2>1, <3>1
    <3>3. row[q].src = "enrichment" => row'[q].at = stamp + 1  BY <1>11, <3>1
    <3> QED  BY <1>n, <1>r, <2>1, <3>2, <3>3
  <2>2. CASE row[q].src # "none" /\ row[q].value = v /\ ~(row[q].locked /\ lock = "off")
    BY <1>n, <1>r, <1>6, <2>2
  <2>3. CASE ~(row[q].src # "none" /\ row[q].value = v)  BY <1>n, <1>6, <2>3
  <2> QED  BY <2>1, <2>2, <2>3
<1>13. RowsGood(row', column', credited', stamp')
  <2>1. credited' \in {"", v}
    <3>1. CASE k = "credit.composer"  BY <1>4, <3>1 DEF CreditsAfter
    <3>2. CASE k # "credit.composer" /\ credited # ""
      <4>1. "credit.composer" \in Twin(k) /\ row["credit.composer"].value = credited /\ row["credit.composer"].src # "none"
        BY <1>r, <3>2 DEF Twin
      <4> QED  BY <1>4, <1>r, <3>2, <4>1 DEF CreditsAfter
    <3>3. CASE k # "credit.composer" /\ credited = ""  BY <1>4, <3>3 DEF CreditsAfter
    <3> QED  BY <3>1, <3>2, <3>3
  <2>2. credited' # "" => field = "composer" /\ row'["credit.composer"].value = credited'
    <3> SUFFICES ASSUME credited' # ""  PROVE field = "composer" /\ row'["credit.composer"].value = credited'  OBVIOUS
    <3>1. CASE k = "credit.composer"  BY <1>0, <1>4, <1>8, <3>1, SpellingFacts DEF CreditsAfter
    <3>2. CASE k # "credit.composer"
      <4>1. credited' = credited /\ ~\E t \in Twin(k) : row[t].src # "none" /\ row[t].value # v
        BY <1>4, <3>2 DEF CreditsAfter
      <4>2. /\ field = "composer" /\ "credit.composer" \in Spellings /\ "credit.composer" \in Twin(k)
            /\ row["credit.composer"].value = credited /\ row["credit.composer"].src # "none"
        BY <1>r, <3>2, <4>1 DEF Twin
      <4>3. row["credit.composer"].value = v  BY <4>1, <4>2
      <4>4. row'["credit.composer"].value = v  BY <1>n, <1>6, <1>11, <3>2, <4>2, <4>3
      <4> QED  BY <4>1, <4>2, <4>3, <4>4
    <3> QED  BY <3>1, <3>2
  <2>3. \A q \in Spellings : /\ row'[q].src \in {"none", "tag"} <=> row'[q].value = Null
                             /\ row'[q].src = "enrichment" => q = "composer" /\ row'[q].at \in 1..(stamp + 1)
                             /\ row'[q].value # Null => row'[q].value = v
    <3> TAKE q \in Spellings
    <3>0. stamp + 1 \in 1..(stamp + 1) /\ \A a \in 1..stamp : a \in 1..(stamp + 1)  BY <1>0
    <3>1. CASE q = k
      <4>1. row'[q].src = src /\ row'[q].value = v /\ (src = "enrichment" => row'[q].at = stamp + 1)  BY <1>8, <3>1
      <4> QED  BY <1>n, <3>0, <3>1, <4>1
    <3>2. CASE q # k
      <4>1. row'[q].src = "enrichment" => q = "composer" /\ row'[q].at \in 1..(stamp + 1)  
        <5>1. ASSUME row'[q].src = "enrichment"  PROVE q = "composer" /\ row[q].at \in 1..stamp /\ row'[q].at \in {row[q].at, stamp + 1}
          BY <1>r, <1>12, <3>2, <5>1
        <5> QED  BY <3>0, <5>1
      <4> QED  BY <1>12, <3>2, <4>1
    <3> QED  BY <3>1, <3>2
  <2> QED  BY <1>4, <1>10, <2>1, <2>2, <2>3 DEF RowsGood
<1>14. FillOldOrNew
  <2> SUFFICES ASSUME field = "composer", Standing', ~(row'["composer"].at > stamp)
               PROVE  Standing /\ row'["composer"].at = row["composer"].at /\ column' = column
    BY DEF FillOldOrNew
  <2>1. "composer" \in Spellings /\ row'["composer"].src = "enrichment" /\ ~row'["composer"].locked
    BY <1>0, SpellingFacts DEF Standing
  <2>2. k # "composer"  BY <1>0, <1>8, <2>1
  <2>3. /\ row["composer"].src = "enrichment" /\ row["composer"].value = v
        /\ row'["composer"].at = row["composer"].at /\ ~row["composer"].locked
    BY <1>0, <1>12, <2>1, <2>2
  <2>4. column = v  BY <1>n, <1>r, <2>1, <2>3
  <2> QED  BY <1>4, <2>3, <2>4 DEF Standing
<1>15. ASSUME lock = "unchanged", FieldLocked  PROVE \E q \in Spellings : row'[q].locked
  <2>1. PICK t \in Spellings : row[t].locked  BY <1>15 DEF FieldLocked
  <2>2. CASE t = k  BY <1>8, <1>15, <2>1, <2>2
  <2>3. CASE t # k /\ row[t].value # v  BY <1>8, <1>15, <2>1, <2>3 DEF Twin
  <2>4. CASE t # k /\ row[t].value = v
    <3>1. row[t].src # "none"  BY <1>n, <1>r, <2>4
    <3>2. row'[t] = row[t]  BY <1>6, <1>15, <2>4, <3>1
    <3> QED  BY <2>1, <3>2
  <2> QED  BY <2>2, <2>3, <2>4
<1>16. lock = "unchanged" /\ FieldLocked => \E q \in Spellings : row'[q].locked  BY <1>15
<1> QED  BY <1>4, <1>8, <1>13, <1>14, <1>16

-----------------------------------------------------------------------------
\* An edit's write-back is not enrichment's.
LEMMA EditBegins ==
  ASSUME FieldsInv, NEW w \in Editor, NEW k \in Spellings, NEW v \in AnyValue, NEW wb \in BOOLEAN,
         back' = IF wb THEN [back EXCEPT ![w] = Begin(k, v)] ELSE back
  PROVE  back' \in [Writers -> WriteBacks] /\ back'[Enricher] = back[Enricher]
<1>1. back \in [Writers -> WriteBacks] /\ w \in Writers /\ w # Enricher  BY NameFacts DEF FieldsInv, FieldsTypeOK
<1>2. Begin(k, v) \in WriteBacks  BY SpellingFacts, NameFacts DEF Begin, WriteBacks, Steps, FieldsInv, FieldsTypeOK
<1> QED  BY <1>1, <1>2

LEMMA EditSafe ==
  ASSUME FieldsInv, NEW w \in Editor, NEW k \in Spellings, NEW v \in Value, NEW l \in {"on", "off", "unchanged"},
         NEW force \in BOOLEAN, NEW wb \in BOOLEAN, EditField(w, k, v, l, force, wb)
  PROVE  FieldsInv'
<1>1. v \in AnyValue /\ stamp \in Nat  BY NameFacts DEF FieldsInv, FieldsTypeOK
<1>2. /\ ApplyItemEdit(k, "user", v, l) /\ stamp' = stamp + 1 /\ field' = field
      /\ UNCHANGED <<tag, retags, strayed, settled, lost>>
      /\ back' = IF wb THEN [back EXCEPT ![w] = Begin(k, v)] ELSE back
  BY DEF EditField, Stamps, fileSide, enrichSide
<1>3. RowsGood(row', column', credited', stamp') /\ FillOldOrNew  BY <1>1, <1>2, EditedRows
<1>4. back' \in [Writers -> WriteBacks] /\ back'[Enricher] = back[Enricher]  BY <1>1, <1>2, EditBegins
<1> QED  BY <1>1, <1>2, <1>3, <1>4, CatalogStep

LEMMA FillSafe ==
  ASSUME FieldsInv, NEW v \in Text, Fill(v)
  PROVE  FieldsInv'
<1>1. v \in AnyValue /\ stamp \in Nat /\ "composer" \in Spellings /\ back \in [Writers -> WriteBacks]
  BY SpellingFacts DEF AnyValue, FieldsInv, FieldsTypeOK, Fill
<1>2. /\ ApplyItemEdit("composer", "enrichment", v, "unchanged") /\ stamp' = stamp + 1 /\ field' = field /\ back' = back
      /\ UNCHANGED <<tag, retags, strayed, settled, lost>>
  BY DEF Fill, Stamps, fileSide, enrichSide
<1>3. RowsGood(row', column', credited', stamp') /\ FillOldOrNew  BY <1>1, <1>2, EditedRows
<1> QED  BY <1>1, <1>2, <1>3, CatalogStep

LEMMA SetItemTagsSafe ==
  ASSUME FieldsInv, NEW w \in Editor, NEW v \in Value, NEW l \in {"on", "off", "unchanged"},
         NEW force \in BOOLEAN, NEW wb \in BOOLEAN, SetItemTags(w, v, l, force, wb)
  PROVE  FieldsInv'
<1>1. /\ v \in AnyValue /\ v # Null /\ stamp \in Nat /\ field = "mood" /\ Spellings = {"mood"} /\ RowsGood(row, column, credited, stamp)
      /\ row \in [Spellings -> Rows] /\ NoRow \in Rows
  BY NameFacts, SpellingFacts, RowsAreGood DEF FieldsInv, FieldsTypeOK, SetItemTags
<1>2. /\ column' = v /\ stamp' = stamp + 1 /\ field' = field /\ credited' = credited
      /\ UNCHANGED <<tag, retags, strayed, settled, lost>>
      /\ back' = IF wb THEN [back EXCEPT ![w] = Begin("mood", v)] ELSE back
      /\ row' = IF v = "" THEN [k \in Spellings |-> NoRow] ELSE Attribute(row, "mood", "user", v, l)
  BY <1>1 DEF SetItemTags, Stamps, fileSide, enrichSide
<1>3. back' \in [Writers -> WriteBacks] /\ back'[Enricher] = back[Enricher]  BY <1>1, <1>2, EditBegins
<1>4. credited = ""  BY <1>1 DEF RowsGood
<1>5. RowsGood(row', column', credited', stamp')
  <2>1. CASE v = ""
    <3>1. row' = [k \in Spellings |-> NoRow]  BY <1>2, <2>1
    <3>2. row' \in [Spellings -> Rows] /\ \A k \in Spellings : row'[k] = NoRow  BY <1>1, <3>1
    <3>3. NoRow.src = "none" /\ NoRow.value = Null  BY DEF NoRow
    <3>4. credited' = "" /\ column' \in AnyValue  BY <1>1, <1>2, <1>4
    <3> QED  BY <3>2, <3>3, <3>4 DEF RowsGood
  <2>2. CASE v # ""
    <3> DEFINE new == [src |-> "user", value |-> v, at |-> 0,
                       locked |-> IF l = "unchanged" THEN row["mood"].locked ELSE l = "on"]
    <3>1. row' = [row EXCEPT !["mood"] = new]  BY <1>2, <2>2 DEF Attribute, StampOf
    <3>2. row["mood"].locked \in BOOLEAN  BY <1>1 DEF Rows
    <3>3. new \in Rows  BY <1>1, <3>2 DEF Rows
    <3>4. new.src = "user" /\ new.value = v  OBVIOUS
    <3> HIDE DEF new
    <3>5. row' \in [Spellings -> Rows] /\ row'["mood"] = new  BY <1>1, <3>1, <3>3
    <3>6. credited' = "" /\ column' \in AnyValue /\ column' = v  BY <1>1, <1>2, <1>4
    <3>7. \A k \in Spellings : row'[k].src = "user" /\ row'[k].value = v  BY <1>1, <3>4, <3>5
    <3> QED  BY <1>1, <3>5, <3>6, <3>7 DEF RowsGood
  <2> QED  BY <2>1, <2>2
<1>6. FillOldOrNew  BY <1>1 DEF FillOldOrNew
<1>7. field' = field /\ UNCHANGED <<tag, retags, strayed, settled, lost>>  BY DEF SetItemTags, fileSide, enrichSide
<1>8. stamp' \in Nat /\ stamp' >= stamp
  <2>1. stamp' = stamp + 1 /\ stamp \in Nat  BY <1>1 DEF SetItemTags, Stamps
  <2> QED  BY <2>1
<1> QED  BY <1>3, <1>5, <1>6, <1>7, <1>8, CatalogStep

\* A lock taken or let go.
LEMMA LockSafe ==
  ASSUME FieldsInv, UnlockField \/ \E k \in Spellings : LockField(k)
  PROVE  FieldsInv'
<1>1. /\ stamp \in Nat /\ RowsGood(row, column, credited, stamp) /\ row \in [Spellings -> Rows]
      /\ back \in [Writers -> WriteBacks] /\ NoRow \in Rows /\ NoRow.src = "none" /\ NoRow.value = Null
  BY RowsAreGood, NameFacts DEF FieldsInv, FieldsTypeOK, NoRow
<1>2. /\ stamp' = stamp + 1 /\ field' = field /\ back' = back /\ column' = column /\ credited' = credited
      /\ UNCHANGED <<tag, retags, strayed, settled, lost>>
  BY DEF UnlockField, LockField, Stamps, fileSide, enrichSide
<1>3. \A x \in Rows, l \in BOOLEAN :
        /\ Relocked(x, l) \in Rows /\ Relocked(x, l).src = x.src /\ Relocked(x, l).value = x.value
        /\ x.src = "enrichment" => Relocked(x, l).at = stamp + 1
  BY <1>1 DEF Relocked, StampOf, Rows
<1>4. \A k \in Spellings : row[k] \in Rows  BY <1>1
<1> DEFINE Same(k) == row'[k] = row[k]
           Again(k) == /\ row'[k] \in Rows /\ row'[k].src = row[k].src /\ row'[k].value = row[k].value
                       /\ row[k].src = "enrichment" => row'[k].at = stamp + 1
           Bare(k) == row'[k] \in Rows /\ row'[k].src \in {"none", "tag"} /\ row'[k].value = Null /\ row[k].value \in {Null, ""}
                        /\ row[k].src \in {"none", "tag"}
<1>5. row' = [k \in Spellings |-> row'[k]] /\ \A k \in Spellings : Same(k) \/ Again(k) \/ Bare(k)
  <2>1. CASE UnlockField
    <3>1. row' = [k \in Spellings |->
            LET r == IF row[k].locked THEN Relocked(row[k], FALSE) ELSE row[k] IN
            IF r.src = "tag" /\ r.value \in {Null, ""} THEN NoRow ELSE r]
      BY <2>1 DEF UnlockField
    <3>2. ASSUME NEW k \in Spellings  PROVE Same(k) \/ Again(k) \/ Bare(k)
      <4>1. CASE row[k].locked
        <5>1. row'[k] = (IF row[k].src = "tag" /\ row[k].value \in {Null, ""} THEN NoRow ELSE Relocked(row[k], FALSE))
          BY <1>3, <1>4, <3>1, <4>1
        <5> QED  BY <1>1, <1>3, <1>4, <5>1
      <4>2. CASE ~row[k].locked  BY <1>1, <3>1, <4>2
      <4> QED  BY <4>1, <4>2
    <3> QED  BY <3>1, <3>2
  <2>2. ASSUME NEW k \in Spellings, LockField(k)  PROVE row' = [q \in Spellings |-> row'[q]] /\ \A q \in Spellings : Same(q) \/ Again(q) \/ Bare(q)
    <3> DEFINE lone == [src |-> "tag", locked |-> TRUE, value |-> Null, at |-> 0]
    <3>1. row' = [row EXCEPT ![k] = IF row[k].src = "none" THEN lone ELSE Relocked(row[k], TRUE)]
      BY <2>2 DEF LockField
    <3>2. lone \in Rows /\ lone.src = "tag" /\ lone.value = Null  BY DEF Rows
    <3> HIDE DEF lone
    <3>3. row[k].src = "none" => row[k].value = Null  BY <1>1 DEF RowsGood
    <3>4. Again(k) \/ Bare(k)
      <4>1. CASE row[k].src = "none"  BY <1>1, <3>1, <3>2, <3>3, <4>1
      <4>2. CASE row[k].src # "none"
        <5>1. row'[k] = Relocked(row[k], TRUE)  BY <1>1, <3>1, <4>2
        <5> QED  BY <1>3, <1>4, <5>1
      <4> QED  BY <4>1, <4>2
    <3>5. \A q \in Spellings : q # k => Same(q)  BY <1>1, <3>1
    <3>6. row' = [q \in Spellings |-> row'[q]]  BY <1>1, <3>1
    <3> QED  BY <3>4, <3>5, <3>6
  <2> QED  BY <2>1, <2>2
<1>6. row' \in [Spellings -> Rows]  BY <1>4, <1>5
<1>7. RowsGood(row', column', credited', stamp')
  <2>1. \A k \in Spellings : /\ row'[k].src \in {"none", "tag"} <=> row'[k].value = Null
                             /\ row'[k].src = "enrichment" => k = "composer" /\ row'[k].at \in 1..(stamp + 1)
                             /\ row'[k].value # Null => row'[k].value = column
    <3> TAKE k \in Spellings
    <3>0. stamp + 1 \in 1..(stamp + 1) /\ \A a \in 1..stamp : a \in 1..(stamp + 1)  BY <1>1
    <3>1. /\ row[k].src \in {"none", "tag"} <=> row[k].value = Null
          /\ row[k].src = "enrichment" => k = "composer" /\ row[k].at \in 1..stamp
          /\ row[k].value # Null => row[k].value = column
      BY <1>1 DEF RowsGood
    <3>2. CASE Same(k)  BY <3>0, <3>1, <3>2
    <3>3. CASE Again(k)  BY <3>0, <3>1, <3>3
    <3>4. CASE Bare(k)  BY <3>4
    <3> QED  BY <1>5, <3>2, <3>3, <3>4
  <2>2. credited # "" => field = "composer" /\ row'["credit.composer"].value = credited
    <3> SUFFICES ASSUME credited # ""  PROVE field = "composer" /\ row'["credit.composer"].value = credited  OBVIOUS
    <3>1. field = "composer" /\ row["credit.composer"].value = credited /\ credited \in AnyValue  BY <1>1 DEF RowsGood
    <3>2. "credit.composer" \in Spellings  BY <3>1, SpellingFacts
    <3>3. ~Bare("credit.composer")  BY <3>1, NameFacts
    <3> QED  BY <1>5, <3>1, <3>2, <3>3
  <2> QED  BY <1>1, <1>2, <1>6, <2>1, <2>2 DEF RowsGood
<1>8. FillOldOrNew
  <2> SUFFICES ASSUME field = "composer", Standing', ~(row'["composer"].at > stamp)
               PROVE  Standing /\ row'["composer"].at = row["composer"].at
    BY <1>2 DEF FillOldOrNew
  <2>1. "composer" \in Spellings  BY SpellingFacts
  <2>2. row'["composer"].src = "enrichment"  BY DEF Standing
  <2>3. ~Again("composer")  BY <1>1, <2>2
  <2>4. ~Bare("composer")  BY <2>2
  <2>5. Same("composer")  BY <1>5, <2>1, <2>3, <2>4
  <2> QED  BY <2>5 DEF Standing
<1> QED  BY <1>1, <1>2, <1>7, <1>8, CatalogStep

-----------------------------------------------------------------------------
\* retireProvenanceTx leaves the locked rows, and those that told another value than the
\* column's only as locks.
LEMMA RetiredRows ==
  ASSUME FieldsInv, NEW preserve \in BOOLEAN, row' = Retired(preserve), column' \in AnyValue,
         preserve /\ FieldLocked => column' = column
  PROVE  /\ row' \in [Spellings -> Rows]
         /\ \A k \in Spellings : /\ row'[k].src \in {"none", "tag"} <=> row'[k].value = Null
                                 /\ row'[k].src = "enrichment" => k = "composer" /\ row'[k].at \in 1..stamp /\ row'[k].locked
                                 /\ row'[k].value # Null => row'[k].value = column'
                                 /\ (row'[k].locked <=> row[k].locked)
                                 /\ row[k].src # "user" => row'[k].src # "user"
                                 /\ ~(preserve /\ row[k].locked) => row'[k].src # "user"
                                 /\ preserve /\ row[k].locked => row'[k] = row[k]
<1>0. /\ stamp \in Nat /\ RowsGood(row, column, credited, stamp) /\ row \in [Spellings -> Rows]
      /\ NoRow \in Rows /\ NoRow.src = "none" /\ NoRow.value = Null /\ ~NoRow.locked
  BY RowsAreGood, NameFacts DEF FieldsInv, FieldsTypeOK, NoRow
<1> DEFINE lone == [src |-> "tag", locked |-> TRUE, value |-> Null, at |-> 0]
<1>1. lone \in Rows /\ lone.src = "tag" /\ lone.value = Null /\ lone.locked  BY DEF Rows
<1>2. row' = [k \in Spellings |-> CASE ~row[k].locked -> NoRow
                                    [] row[k].locked /\ ~preserve /\ row[k].src # "tag" -> lone
                                    [] OTHER -> row[k]]
  BY DEF Retired
<1> HIDE DEF lone
<1>3. \A k \in Spellings : /\ row[k] \in Rows /\ row[k].locked \in BOOLEAN
                           /\ row[k].src \in {"none", "tag"} <=> row[k].value = Null
                           /\ row[k].src = "enrichment" => k = "composer" /\ row[k].at \in 1..stamp
                           /\ row[k].value # Null => row[k].value = column
  <2>1. \A k \in Spellings : row[k] \in Rows /\ row[k].locked \in BOOLEAN  BY <1>0 DEF Rows
  <2> QED  BY <1>0, <2>1 DEF RowsGood
<1>4. \A k \in Spellings : row'[k] \in Rows
  <2> TAKE k \in Spellings
  <2>1. row'[k] = NoRow \/ row'[k] = lone \/ row'[k] = row[k]  BY <1>2
  <2>2. row[k] \in Rows  BY <1>3
  <2> QED  BY <1>0, <1>1, <2>1, <2>2
<1>5. row' \in [Spellings -> Rows]  BY <1>2, <1>4
<1> SUFFICES ASSUME NEW k \in Spellings
             PROVE  /\ row'[k].src \in {"none", "tag"} <=> row'[k].value = Null
                    /\ row'[k].src = "enrichment" => k = "composer" /\ row'[k].at \in 1..stamp /\ row'[k].locked
                    /\ row'[k].value # Null => row'[k].value = column'
                    /\ (row'[k].locked <=> row[k].locked)
                    /\ row[k].src # "user" => row'[k].src # "user"
                    /\ ~(preserve /\ row[k].locked) => row'[k].src # "user"
                    /\ preserve /\ row[k].locked => row'[k] = row[k]
  BY <1>5
<1>6. CASE ~row[k].locked
  <2>1. row'[k] = NoRow  BY <1>2, <1>6
  <2> QED  BY <1>0, <1>3, <1>6, <2>1
<1>7. CASE row[k].locked /\ ~preserve /\ row[k].src # "tag"
  <2>1. row'[k] = lone  BY <1>2, <1>7
  <2> QED  BY <1>1, <1>3, <1>7, <2>1
<1>8. CASE row[k].locked /\ (preserve \/ row[k].src = "tag")
  <2>1. row'[k] = row[k]  BY <1>2, <1>8
  <2>2. row[k].value # Null => row[k].value = column'
    <3>1. CASE preserve  BY <1>3, <1>8, <3>1 DEF FieldLocked
    <3>2. CASE row[k].src = "tag"  BY <1>3, <3>2
    <3> QED  BY <1>8, <3>1, <3>2
  <2>3. ~preserve => row[k].src = "tag"  BY <1>8
  <2> QED  BY <1>3, <1>8, <2>1, <2>2, <2>3
<1> QED  BY <1>6, <1>7, <1>8

\* What a scan reads, or what it lets stand.
LEMMA ScannedFacts ==
  ASSUME FieldsInv, NEW f \in Copy, NEW preserve \in BOOLEAN
  PROVE  /\ Scanned(f) \in AnyValue /\ Overlaid(f, preserve) \in {column, Scanned(f)} /\ Overlaid(f, preserve) \in AnyValue
         /\ preserve /\ FieldLocked => Overlaid(f, preserve) = column
         /\ field = "composer" => Scanned(f) = tag[f]
BY DEF Scanned, Overlaid, Derived, AnyValue, FieldsInv, FieldsTypeOK

\* reopenLostFillsTx only takes a stamp back, and takes it back when the file turns out not to
\* carry the fill.
LEMMA ReopenedFacts ==
  ASSUME FieldsInv, NEW f \in Copy, NEW preserve \in BOOLEAN, settled' = Reopened(f, preserve)
  PROVE  /\ settled' \in [Copy -> Nat] /\ \A g \in Copy : settled'[g] <= settled[g] /\ (g # f => settled'[g] = settled[g])
         /\ settled'[f] \in {0, settled[f]}
         /\ field = "composer" /\ ~FieldLocked /\ f \notin lost /\ Carried(f, preserve) # {} => settled'[f] < row["composer"].at
<1>0. settled \in [Copy -> Nat] /\ row \in [Spellings -> Rows] /\ RowsShape /\ stamp \in Nat  BY DEF FieldsInv, FieldsTypeOK
<1>1. settled' = settled \/ settled' = [settled EXCEPT ![f] = 0]  BY DEF Reopened
<1>2. ASSUME field = "composer", ~FieldLocked, f \notin lost, Carried(f, preserve) # {}
      PROVE  settled'[f] < row["composer"].at
  <2>1. \A c \in Carried(f, preserve) : c \in Spellings /\ Filled(c)  BY DEF Carried, Fills
  <2>2. \A c \in Carried(f, preserve) : c = "composer"  BY <1>0, <2>1 DEF RowsShape
  <2>3. Carried(f, preserve) = {"composer"} /\ Filled("composer") /\ "composer" \in Spellings  BY <1>2, <2>1, <2>2
  <2>4. {c \in Carried(f, preserve) : Filled(c) /\ ~row[c].locked} = {"composer"}  BY <1>2, <2>3 DEF FieldLocked
  <2>5. row["composer"].at \in 1..stamp  BY <1>0, <2>3 DEF RowsShape
  <2> DEFINE at == {row[k].at : k \in {c \in Carried(f, preserve) : Filled(c) /\ ~row[c].locked}}
  <2>6. at = {row["composer"].at}  BY <2>4
  <2>7. Min(at) = row["composer"].at
    <3> HIDE DEF at
    <3>1. row["composer"].at \in Int  BY <1>0, <2>5
    <3> QED  BY <2>6, <3>1, MinMaxFacts
  <2>8. settled' = IF at # {} /\ f \notin lost /\ settled[f] >= Min(at) THEN [settled EXCEPT ![f] = 0] ELSE settled
    BY DEF Reopened
  <2> HIDE DEF at
  <2>9. CASE settled[f] >= row["composer"].at  BY <1>0, <1>2, <2>5, <2>6, <2>7, <2>8, <2>9
  <2>10. CASE ~(settled[f] >= row["composer"].at)
    <3>1. settled' = settled  BY <2>7, <2>8, <2>10
    <3>2. settled[f] \in Nat  BY <1>0
    <3> QED  BY <1>0, <2>5, <2>10, <3>1, <3>2
  <2> QED  BY <2>9, <2>10
<1>3. settled' \in [Copy -> Nat] /\ \A g \in Copy : settled'[g] <= settled[g] /\ (g # f => settled'[g] = settled[g])
  BY <1>0, <1>1
<1>4. settled'[f] \in {0, settled[f]}  BY <1>0, <1>1
<1> QED  BY <1>2, <1>3, <1>4

\* settleRederivedTx: the contributor rows go with a credit row that goes.
LEMMA CreditRetires ==
  ASSUME FieldsInv, NEW preserve \in BOOLEAN, row' = Retired(preserve), column' \in AnyValue,
         preserve /\ FieldLocked => column' = column, credited' = CreditsRetired(preserve)
  PROVE  credited' \in {"", column'} /\ (credited' # "" => field = "composer" /\ row'["credit.composer"].value = credited')
<1> SUFFICES ASSUME credited' # ""  PROVE credited' = column' /\ field = "composer" /\ row'["credit.composer"].value = credited'
  OBVIOUS
<1>1. credited' = credited /\ credited \in AnyValue /\ credited = column
  BY DEF CreditsRetired, FieldsInv, FieldsTypeOK, RowsTell
<1>2. field = "composer" /\ "credit.composer" \in Spellings /\ row["credit.composer"].value = credited /\ credited # Null
  BY <1>1, SpellingFacts, NameFacts DEF FieldsInv, FieldsTypeOK, CreditTold
<1>3. row["credit.composer"].src \notin {"none", "tag"}  BY <1>2 DEF FieldsInv, RowsShape
<1>4. row["credit.composer"].locked /\ preserve  BY <1>2, <1>3 DEF CreditsRetired
<1>5. row'["credit.composer"] = row["credit.composer"]  BY <1>2, <1>4, RetiredRows
<1>6. column' = column  BY <1>2, <1>4 DEF FieldLocked
<1> QED  BY <1>1, <1>2, <1>5, <1>6

\* A scan changes rows and column so that they agree, and keeps a fill's row only with its column.
LEMMA ScanRows ==
  ASSUME FieldsInv, NEW f \in Copy, NEW preserve \in BOOLEAN, ScanFileTags(f, preserve)
  PROVE  /\ RowsGood(row', column', credited', stamp)
         /\ preserve /\ FieldLocked => column' = column
         /\ \A k \in Spellings : (row'[k].locked <=> row[k].locked) /\ (row[k].src # "user" => row'[k].src # "user")
         /\ field = "composer" /\ Standing' => row' = row /\ column' = column /\ lost' = lost
<1>0. RowsGood(row, column, credited, stamp) /\ field \in {"composer", "title", "mood"} /\ field' = field
      /\ tag[f] \in AnyValue /\ column \in AnyValue
  BY RowsAreGood DEF FieldsInv, FieldsTypeOK, ScanFileTags
<1>1. CASE f # Main  BY <1>0, <1>1 DEF ScanFileTags, PutCopy
<1>2. CASE f = Main /\ field = "mood"
  <2>1. /\ column' = (IF preserve /\ FieldLocked THEN column ELSE tag[f]) /\ credited' = credited
        /\ row' = (IF ~(FieldLocked /\ preserve) /\ row[field].src \notin {"none", "tag"} /\ row[field].value # column'
                   THEN Retired(preserve) ELSE row)
    BY <1>2 DEF ScanFileTags, PutCustomTag
  <2>2. Spellings = {"mood"} /\ credited = ""  BY <1>0, <1>2, SpellingFacts DEF RowsGood
  <2>3. column' \in AnyValue /\ (preserve /\ FieldLocked => column' = column)  BY <1>0, <2>1
  <2>4. CASE row' = Retired(preserve)
    <3>1. /\ row' \in [Spellings -> Rows]
          /\ \A k \in Spellings : /\ row'[k].src \in {"none", "tag"} <=> row'[k].value = Null
                                  /\ row'[k].src = "enrichment" => k = "composer" /\ row'[k].at \in 1..stamp
                                  /\ row'[k].value # Null => row'[k].value = column'
                                  /\ (row'[k].locked <=> row[k].locked)
                                  /\ row[k].src # "user" => row'[k].src # "user"
      BY <2>3, <2>4, RetiredRows
    <3> QED  BY <1>2, <2>1, <2>2, <2>3, <3>1 DEF RowsGood
  <2>5. CASE row' = row /\ ~(~(FieldLocked /\ preserve) /\ row[field].src \notin {"none", "tag"} /\ row[field].value # column')
    <3>1. row["mood"].value # Null => row["mood"].value = column'
      BY <1>0, <1>2, <2>2, <2>3, <2>5 DEF RowsGood
    <3> QED  BY <1>0, <1>2, <2>1, <2>2, <2>3, <2>5, <3>1 DEF RowsGood
  <2> QED  BY <2>1, <2>4, <2>5
<1>3. CASE f = Main /\ field # "mood"
  <2>1. /\ column' = Overlaid(f, preserve)
        /\ row' = (IF Rederived(column', preserve) THEN Retired(preserve) ELSE row)
        /\ credited' = (IF Rederived(column', preserve) THEN CreditsRetired(preserve) ELSE credited)
        /\ ~Rederived(column', preserve) => lost' = lost
    BY <1>3 DEF ScanFileTags, PutField
  <2>2. column' \in AnyValue /\ (preserve /\ FieldLocked => column' = column)  BY <2>1, ScannedFacts
  <2>3. CASE Rederived(column', preserve)
    <3>1. row' = Retired(preserve) /\ credited' = CreditsRetired(preserve)  BY <2>1, <2>3
    <3>2. /\ row' \in [Spellings -> Rows]
          /\ \A k \in Spellings : /\ row'[k].src \in {"none", "tag"} <=> row'[k].value = Null
                                  /\ row'[k].src = "enrichment" => k = "composer" /\ row'[k].at \in 1..stamp /\ row'[k].locked
                                  /\ row'[k].value # Null => row'[k].value = column'
                                  /\ (row'[k].locked <=> row[k].locked)
                                  /\ row[k].src # "user" => row'[k].src # "user"
      BY <2>2, <3>1, RetiredRows
    <3>3. credited' \in {"", column'} /\ (credited' # "" => field = "composer" /\ row'["credit.composer"].value = credited')
      BY <2>2, <3>1, CreditRetires
    <3>4. ~(field = "composer" /\ Standing')  BY <1>0, <3>2, SpellingFacts DEF Standing
    <3> QED  BY <2>2, <3>2, <3>3, <3>4 DEF RowsGood
  <2>4. CASE ~Rederived(column', preserve)
    <3>1. row' = row /\ credited' = credited /\ lost' = lost /\ column' = column  BY <2>1, <2>4 DEF Rederived
    <3> QED  BY <1>0, <3>1
  <2> QED  BY <2>3, <2>4
<1> QED  BY <1>1, <1>2, <1>3

LEMMA ScanSafe ==
  ASSUME FieldsInv, NEW f \in Copy, NEW preserve \in BOOLEAN, ScanFileTags(f, preserve)
  PROVE  FieldsInv'
<1>0. /\ FieldsTypeOK /\ StampsBehind /\ field' = field /\ tag' = tag /\ back' = back /\ Spellings' = Spellings
      /\ stamp' \in {stamp, stamp + 1} /\ stamp \in Nat
      /\ strayed' = (IF FieldLocked \/ \E w \in Writers : back[w].file = f /\ back[w].step \notin {"idle", "next"}
                     THEN strayed ELSE strayed \ {f})
  BY DEF FieldsInv, FieldsTypeOK, ScanFileTags, Spellings
<1>1. /\ RowsGood(row', column', credited', stamp)
      /\ field = "composer" /\ Standing' => row' = row /\ column' = column /\ lost' = lost
  BY ScanRows
<1>2. settled' = settled \/ settled' = Reopened(f, preserve)
  BY DEF ScanFileTags, PutCustomTag, PutField, PutCopy
<1>3. settled' \in [Copy -> Nat] /\ \A g \in Copy : settled'[g] <= settled[g] /\ (g # f => settled'[g] = settled[g])
  <2>1. settled \in [Copy -> Nat]  BY <1>0 DEF FieldsTypeOK
  <2> QED  BY <1>2, <2>1, ReopenedFacts
<1>4. FieldsTypeOK'
  <2>1. column' \in AnyValue /\ credited' \in AnyValue  BY <1>1 DEF RowsGood, AnyValue
  <2>2. row' \in [Spellings' -> Rows]  BY <1>0, <1>1 DEF RowsGood
  <2>3. stamp' \in Nat  BY <1>0
  <2> QED  BY <1>0, <1>3, <2>1, <2>2, <2>3 DEF FieldsTypeOK
<1>5. RowsShape' /\ RowsTell' /\ CreditTold'
  <2>1. \A a \in 1..stamp : a \in 1..stamp'  BY <1>0
  <2> QED  BY <1>0, <1>1, <2>1 DEF RowsGood, RowsShape, RowsTell, CreditTold, Filled
<1>6. StampsBehind'
  <2>1. \A g \in Copy : settled'[g] <= stamp'
    <3> TAKE g \in Copy
    <3>1. settled[g] <= stamp /\ settled'[g] <= settled[g] /\ settled[g] \in Nat /\ settled'[g] \in Nat
      BY <1>0, <1>3 DEF StampsBehind, FieldsTypeOK
    <3> QED  BY <1>0, <3>1
  <2>2. back[Enricher].upTo \in Nat /\ back[Enricher].upTo <= stamp  BY <1>0, NameFacts DEF FieldsTypeOK, WriteBacks, StampsBehind
  <2> QED  BY <1>0, <2>1, <2>2 DEF StampsBehind
<1>7. FillStands' /\ FillWritten' /\ NoneSkipped'
  <2> SUFFICES ASSUME field = "composer", Standing'  PROVE FillStands' /\ FillWritten' /\ NoneSkipped'
    BY <1>0 DEF FillStands, FillWritten, NoneSkipped
  <2>1. row' = row /\ column' = column /\ lost' = lost /\ Standing  BY <1>1 DEF Standing
  <2>2. settled[Main] \in Nat /\ settled'[Main] \in Nat /\ settled'[Main] <= settled[Main] /\ Main \in Copy
        /\ row["composer"].at \in 1..stamp /\ "composer" \in Spellings
    BY <1>0, <1>3, <2>1, NameFacts, SpellingFacts DEF FieldsTypeOK, FieldsInv, RowsShape, Standing, Filled
  <2>3. FillWritten'
    <3>1. back[Enricher].step \notin {"idle", "next"} /\ back[Enricher].file = Main /\ Main \notin strayed'
          => Main \notin strayed
      BY <1>0, NameFacts
    <3> QED  BY <1>0, <2>1, <3>1 DEF FieldsInv, FillWritten
  <2>4. NoneSkipped'
    <3> SUFFICES ASSUME row["composer"].at <= settled'[Main], back[Enricher].step # "idle"
                 PROVE  row["composer"].at <= back[Enricher].upTo
      BY <1>0, <2>1 DEF NoneSkipped
    <3>1. row["composer"].at <= settled[Main]  BY <1>0, <2>2
    <3> QED  BY <2>1, <3>1 DEF FieldsInv, NoneSkipped
  <2>5. FillStands'
    <3> SUFFICES ASSUME row["composer"].at <= settled'[Main], Main \notin lost, Main \notin strayed'  PROVE tag[Main] = column
      BY <1>0, <2>1 DEF FillStands
    <3>1. row["composer"].at <= settled[Main]  BY <1>0, <2>2
    <3>2. CASE Main \notin strayed  BY <2>1, <3>1, <3>2 DEF FieldsInv, FillStands
    <3>3. CASE Main \in strayed
      <4>1. f = Main /\ ~FieldLocked  BY <1>0, <3>3
      <4>2. column' = Overlaid(f, preserve) /\ settled' = Reopened(f, preserve)  BY <4>1 DEF ScanFileTags, PutField
      <4>3. Carried(f, preserve) = {}
        <5> SUFFICES ASSUME Carried(f, preserve) # {}  PROVE FALSE  OBVIOUS
        <5>1. settled'[f] < row["composer"].at  BY <4>1, <4>2, ReopenedFacts
        <5> QED  BY <1>0, <2>2, <4>1, <5>1
      <4>4. Overlaid(f, preserve) = Scanned(f)  BY <4>1, <4>3 DEF Overlaid
      <4> QED  BY <2>1, <4>1, <4>2, <4>4, ScannedFacts
    <3> QED  BY <3>2, <3>3
  <2> QED  BY <2>3, <2>4, <2>5
<1> QED  BY <1>4, <1>5, <1>6, <1>7 DEF FieldsInv

-----------------------------------------------------------------------------
\* What a write-back leaves alone: the catalog's rows and its clock.
RowsLeft == UNCHANGED <<field, column, row, credited, stamp>>

\* A step of a write-back: where it goes, and what the three sentences about the fill need.
LEMMA WriteBackStep ==
  ASSUME FieldsInv, RowsLeft, back' \in [Writers -> WriteBacks], tag' \in [Copy -> AnyValue], settled' \in [Copy -> Nat],
         back'[Enricher].upTo <= stamp, \A f \in Copy : settled'[f] <= stamp,
         FillStands', FillWritten', NoneSkipped'
  PROVE  FieldsInv'
<1>1. FieldsTypeOK'  BY DEF FieldsInv, FieldsTypeOK, RowsLeft, Spellings
<1>2. RowsShape' /\ RowsTell' /\ CreditTold'
  BY DEF FieldsInv, RowsLeft, RowsShape, RowsTell, CreditTold, Filled, Spellings
<1>3. StampsBehind'  BY DEF RowsLeft, StampsBehind
<1> QED  BY <1>1, <1>2, <1>3 DEF FieldsInv

\* Where a write-back is after Goes.
LEMMA GoesFacts ==
  ASSUME FieldsInv, NEW w \in Writers, NEW st \in Steps, NEW f \in Copy, NEW rest \in SUBSET Copy,
         Goes(w, st, f, rest)
  PROVE  /\ back' \in [Writers -> WriteBacks] /\ back'[w].step = st /\ back'[w].file = f /\ back'[w].upTo = back[w].upTo
         /\ \A x \in Writers : x # w => back'[x] = back[x]
         /\ back'[Enricher].upTo = back[Enricher].upTo
<1>1. back \in [Writers -> WriteBacks] /\ back[w] \in WriteBacks  BY DEF FieldsInv, FieldsTypeOK
<1> DEFINE new == [step |-> st, value |-> back[w].value, keys |-> back[w].keys, left |-> rest, file |-> f, upTo |-> back[w].upTo]
<1>2. new \in WriteBacks /\ new.step = st /\ new.file = f /\ new.upTo = back[w].upTo  BY <1>1 DEF WriteBacks
<1>3. back' = [back EXCEPT ![w] = new]  BY DEF Goes
<1> HIDE DEF new
<1> QED  BY <1>1, <1>2, <1>3, NameFacts

\* The types and bounds of what the write-backs read.
LEMMA BackFacts ==
  ASSUME FieldsInv
  PROVE  /\ \A w \in Writers : back[w] \in WriteBacks /\ back[w].value \in AnyValue /\ back[w].file \in Copy
                               /\ back[w].left \subseteq Copy /\ back[w].upTo \in Nat
         /\ back[Enricher].upTo <= stamp /\ settled \in [Copy -> Nat] /\ tag \in [Copy -> AnyValue] /\ stamp \in Nat
         /\ \A f \in Copy : settled[f] <= stamp
         /\ field = "composer" => "composer" \in Spellings
         /\ field = "composer" /\ Standing => row["composer"].at \in 1..stamp
<1>1. \A w \in Writers : back[w] \in WriteBacks  BY DEF FieldsInv, FieldsTypeOK
<1>2. \A w \in Writers : back[w].value \in AnyValue /\ back[w].file \in Copy /\ back[w].left \subseteq Copy /\ back[w].upTo \in Nat
  BY <1>1 DEF WriteBacks
<1>3. field = "composer" => "composer" \in Spellings  BY SpellingFacts DEF FieldsInv, FieldsTypeOK
<1> QED  BY <1>1, <1>2, <1>3 DEF FieldsInv, FieldsTypeOK, StampsBehind, RowsShape, Standing, Filled

\* The pass reads one stamp, that of the only spelling enrichment fills.
LEMMA StartEnrichWriteSafe ==
  ASSUME FieldsInv, StartEnrichWrite
  PROVE  FieldsInv'
<1> DEFINE held == {k \in Spellings : Filled(k) /\ ~row[k].locked}
           newest == Max({row[k].at : k \in held})
<1>1. held = {"composer"} /\ "composer" \in Spellings /\ Standing
  <2>1. \A k \in held : k = "composer" /\ k \in Spellings  BY DEF FieldsInv, RowsShape
  <2>2. held # {}  BY DEF StartEnrichWrite
  <2>3. held = {"composer"}  BY <2>1, <2>2
  <2>4. "composer" \in Spellings  BY <2>1, <2>2
  <2> QED  BY <2>3, <2>4 DEF Standing, Filled
<1>2. row["composer"].at \in 1..stamp /\ stamp \in Nat  BY <1>1 DEF FieldsInv, FieldsTypeOK, RowsShape, Standing, Filled
<1>3. {row[k].at : k \in held} = {row["composer"].at}  BY <1>1
<1>4. newest = row["composer"].at
  <2>1. row["composer"].at \in Int  BY <1>2
  <2> HIDE DEF held
  <2> QED  BY <1>3, <2>1, MinMaxFacts
<1>5. /\ back' = [back EXCEPT ![Enricher] =
           [step |-> "next", value |-> column, keys |-> held \cap {"composer"},
            left |-> {f \in Copy : newest > settled[f]}, file |-> Main, upTo |-> newest]]
      /\ UNCHANGED <<field, column, row, credited, owed, stamp, tag, retags, strayed, settled, lost>>
  BY DEF StartEnrichWrite, fileSide, enrichSide
<1> DEFINE new == [step |-> "next", value |-> column, keys |-> held \cap {"composer"},
                   left |-> {f \in Copy : newest > settled[f]}, file |-> Main, upTo |-> newest]
<1>6. new \in WriteBacks /\ new.step = "next" /\ new.upTo = row["composer"].at
  <2>1. column \in AnyValue /\ newest \in Nat /\ Main \in Copy  BY <1>2, <1>4, NameFacts DEF FieldsInv, FieldsTypeOK
  <2> HIDE DEF held, newest
  <2> QED  BY <1>4, <2>1 DEF WriteBacks, Steps
<1> HIDE DEF held, newest
<1>7. back' = [back EXCEPT ![Enricher] = new]  BY <1>5
<1> HIDE DEF new
<1>8. back' \in [Writers -> WriteBacks] /\ back'[Enricher] = new
  BY <1>6, <1>7, NameFacts DEF FieldsInv, FieldsTypeOK
<1>9. FillStands' /\ FillWritten' /\ NoneSkipped'
  <2>1. FillStands'  BY <1>5 DEF FieldsInv, FillStands, Standing
  <2>2. FillWritten'  BY <1>6, <1>8 DEF FillWritten
  <2>3. NoneSkipped'  BY <1>2, <1>5, <1>6, <1>8 DEF NoneSkipped
  <2> QED  BY <2>1, <2>2, <2>3
<1>10. RowsLeft  BY <1>5 DEF RowsLeft
<1>11. back'[Enricher].upTo <= stamp  BY <1>2, <1>6, <1>8
<1>12. tag' \in [Copy -> AnyValue] /\ settled' \in [Copy -> Nat] /\ \A f \in Copy : settled'[f] <= stamp  BY <1>5, BackFacts
<1> QED  BY <1>8, <1>9, <1>10, <1>11, <1>12, WriteBackStep

LEMMA WriteTagSafe ==
  ASSUME FieldsInv, NEW w \in Writers, NEW f \in Copy, WriteTag(w, f)
  PROVE  FieldsInv'
<1>1. /\ RowsLeft /\ settled' = settled /\ lost' = lost /\ tag' = [tag EXCEPT ![f] = back[w].value]
      /\ Goes(w, "written", f, back[w].left \ {f}) /\ back[w].step = "next"
      /\ strayed' = IF back[w].value = column THEN strayed \ {f} ELSE strayed \cup {f}
  BY DEF WriteTag, NextFile, RowsLeft, enrichSide
<1>2. back[w].left \ {f} \in SUBSET Copy /\ "written" \in Steps  BY BackFacts DEF Steps
<1>3. /\ back' \in [Writers -> WriteBacks] /\ back'[w].step = "written" /\ back'[w].file = f /\ back'[w].upTo = back[w].upTo
      /\ \A x \in Writers : x # w => back'[x] = back[x]
      /\ back'[Enricher].upTo = back[Enricher].upTo
  BY <1>1, <1>2, GoesFacts
<1>4. tag' \in [Copy -> AnyValue]  BY <1>1, BackFacts
<1>5. Standing' = Standing /\ column' = column /\ row' = row /\ field' = field  BY <1>1 DEF RowsLeft, Standing
\* After a write of the primary file it holds the column's value or has strayed.
<1>6. f = Main /\ Main \notin strayed' => tag'[Main] = column'  BY <1>1, <1>5, BackFacts, NameFacts
<1>7. f # Main => tag'[Main] = tag[Main] /\ (Main \in strayed' <=> Main \in strayed)  BY <1>1, BackFacts, NameFacts
<1>8. FillStands'  BY <1>1, <1>5, <1>6, <1>7 DEF FieldsInv, FillStands
<1>9. FillWritten'
  <2>1. CASE f = Main  BY <1>6, <2>1 DEF FillWritten
  <2>2. CASE f # Main /\ w = Enricher  BY <1>3, <2>2 DEF FillWritten
  <2>3. CASE f # Main /\ w # Enricher
    <3>1. back'[Enricher] = back[Enricher] /\ lost' = lost  BY <1>1, <1>3, <2>3, NameFacts
    <3> QED  BY <1>5, <1>7, <2>3, <3>1 DEF FieldsInv, FillWritten
  <2> QED  BY <2>1, <2>2, <2>3
<1>10. NoneSkipped'
  <2>1. back'[Enricher].step # "idle" => back[Enricher].step # "idle"  BY <1>1, <1>3, NameFacts
  <2> QED  BY <1>1, <1>3, <1>5, <2>1 DEF FieldsInv, NoneSkipped
<1>11. back'[Enricher].upTo <= stamp /\ settled' \in [Copy -> Nat] /\ \A g \in Copy : settled'[g] <= stamp
  BY <1>1, <1>3, BackFacts
<1> QED  BY <1>1, <1>3, <1>4, <1>8, <1>9, <1>10, <1>11, WriteBackStep

\* A stamp raised to what a pass has read.
LEMMA RaisedStamp ==
  ASSUME FieldsInv, NEW f \in Copy, settled' = [settled EXCEPT ![f] = Max({settled[f], back[Enricher].upTo})]
  PROVE  /\ settled' \in [Copy -> Nat] /\ \A g \in Copy : settled'[g] <= stamp /\ (g # f => settled'[g] = settled[g])
         /\ settled'[f] \in {settled[f], back[Enricher].upTo}
<1>1. settled \in [Copy -> Nat] /\ settled[f] \in Nat /\ back[Enricher].upTo \in Nat
      /\ back[Enricher].upTo <= stamp /\ \A g \in Copy : settled[g] <= stamp
  BY BackFacts, NameFacts
<1>2. Max({settled[f], back[Enricher].upTo}) \in {settled[f], back[Enricher].upTo}
  <2>1. settled[f] \in Int /\ back[Enricher].upTo \in Int  BY <1>1
  <2> QED  BY <2>1, MinMaxFacts, Zenon
<1>3. settled'[f] = Max({settled[f], back[Enricher].upTo}) /\ \A g \in Copy : g # f => settled'[g] = settled[g]  BY <1>1
<1>4. settled'[f] \in {settled[f], back[Enricher].upTo}  BY <1>2, <1>3
<1>5. \A g \in Copy : settled'[g] \in Nat /\ settled'[g] <= stamp
  <2> TAKE g \in Copy
  <2>1. CASE g = f  BY <1>1, <1>4, <2>1
  <2>2. CASE g # f  BY <1>1, <1>3, <2>2
  <2> QED  BY <2>1, <2>2
<1>6. settled' \in [Copy -> Nat]  BY <1>1, <1>5
<1> QED  BY <1>3, <1>4, <1>5, <1>6

\* A write that failed or lost the value: nothing but the write-back itself moves.
LEMMA WriteMissedSafe ==
  ASSUME FieldsInv, NEW w \in Writers, NEW f \in Copy,
         WriteLosesValue(w, f) \/ \E u \in BOOLEAN : WriteFails(w, f, u)
  PROVE  FieldsInv'
<1>1. /\ RowsLeft /\ tag' = tag /\ strayed' = strayed /\ settled' = settled /\ lost' = lost /\ back[w].step = "next"
      /\ \E st \in {"next", "lossy", "loss"}, g \in Copy : Goes(w, st, g, back[w].left \ {f})
  <2>1. back[w].file \in Copy  BY BackFacts
  <2> QED  BY <2>1 DEF WriteLosesValue, WriteFails, NextFile, RowsLeft, enrichSide, fileSide
<1>2. PICK st \in {"next", "lossy", "loss"} : \E g \in Copy : Goes(w, st, g, back[w].left \ {f})  BY <1>1
<1>3. PICK g \in Copy : Goes(w, st, g, back[w].left \ {f})  BY <1>2
<1>4. back[w].left \ {f} \in SUBSET Copy /\ st \in Steps  BY BackFacts DEF Steps
<1>5. /\ back' \in [Writers -> WriteBacks] /\ back'[w].step = st
      /\ \A x \in Writers : x # w => back'[x] = back[x]
      /\ back'[Enricher].upTo = back[Enricher].upTo
  BY <1>3, <1>4, GoesFacts
<1>6. Standing' = Standing /\ column' = column /\ row' = row /\ field' = field  BY <1>1 DEF RowsLeft, Standing
<1>7. FillStands'  BY <1>1, <1>6 DEF FieldsInv, FillStands
<1>8. FillWritten'
  <2>1. back'[Enricher].step \in {"written", "note", "stamp"} => back'[Enricher] = back[Enricher]  BY <1>5, NameFacts
  <2> QED  BY <1>1, <1>6, <2>1 DEF FieldsInv, FillWritten
<1>9. NoneSkipped'
  <2>1. back'[Enricher].step # "idle" => back[Enricher].step # "idle"  BY <1>1, <1>5, NameFacts
  <2> QED  BY <1>1, <1>5, <1>6, <2>1 DEF FieldsInv, NoneSkipped
<1>10. back'[Enricher].upTo <= stamp /\ tag' \in [Copy -> AnyValue] /\ settled' \in [Copy -> Nat] /\ \A h \in Copy : settled'[h] <= stamp
  BY <1>1, <1>5, BackFacts
<1> QED  BY <1>1, <1>5, <1>7, <1>8, <1>9, <1>10, WriteBackStep

LEMMA SettleOwedSafe ==
  ASSUME FieldsInv, NEW w \in Writers, NEW fails \in BOOLEAN, SettleTagWriteOwed(w, fails)
  PROVE  FieldsInv'
<1> DEFINE on == IF back[w].step = "written" THEN "note" ELSE "loss"
<1>1. /\ RowsLeft /\ tag' = tag /\ strayed' = strayed /\ settled' = settled /\ lost' = lost
      /\ back[w].step \in {"written", "lossy"}
      /\ IF w # Enricher THEN Goes(w, "next", Main, back[w].left) ELSE Goes(w, on, back[w].file, back[w].left)
  BY DEF SettleTagWriteOwed, RowsLeft, enrichSide, fileSide
<1>2. /\ back[w].left \in SUBSET Copy /\ back[w].file \in Copy /\ Main \in Copy
      /\ on \in Steps /\ "next" \in Steps /\ on \in {"note", "loss"} /\ (on = "note" => back[w].step = "written")
  BY BackFacts, NameFacts DEF Steps
<1> HIDE DEF on
<1>3. /\ back' \in [Writers -> WriteBacks] /\ back'[Enricher].upTo = back[Enricher].upTo
      /\ w = Enricher => back'[Enricher].file = back[Enricher].file /\ back'[Enricher].step = on
      /\ w # Enricher => back'[Enricher] = back[Enricher]
  BY <1>1, <1>2, GoesFacts, NameFacts
<1>4. Standing' = Standing /\ column' = column /\ row' = row /\ field' = field  BY <1>1 DEF RowsLeft, Standing
<1>5. FillStands'  BY <1>1, <1>4 DEF FieldsInv, FillStands
<1>6. FillWritten'
  <2>1. CASE w = Enricher  BY <1>1, <1>2, <1>3, <1>4, <2>1 DEF FieldsInv, FillWritten
  <2>2. CASE w # Enricher  BY <1>1, <1>3, <1>4, <2>2 DEF FieldsInv, FillWritten
  <2> QED  BY <2>1, <2>2
<1>7. NoneSkipped'
  <2>1. CASE w = Enricher  BY <1>1, <1>3, <1>4, <2>1 DEF FieldsInv, NoneSkipped
  <2>2. CASE w # Enricher  BY <1>1, <1>3, <1>4, <2>2 DEF FieldsInv, NoneSkipped
  <2> QED  BY <2>1, <2>2
<1>8. back'[Enricher].upTo <= stamp /\ tag' \in [Copy -> AnyValue] /\ settled' \in [Copy -> Nat] /\ \A f \in Copy : settled'[f] <= stamp
  BY <1>1, <1>3, BackFacts
<1> QED  BY <1>1, <1>3, <1>5, <1>6, <1>7, <1>8, WriteBackStep

\* A fill the stamp covers is one the write-back has read, so a write that landed may take
\* the loss of an earlier one from the file.
LEMMA NoteSafe ==
  ASSUME FieldsInv, NEW fails \in BOOLEAN, NoteLoss(fails) \/ NoteLanded(fails)
  PROVE  FieldsInv'
<1> DEFINE f == back[Enricher].file
<1>1. /\ RowsLeft /\ tag' = tag /\ settled' = settled /\ Goes(Enricher, "stamp", f, back[Enricher].left)
      /\ \/ /\ back[Enricher].step = "loss" /\ lost \subseteq lost' /\ strayed \subseteq strayed'
            /\ f \in lost' \cup strayed'
         \/ /\ back[Enricher].step = "note" /\ strayed' = strayed /\ (lost' = lost \/ lost' = lost \ {f})
  BY DEF NoteLoss, NoteLanded, RowsLeft, fileSide
<1>2. back[Enricher].left \in SUBSET Copy /\ f \in Copy /\ Main \in Copy /\ Enricher \in Writers /\ "stamp" \in Steps
  BY BackFacts, NameFacts DEF Steps
<1>3. /\ back' \in [Writers -> WriteBacks] /\ back'[Enricher].step = "stamp" /\ back'[Enricher].file = f
      /\ back'[Enricher].upTo = back[Enricher].upTo
  BY <1>1, <1>2, GoesFacts
<1>4. Standing' = Standing /\ column' = column /\ row' = row /\ field' = field  BY <1>1 DEF RowsLeft, Standing
<1> HIDE DEF f
<1>5. ASSUME back[Enricher].step = "note", f = Main, field = "composer", Standing, Main \notin strayed,
             row["composer"].at <= back[Enricher].upTo
      PROVE  tag[Main] = column
  BY <1>5 DEF FieldsInv, FillWritten, f
<1>6. FillStands'
  <2> SUFFICES ASSUME field = "composer", Standing, row["composer"].at <= settled[Main], Main \notin lost', Main \notin strayed'
               PROVE  tag[Main] = column
    BY <1>1, <1>4 DEF FillStands
  <2>1. CASE Main \notin lost  BY <1>1, <2>1 DEF FieldsInv, FillStands
  <2>2. CASE Main \in lost
    <3>1. back[Enricher].step = "note" /\ f = Main /\ Main \notin strayed  BY <1>1, <2>2
    <3>2. row["composer"].at <= back[Enricher].upTo  BY <3>1 DEF FieldsInv, NoneSkipped
    <3> QED  BY <1>5, <3>1, <3>2
  <2> QED  BY <2>1, <2>2
<1>7. FillWritten'
  <2> SUFFICES ASSUME field = "composer", Standing, f = Main, row["composer"].at <= back[Enricher].upTo, Main \notin strayed'
               PROVE  tag[Main] = column \/ Main \in lost'
    BY <1>1, <1>3, <1>4 DEF FillWritten
  <2> QED  BY <1>1, <1>5
<1>8. NoneSkipped'
  <2>1. back[Enricher].step # "idle"  BY <1>1
  <2> QED  BY <1>1, <1>3, <1>4, <2>1 DEF FieldsInv, NoneSkipped
<1>9. back'[Enricher].upTo <= stamp /\ tag' \in [Copy -> AnyValue] /\ settled' \in [Copy -> Nat] /\ \A g \in Copy : settled'[g] <= stamp
  BY <1>1, <1>3, BackFacts
<1> QED  BY <1>1, <1>3, <1>6, <1>7, <1>8, <1>9, WriteBackStep

LEMMA SettleEnrichmentSafe ==
  ASSUME FieldsInv, NEW fails \in BOOLEAN, SettleEnrichmentWrite(fails)
  PROVE  FieldsInv'
<1> DEFINE f == back[Enricher].file
<1>1. /\ RowsLeft /\ tag' = tag /\ strayed' = strayed /\ lost' = lost /\ back[Enricher].step = "stamp"
      /\ settled' = settled \/ settled' = [settled EXCEPT ![f] = Max({settled[f], back[Enricher].upTo})]
      /\ Goes(Enricher, "next", Main, back[Enricher].left)
  BY DEF SettleEnrichmentWrite, RowsLeft, fileSide
<1>2. back[Enricher].left \in SUBSET Copy /\ f \in Copy /\ Main \in Copy /\ Enricher \in Writers /\ "next" \in Steps
  BY BackFacts, NameFacts DEF Steps
<1>3. back' \in [Writers -> WriteBacks] /\ back'[Enricher].step = "next" /\ back'[Enricher].upTo = back[Enricher].upTo
  BY <1>1, <1>2, GoesFacts
<1>4. Standing' = Standing /\ column' = column /\ row' = row /\ field' = field  BY <1>1 DEF RowsLeft, Standing
<1> HIDE DEF f
<1>5. /\ settled' \in [Copy -> Nat] /\ \A g \in Copy : settled'[g] <= stamp /\ (g # f => settled'[g] = settled[g])
      /\ settled'[f] \in {settled[f], back[Enricher].upTo}
  <2>1. CASE settled' = settled  BY <1>2, <2>1, BackFacts
  <2>2. CASE settled' = [settled EXCEPT ![f] = Max({settled[f], back[Enricher].upTo})]  BY <1>2, <2>2, RaisedStamp
  <2> QED  BY <1>1, <2>1, <2>2
<1>6. FillStands'
  <2> SUFFICES ASSUME field = "composer", Standing, row["composer"].at <= settled'[Main], Main \notin lost, Main \notin strayed
               PROVE  tag[Main] = column
    BY <1>1, <1>4 DEF FillStands
  <2>1. CASE f # Main  BY <1>1, <1>2, <1>5, <2>1 DEF FieldsInv, FillStands
  <2>2. CASE f = Main
    <3>1. row["composer"].at <= back[Enricher].upTo  BY <1>1, <1>5, <2>2 DEF FieldsInv, NoneSkipped
    <3> QED  BY <1>1, <2>2, <3>1 DEF FieldsInv, FillWritten, f
  <2> QED  BY <2>1, <2>2
<1>7. FillWritten'  BY <1>3 DEF FillWritten
<1>8. NoneSkipped'
  <2> SUFFICES ASSUME field = "composer", Standing, row["composer"].at <= settled'[Main]
               PROVE  row["composer"].at <= back[Enricher].upTo
    BY <1>3, <1>4 DEF NoneSkipped
  <2>1. settled'[Main] = settled[Main] \/ settled'[Main] = back[Enricher].upTo  BY <1>2, <1>5
  <2> QED  BY <1>1, <2>1 DEF FieldsInv, NoneSkipped
<1>9. back'[Enricher].upTo <= stamp /\ tag' \in [Copy -> AnyValue]  BY <1>1, <1>3, BackFacts
<1> QED  BY <1>1, <1>3, <1>5, <1>6, <1>7, <1>8, <1>9, WriteBackStep

LEMMA WriteBackEndsSafe ==
  ASSUME FieldsInv, NEW w \in Writers, WriteBackEnds(w)
  PROVE  FieldsInv'
<1>1. RowsLeft /\ tag' = tag /\ strayed' = strayed /\ settled' = settled /\ lost' = lost /\ back' = [back EXCEPT ![w] = Idle]
  BY DEF WriteBackEnds, RowsLeft, fileSide, enrichSide
<1>2. back \in [Writers -> WriteBacks] /\ Idle \in WriteBacks /\ Idle.step = "idle" /\ Idle.upTo = 0
  BY NameFacts DEF FieldsInv, FieldsTypeOK, Idle
<1>3. back' \in [Writers -> WriteBacks] /\ (back'[Enricher] = back[Enricher] \/ back'[Enricher] = Idle)  BY <1>1, <1>2, NameFacts
<1>4. Standing' = Standing /\ column' = column /\ row' = row /\ field' = field  BY <1>1 DEF RowsLeft, Standing
<1>5. FillStands' /\ FillWritten' /\ NoneSkipped'
  <2>1. FillStands'  BY <1>1, <1>4 DEF FieldsInv, FillStands
  <2>2. CASE back'[Enricher] = back[Enricher]  BY <1>1, <1>4, <2>1, <2>2 DEF FieldsInv, FillWritten, NoneSkipped
  <2>3. CASE back'[Enricher] = Idle  BY <1>2, <2>1, <2>3 DEF FillWritten, NoneSkipped
  <2> QED  BY <1>3, <2>2, <2>3
<1>6. back'[Enricher].upTo <= stamp
  <2>1. back[Enricher].upTo <= stamp /\ 0 <= stamp  BY BackFacts
  <2> QED  BY <1>2, <1>3, <2>1
<1>7. tag' \in [Copy -> AnyValue] /\ settled' \in [Copy -> Nat] /\ \A g \in Copy : settled'[g] <= stamp  BY <1>1, BackFacts
<1> QED  BY <1>1, <1>3, <1>5, <1>6, <1>7, WriteBackStep

LEMMA LaterFacts ==
  ASSUME stamp \in Nat, stamp' = stamp + 1
  PROVE  /\ stamp' \in Nat /\ (\A a \in Nat : a <= stamp => a <= stamp') /\ (\A a \in 1..stamp : a \in 1..stamp')
OBVIOUS

LEMMA RetagSafe ==
  ASSUME FieldsInv, NEW f \in Copy, NEW v \in Text \cup {""}, Retag(f, v)
  PROVE  FieldsInv'
<1>1. /\ UNCHANGED <<field, column, row, credited, back, settled, lost>>
      /\ tag' = [tag EXCEPT ![f] = v] /\ strayed' = strayed \cup {f}
  BY DEF Retag, enrichSide
<1>0. stamp' = stamp + 1 /\ stamp \in Nat  BY DEF Retag, Stamps, FieldsInv, FieldsTypeOK
<1>2. tag \in [Copy -> AnyValue] /\ v \in AnyValue /\ Main \in Copy
  BY NameFacts DEF FieldsInv, FieldsTypeOK, AnyValue
<1>3. FieldsTypeOK'
  <2>1. tag' \in [Copy -> AnyValue]  BY <1>1, <1>2
  <2>2. stamp' \in Nat  BY <1>0, LaterFacts
  <2> QED  BY <1>1, <2>1, <2>2 DEF FieldsInv, FieldsTypeOK, Spellings
<1>4. RowsShape' /\ RowsTell' /\ CreditTold' /\ StampsBehind'
  <2>1. RowsTell' /\ CreditTold'  BY <1>1 DEF FieldsInv, RowsTell, CreditTold, Spellings
  <2>2. RowsShape'
    <3>1. \A a \in 1..stamp : a \in 1..stamp'  BY <1>0, LaterFacts
    <3>2. Spellings' = Spellings /\ row' = row  BY <1>1 DEF Spellings
    <3> QED  BY <3>1, <3>2 DEF FieldsInv, RowsShape, Filled
  <2>3. StampsBehind'
    <3>1. \A a \in Nat : a <= stamp => a <= stamp'  BY <1>0, LaterFacts
    <3> QED  BY <1>1, <3>1, BackFacts, NameFacts DEF StampsBehind
  <2> QED  BY <2>1, <2>2, <2>3
<1>5. f = Main => Main \in strayed'  BY <1>1
<1>6. f # Main => tag'[Main] = tag[Main] /\ (Main \in strayed' <=> Main \in strayed)  BY <1>1, <1>2
<1>7. FillStands' /\ FillWritten' /\ NoneSkipped'
  BY <1>1, <1>5, <1>6 DEF FieldsInv, FillStands, FillWritten, NoneSkipped, Standing
<1> QED  BY <1>3, <1>4, <1>7 DEF FieldsInv

-----------------------------------------------------------------------------
LEMMA InitSafe == FieldsInit => FieldsInv
<1> SUFFICES ASSUME FieldsInit  PROVE FieldsInv  OBVIOUS
<1>1. /\ field \in {"composer", "title", "mood"} /\ credited = "" /\ stamp = 0 /\ row = [k \in Spellings |-> NoRow]
      /\ settled = [f \in Copy |-> 0] /\ back = [w \in Writers |-> Idle]
      /\ column = IF field = "title" /\ tag[Main] = "" THEN "stem" ELSE tag[Main]
  BY DEF FieldsInit
<1>2. tag \in [Copy -> AnyValue]  BY DEF FieldsInit, AnyValue
<1>3. NoRow.src = "none" /\ NoRow.value = Null /\ Idle.step = "idle" /\ Idle.upTo = 0  BY DEF NoRow, Idle
<1>4. column \in AnyValue  BY <1>1, <1>2, NameFacts DEF AnyValue
<1>5. FieldsTypeOK
  <2>1. credited \in AnyValue /\ stamp \in Nat  BY <1>1 DEF AnyValue
  <2>2. row \in [Spellings -> Rows] /\ back \in [Writers -> WriteBacks] /\ settled \in [Copy -> Nat]  BY <1>1, NameFacts
  <2> QED  BY <1>1, <1>2, <1>4, <2>1, <2>2 DEF FieldsTypeOK
<1>6. \A k \in Spellings : row[k] = NoRow  BY <1>1
<1>7. RowsShape /\ RowsTell /\ CreditTold  BY <1>1, <1>3, <1>6 DEF RowsShape, RowsTell, CreditTold, Filled
<1>8. StampsBehind
  <2>1. back[Enricher].upTo = 0  BY <1>1, <1>3, NameFacts
  <2>2. stamp = 0 /\ \A f \in Copy : settled[f] = 0  BY <1>1
  <2> QED  BY <2>1, <2>2 DEF StampsBehind
<1>9. ~(field = "composer" /\ Standing)  BY <1>3, <1>6, <1>1, SpellingFacts DEF Standing
<1>10. FillStands /\ FillWritten /\ NoneSkipped  BY <1>9 DEF FillStands, FillWritten, NoneSkipped
<1> QED  BY <1>5, <1>7, <1>8, <1>10 DEF FieldsInv

LEMMA StepSafe ==
  ASSUME FieldsInv, [FieldsNext]_fieldVars
  PROVE  FieldsInv'
<1>1. CASE \E w \in Editor, k \in Spellings, v \in Value, l \in {"on", "off", "unchanged"}, force, wb \in BOOLEAN :
             EditField(w, k, v, l, force, wb)
  BY <1>1, EditSafe
<1>2. CASE \E w \in Editor, v \in Value, l \in {"on", "off", "unchanged"}, force, wb \in BOOLEAN : SetItemTags(w, v, l, force, wb)
  BY <1>2, SetItemTagsSafe
<1>3. CASE UnlockField \/ \E k \in Spellings : LockField(k)  BY <1>3, LockSafe
<1>4. CASE \E v \in Text : Fill(v)  BY <1>4, FillSafe
<1>5. CASE \E f \in Copy, preserve \in BOOLEAN : ScanFileTags(f, preserve)  BY <1>5, ScanSafe
<1>6. CASE StartEnrichWrite  BY <1>6, StartEnrichWriteSafe
<1>7. CASE \E w \in Writers, f \in Copy : WriteTag(w, f)  BY <1>7, WriteTagSafe
<1>8. CASE \E w \in Writers, f \in Copy : WriteLosesValue(w, f) \/ \E u \in BOOLEAN : WriteFails(w, f, u)
  BY <1>8, WriteMissedSafe
<1>9. CASE \E w \in Writers, fails \in BOOLEAN : SettleTagWriteOwed(w, fails)  BY <1>9, SettleOwedSafe
<1>14. CASE \E fails \in BOOLEAN : NoteLoss(fails) \/ NoteLanded(fails)  BY <1>14, NoteSafe
<1>10. CASE \E fails \in BOOLEAN : SettleEnrichmentWrite(fails)  BY <1>10, SettleEnrichmentSafe
<1>11. CASE \E w \in Writers : WriteBackEnds(w)  BY <1>11, WriteBackEndsSafe
<1>12. CASE \E f \in Copy, v \in Text \cup {""} : Retag(f, v)  BY <1>12, RetagSafe
<1>13. CASE UNCHANGED fieldVars
  <2>1. FieldsTypeOK' /\ RowsShape' /\ RowsTell' /\ CreditTold'
    BY <1>13 DEF FieldsInv, FieldsTypeOK, RowsShape, RowsTell, CreditTold, Filled, Spellings, fieldVars
  <2>2. StampsBehind' /\ FillStands' /\ FillWritten' /\ NoneSkipped'
    BY <1>13 DEF FieldsInv, StampsBehind, FillStands, FillWritten, NoneSkipped, Standing, fieldVars
  <2> QED  BY <2>1, <2>2 DEF FieldsInv
<1> QED  BY <1>1, <1>2, <1>3, <1>4, <1>5, <1>6, <1>7, <1>8, <1>9, <1>10, <1>11, <1>12, <1>13, <1>14
  DEF FieldsNext, FieldsStep

\* The rows, the stamps and the files agree in every reachable state.
THEOREM FieldsInvariance == FieldsSpec => []FieldsInv
<1>1. FieldsInit => FieldsInv  BY InitSafe
<1>2. FieldsInv /\ [FieldsNext]_fieldVars => FieldsInv'  BY StepSafe
<1> QED  BY <1>1, <1>2, PTL DEF FieldsSpec

\* A provenance row tells the catalog's value, and a fill that is stamped as written
\* stands in the primary file.
THEOREM FieldsToldHolds == FieldsSpec => []FieldsTold
<1>1. FieldsInv => FieldsTold
  <2> SUFFICES ASSUME FieldsInv  PROVE FillsLand  BY DEF FieldsInv, FieldsTold
  <2> SUFFICES ASSUME NEW k \in Spellings, Filled(k), ~FieldLocked, row[k].at <= settled[Main], Main \notin lost, Main \notin strayed
               PROVE  tag[Main] = column
    BY DEF FillsLand
  <2>1. k = "composer" /\ field = "composer"
    BY SpellingFacts DEF FieldsInv, FieldsTypeOK, RowsShape
  <2> QED  BY <2>1 DEF FieldsInv, FillStands, Standing, Filled, FieldLocked
<1> QED  BY <1>1, FieldsInvariance, PTL

-----------------------------------------------------------------------------
\* Only a forced edit, an unlock or a scan told to ignore locks takes a lock or what it holds.
LEMMA StepHoldsLocks ==
  ASSUME FieldsInv, [FieldsNext]_fieldVars
  PROVE  LockHolds
<1> SUFFICES ASSUME \E k \in Spellings : row[k].locked, column' # column \/ ~\E k \in Spellings : row'[k].locked
             PROVE  LockHolds
  BY DEF LockHolds
<1>0. FieldLocked  BY DEF FieldLocked
<1>1. ASSUME NEW w \in Editor, NEW k \in Spellings, NEW v \in Value, NEW l \in {"on", "off", "unchanged"},
             NEW force \in BOOLEAN, NEW wb \in BOOLEAN, EditField(w, k, v, l, force, wb)
      PROVE  LockHolds
  <2>1. force = TRUE /\ ApplyItemEdit(k, "user", v, l) /\ stamp' = stamp + 1  BY <1>0, <1>1 DEF EditField, Stamps
  <2>2. v \in AnyValue  BY NameFacts
  <2>3. (l = "on" => row'[k].locked) /\ (l = "unchanged" => \E q \in Spellings : row'[q].locked)  BY <1>0, <2>1, <2>2, EditedRows
  <2>4. l = "off" \/ \E q \in Spellings : row'[q].locked  BY <2>3
  <2>5. EditField(w, k, v, l, TRUE, wb)  BY <1>1, <2>1
  <2> QED  BY <2>4, <2>5 DEF LockHolds
<1>2. ASSUME NEW w \in Editor, NEW v \in Value, NEW l \in {"on", "off", "unchanged"},
             NEW force \in BOOLEAN, NEW wb \in BOOLEAN, SetItemTags(w, v, l, force, wb)
      PROVE  LockHolds
  <2>1. force = TRUE  BY <1>0, <1>2 DEF SetItemTags
  <2>2. SetItemTags(w, v, l, TRUE, wb)  BY <1>2, <2>1
  <2> QED  BY <2>2 DEF LockHolds
<1>3. CASE UnlockField  BY <1>3 DEF LockHolds
<1>4. ASSUME NEW f \in Copy, NEW preserve \in BOOLEAN, ScanFileTags(f, preserve)  PROVE LockHolds
  <2>1. /\ preserve /\ FieldLocked => column' = column
        /\ \A k \in Spellings : row'[k].locked <=> row[k].locked
    BY <1>4, ScanRows
  <2>2. preserve = FALSE /\ \E k \in Spellings : row'[k].locked  BY <1>0, <2>1
  <2>3. ScanFileTags(f, FALSE)  BY <1>4, <2>2
  <2> QED  BY <2>2, <2>3 DEF LockHolds
<1>5. ~(\E k \in Spellings : LockField(k)) /\ ~(\E v \in Text : Fill(v))  BY <1>0 DEF LockField, Fill
<1>6. ~(row' = row /\ column' = column)  OBVIOUS
<1>7. ~StartEnrichWrite /\ ~(\E fails \in BOOLEAN : NoteLoss(fails) \/ NoteLanded(fails) \/ SettleEnrichmentWrite(fails))
      /\ ~UNCHANGED fieldVars
  BY <1>6 DEF StartEnrichWrite, NoteLoss, NoteLanded, SettleEnrichmentWrite, fieldVars
<1>8. /\ ~\E w \in Writers, fails \in BOOLEAN : SettleTagWriteOwed(w, fails)
      /\ ~\E w \in Writers : WriteBackEnds(w)
  BY <1>6 DEF SettleTagWriteOwed, WriteBackEnds
<1>9. ~\E w \in Writers, f \in Copy : WriteTag(w, f) \/ WriteLosesValue(w, f)  BY <1>6 DEF WriteTag, WriteLosesValue
<1>10. ~\E w \in Writers, f \in Copy, u \in BOOLEAN : WriteFails(w, f, u)  BY <1>6 DEF WriteFails
<1>11. ~\E f \in Copy, v \in Text \cup {""} : Retag(f, v)  BY <1>6 DEF Retag
<1> QED  BY <1>1, <1>2, <1>3, <1>4, <1>5, <1>7, <1>8, <1>9, <1>10, <1>11 DEF FieldsNext, FieldsStep

\* What a scan pays the file has, or no lock stood in its way, or no edit is left to pay.
LEMMA ScanPays ==
  ASSUME FieldsInv, NEW f \in Copy, NEW preserve \in BOOLEAN, ScanFileTags(f, preserve), NEW p \in owed \ owed'
  PROVE  \/ tag[p[1]] = column'
         \/ Scanned(p[1]) = column' /\ (~FieldLocked \/ ScanFileTags(p[1], FALSE))
         \/ \A k \in Spellings : row'[k].src # "user"
<1>1. CASE p \in PaidByScan(f, column', preserve)
  <2>1. p[1] = f /\ Scanned(f) = column' /\ ~(Derived(f) /\ preserve /\ FieldLocked)  BY <1>1 DEF PaidByScan
  <2>2. CASE ~Derived(f)  BY <2>1, <2>2 DEF Scanned
  <2>3. CASE ~preserve
    <3>1. ScanFileTags(p[1], FALSE)
      <4>1. preserve = FALSE  BY <2>3
      <4> QED  BY <2>1, <4>1
    <3> QED  BY <2>1, <3>1
  <2>4. CASE ~FieldLocked  BY <2>1, <2>4
  <2> QED  BY <2>1, <2>2, <2>3, <2>4
<1>2. CASE p \notin PaidByScan(f, column', preserve)
  <2>1. f = Main /\ field = "mood" /\ PutCustomTag(f, preserve) /\ column' # column
    <3>1. f # Main => owed' = owed \ PaidByScan(f, column', preserve)  BY DEF ScanFileTags, PutCopy
    <3>2. f = Main /\ field # "mood" => owed' = owed \ PaidByScan(f, column', preserve)  BY DEF ScanFileTags, PutField
    <3>3. f = Main /\ field = "mood" => PutCustomTag(f, preserve)  BY DEF ScanFileTags
    <3>4. PutCustomTag(f, preserve) /\ column' = column => owed' = owed \ PaidByScan(f, column', preserve)  BY DEF PutCustomTag
    <3> QED  BY <1>2, <3>1, <3>2, <3>3, <3>4
  <2>2. /\ column' = tag[f] /\ ~(preserve /\ FieldLocked) /\ column' \in AnyValue
        /\ row' = IF row["mood"].src \notin {"none", "tag"} /\ row["mood"].value # column' THEN Retired(preserve) ELSE row
    BY <2>1 DEF PutCustomTag, FieldsInv, FieldsTypeOK
  <2>3. Spellings = {"mood"}  BY <2>1, SpellingFacts
  <2>4. CASE row["mood"].src = "user"
    <3>1. row["mood"].value = column  BY <2>3, <2>4 DEF FieldsInv, RowsShape, RowsTell
    <3>2. row' = Retired(preserve)  BY <2>1, <2>2, <2>4, <3>1
    <3>3. ~(preserve /\ row["mood"].locked)  BY <2>2, <2>3 DEF FieldLocked
    <3>4. row'["mood"].src # "user"  BY <2>2, <2>3, <3>2, <3>3, RetiredRows
    <3> QED  BY <2>3, <3>4
  <2>5. CASE row["mood"].src # "user"
    <3>1. row'["mood"].src # "user"  BY <2>3, <2>5, ScanRows
    <3> QED  BY <2>3, <3>1
  <2> QED  BY <2>4, <2>5
<1> QED  BY <1>1, <1>2

\* What a write-back that nothing overtook carries is the catalog's, and stands where it landed.
WriteStands ==
  \A w \in Writers, f \in Copy : back[w].step # "idle" /\ <<w, f>> \notin overtaken =>
    /\ back[w].value = column
    /\ back[w].step = "written" /\ back[w].file = f => tag[f] = back[w].value

\* Where a write-back is after any step.
BackMoves(w) ==
  \/ back'[w] = back[w] \/ back'[w].step = "idle"
  \/ back'[w].step = "next" /\ back'[w].value = column' /\ back[w].step = "idle"
  \/ /\ back[w].step # "idle" /\ back'[w].value = back[w].value
     /\ back'[w].step = "written" => tag'[back'[w].file] = back[w].value

LEMMA EditMoves ==
  ASSUME FieldsInv, NEW w \in Editor, NEW k \in Spellings, NEW v \in Value, NEW wb \in BOOLEAN, back[w] = Idle, column' = v,
         back' = IF wb THEN [back EXCEPT ![w] = Begin(k, v)] ELSE back
  PROVE  \A x \in Writers : BackMoves(x)
<1>1. w \in Writers /\ back \in [Writers -> WriteBacks]  BY NameFacts DEF FieldsInv, FieldsTypeOK
<1>2. Begin(k, v).step = "next" /\ Begin(k, v).value = v /\ Idle.step = "idle"  BY DEF Begin, Idle
<1>3. CASE wb
  <2>1. back' = [back EXCEPT ![w] = Begin(k, v)]  BY <1>3
  <2>2. back'[w] = Begin(k, v) /\ \A x \in Writers : x # w => back'[x] = back[x]  BY <1>1, <2>1
  <2> QED  BY <1>2, <2>2 DEF BackMoves
<1>4. CASE ~wb  BY <1>4 DEF BackMoves
<1> QED  BY <1>3, <1>4

LEMMA GoesMoves ==
  ASSUME FieldsInv, NEW w \in Writers, NEW st \in Steps, NEW f \in Copy, NEW rest \in SUBSET Copy, Goes(w, st, f, rest),
         back[w].step # "idle", st = "written" => tag'[f] = back[w].value
  PROVE  \A x \in Writers : BackMoves(x)
<1> DEFINE new == [step |-> st, value |-> back[w].value, keys |-> back[w].keys, left |-> rest, file |-> f, upTo |-> back[w].upTo]
<1>1. new.step = st /\ new.value = back[w].value /\ new.file = f  OBVIOUS
<1>2. back' = [back EXCEPT ![w] = new] /\ back \in [Writers -> WriteBacks]  BY DEF Goes, FieldsInv, FieldsTypeOK
<1> HIDE DEF new
<1>3. back'[w] = new /\ \A x \in Writers : x # w => back'[x] = back[x]  BY <1>2
<1> QED  BY <1>1, <1>3 DEF BackMoves

LEMMA StepMoves ==
  ASSUME FieldsInv, FieldsStep
  PROVE  \A x \in Writers : BackMoves(x)
<1>1. ASSUME NEW w \in Editor, NEW k \in Spellings, NEW v \in Value, NEW l \in {"on", "off", "unchanged"},
             NEW force \in BOOLEAN, NEW wb \in BOOLEAN, EditField(w, k, v, l, force, wb)
      PROVE  \A x \in Writers : BackMoves(x)
  BY <1>1, EditMoves DEF EditField, ApplyItemEdit
<1>2. ASSUME NEW w \in Editor, NEW v \in Value, NEW l \in {"on", "off", "unchanged"},
             NEW force \in BOOLEAN, NEW wb \in BOOLEAN, SetItemTags(w, v, l, force, wb)
      PROVE  \A x \in Writers : BackMoves(x)
  <2>1. field \in Spellings  BY SpellingFacts DEF FieldsInv, FieldsTypeOK
  <2> QED  BY <1>2, <2>1, EditMoves DEF SetItemTags
<1>3. CASE back' = back  BY <1>3 DEF BackMoves
<1>4. ASSUME \/ UnlockField \/ \E k \in Spellings : LockField(k)
             \/ \E v \in Text : Fill(v)
             \/ \E f \in Copy, preserve \in BOOLEAN : ScanFileTags(f, preserve)
             \/ \E f \in Copy, v \in Text \cup {""} : Retag(f, v)
      PROVE  back' = back
  BY <1>4 DEF UnlockField, LockField, Fill, ScanFileTags, Retag
<1>5. CASE StartEnrichWrite
  <2> DEFINE held == {k \in Spellings : Filled(k) /\ ~row[k].locked}
             newest == Max({row[k].at : k \in held})
             new == [step |-> "next", value |-> column, keys |-> held \cap {"composer"},
                     left |-> {f \in Copy : newest > settled[f]}, file |-> Main, upTo |-> newest]
  <2>1. new.step = "next" /\ new.value = column  OBVIOUS
  <2>2. back' = [back EXCEPT ![Enricher] = new] /\ column' = column /\ back[Enricher] = Idle
    BY <1>5 DEF StartEnrichWrite
  <2>4. Idle.step = "idle"  BY DEF Idle
  <2> HIDE DEF new
  <2>3. back'[Enricher] = new /\ \A x \in Writers : x # Enricher => back'[x] = back[x]
    BY <2>2, NameFacts DEF FieldsInv, FieldsTypeOK
  <2> QED  BY <2>1, <2>2, <2>3, <2>4 DEF BackMoves
<1>6. ASSUME NEW w \in Writers, NEW f \in Copy, WriteTag(w, f)  PROVE \A x \in Writers : BackMoves(x)
  <2>1. Goes(w, "written", f, back[w].left \ {f}) /\ back[w].step = "next" /\ tag' = [tag EXCEPT ![f] = back[w].value]
    BY <1>6 DEF WriteTag, NextFile
  <2>2. back[w].left \ {f} \in SUBSET Copy /\ "written" \in Steps /\ tag'[f] = back[w].value
    BY <2>1, BackFacts DEF Steps
  <2> QED  BY <2>1, <2>2, GoesMoves
<1>7. ASSUME NEW w \in Writers, NEW f \in Copy, WriteLosesValue(w, f) \/ \E u \in BOOLEAN : WriteFails(w, f, u)
      PROVE  \A x \in Writers : BackMoves(x)
  <2>1. back[w].file \in Copy /\ back[w].left \ {f} \in SUBSET Copy /\ {"next", "lossy", "loss"} \subseteq Steps
    BY BackFacts DEF Steps
  <2>2. back[w].step = "next" /\ \E st \in {"next", "lossy", "loss"}, g \in Copy : Goes(w, st, g, back[w].left \ {f})
    BY <1>7, <2>1 DEF WriteLosesValue, WriteFails, NextFile
  <2>3. PICK st \in {"next", "lossy", "loss"} : \E g \in Copy : Goes(w, st, g, back[w].left \ {f})  BY <2>2
  <2>4. PICK g \in Copy : Goes(w, st, g, back[w].left \ {f})  BY <2>3
  <2> QED  BY <2>1, <2>2, <2>4, GoesMoves
<1>8. ASSUME NEW w \in Writers, NEW fails \in BOOLEAN, SettleTagWriteOwed(w, fails)  PROVE \A x \in Writers : BackMoves(x)
  <2>1. back[w].file \in Copy /\ Main \in Copy /\ back[w].left \in SUBSET Copy /\ {"next", "note", "loss"} \subseteq Steps
    BY BackFacts, NameFacts DEF Steps
  <2>2. back[w].step # "idle" /\ \E st \in {"next", "note", "loss"}, g \in Copy : Goes(w, st, g, back[w].left)
    BY <1>8, <2>1 DEF SettleTagWriteOwed
  <2>3. PICK st \in {"next", "note", "loss"} : \E g \in Copy : Goes(w, st, g, back[w].left)  BY <2>2
  <2>4. PICK g \in Copy : Goes(w, st, g, back[w].left)  BY <2>3
  <2> QED  BY <2>1, <2>2, <2>4, GoesMoves
<1>9. ASSUME NEW fails \in BOOLEAN, NoteLoss(fails) \/ NoteLanded(fails) \/ SettleEnrichmentWrite(fails)
      PROVE  \A x \in Writers : BackMoves(x)
  <2>1. /\ back[Enricher].file \in Copy /\ Main \in Copy /\ back[Enricher].left \in SUBSET Copy /\ Enricher \in Writers
        /\ {"next", "stamp"} \subseteq Steps
    BY BackFacts, NameFacts DEF Steps
  <2>2. back[Enricher].step # "idle" /\ \E st \in {"next", "stamp"}, g \in Copy : Goes(Enricher, st, g, back[Enricher].left)
    BY <1>9, <2>1 DEF NoteLoss, NoteLanded, SettleEnrichmentWrite
  <2>3. PICK st \in {"next", "stamp"} : \E g \in Copy : Goes(Enricher, st, g, back[Enricher].left)  BY <2>2
  <2>4. PICK g \in Copy : Goes(Enricher, st, g, back[Enricher].left)  BY <2>3
  <2> QED  BY <2>1, <2>2, <2>4, GoesMoves
<1>10. CASE \E w \in Writers : WriteBackEnds(w)
  <2>1. PICK w \in Writers : back' = [back EXCEPT ![w] = Idle]  BY <1>10 DEF WriteBackEnds
  <2>2. \A x \in Writers : back'[x] = back[x] \/ back'[x] = Idle  BY <2>1 DEF FieldsInv, FieldsTypeOK
  <2>3. Idle.step = "idle"  BY DEF Idle
  <2> QED  BY <2>2, <2>3 DEF BackMoves
<1> QED  BY <1>1, <1>2, <1>3, <1>4, <1>5, <1>6, <1>7, <1>8, <1>9, <1>10 DEF FieldsStep

LEMMA StepStands ==
  ASSUME FieldsInv, WriteStands, [FieldsNext]_fieldVars
  PROVE  WriteStands'
<1>1. CASE FieldsNext
  <2> SUFFICES ASSUME NEW w \in Writers, NEW f \in Copy, back'[w].step # "idle", <<w, f>> \notin overtaken'
               PROVE  /\ back'[w].value = column'
                      /\ back'[w].step = "written" /\ back'[w].file = f => tag'[f] = back'[w].value
    BY DEF WriteStands
  <2>1. BackMoves(w)  BY <1>1, StepMoves DEF FieldsNext
  <2>2. back[w].step # "idle" =>
          /\ <<w, f>> \notin overtaken /\ column' = column
          /\ back[w].step \notin {"idle", "next"} /\ back[w].file = f => tag'[f] = tag[f]
    BY <1>1 DEF FieldsNext, Overtakes, Overtaken
  <2>3. CASE back[w].step = "idle"  BY <2>1, <2>3 DEF BackMoves
  <2>4. CASE back[w].step # "idle"
    <3>1. /\ back[w].value = column' /\ (back[w].step = "written" /\ back[w].file = f => tag'[f] = back[w].value)
      BY <2>2, <2>4 DEF WriteStands
    <3> QED  BY <2>1, <2>4, <3>1 DEF BackMoves
  <2> QED  BY <2>3, <2>4
<1>2. CASE UNCHANGED fieldVars  BY <1>2 DEF WriteStands, fieldVars
<1> QED  BY <1>1, <1>2

\* An edit owed to a file is owed until it is there, is known to be lost or was overtaken.
LEMMA StepPaysOwed ==
  ASSUME FieldsInv, WriteStands, [FieldsNext]_fieldVars
  PROVE  OwedPaid
<1> SUFFICES ASSUME NEW p \in owed, p \notin owed'
             PROVE  \/ tag[p[1]] = column'
                    \/ Scanned(p[1]) = column' /\ (~FieldLocked \/ ScanFileTags(p[1], FALSE))
                    \/ \A k \in Spellings : row'[k].src # "user"
                    \/ \E w \in Writers : /\ SettleTagWriteOwed(w, FALSE) /\ p[1] = back[w].file
                                          /\ back[w].step = "lossy" \/ <<w, p[1]>> \in overtaken
  BY DEF OwedPaid
<1>1. ~(owed \subseteq owed')  OBVIOUS
<1>2. ~\E w \in Editor, k \in Spellings, v \in Value, l \in {"on", "off", "unchanged"}, force, wb \in BOOLEAN :
         EditField(w, k, v, l, force, wb)
  BY <1>1 DEF EditField, NoteOwed
<1>3. ~\E w \in Editor, v \in Value, l \in {"on", "off", "unchanged"}, force, wb \in BOOLEAN : SetItemTags(w, v, l, force, wb)
  BY <1>1 DEF SetItemTags, NoteOwed
<1>4. ~(UnlockField \/ (\E k \in Spellings : LockField(k)) \/ \E v \in Text : Fill(v))  BY <1>1 DEF UnlockField, LockField, Fill
<1>5. ~StartEnrichWrite /\ ~(\E fails \in BOOLEAN : NoteLoss(fails) \/ NoteLanded(fails) \/ SettleEnrichmentWrite(fails))
      /\ ~UNCHANGED fieldVars
  BY <1>1 DEF StartEnrichWrite, NoteLoss, NoteLanded, SettleEnrichmentWrite, fieldVars
<1>6. ~\E w \in Writers : WriteBackEnds(w)  BY <1>1 DEF WriteBackEnds
<1>7. ~\E w \in Writers, f \in Copy : WriteTag(w, f) \/ WriteLosesValue(w, f)  BY <1>1 DEF WriteTag, WriteLosesValue
<1>8. ~\E w \in Writers, f \in Copy, u \in BOOLEAN : WriteFails(w, f, u)  BY <1>1 DEF WriteFails
<1>9. ~\E f \in Copy, v \in Text \cup {""} : Retag(f, v)  BY <1>1 DEF Retag
<1>10. CASE \E f \in Copy, preserve \in BOOLEAN : ScanFileTags(f, preserve)  BY <1>10, ScanPays
<1>11. ASSUME NEW w \in Writers, NEW fails \in BOOLEAN, SettleTagWriteOwed(w, fails)
       PROVE  \/ tag[p[1]] = column'
              \/ /\ SettleTagWriteOwed(w, FALSE) /\ p[1] = back[w].file
                 /\ back[w].step = "lossy" \/ <<w, p[1]>> \in overtaken
  <2>1. fails = FALSE /\ p \in PaidByWrite(w)  BY <1>1, <1>11 DEF SettleTagWriteOwed
  <2>2. SettleTagWriteOwed(w, FALSE)  BY <1>11, <2>1
  <2>3. p[1] = back[w].file /\ p[1] \in Copy  BY <2>1, BackFacts DEF PaidByWrite
  <2>4. column' = column /\ back[w].step \in {"written", "lossy"}  BY <2>2 DEF SettleTagWriteOwed
  <2>5. back[w].step = "written" /\ <<w, p[1]>> \notin overtaken => tag[p[1]] = column
    BY <2>3 DEF WriteStands
  <2> QED  BY <2>2, <2>3, <2>4, <2>5
<1> QED  BY <1>2, <1>3, <1>4, <1>5, <1>6, <1>7, <1>8, <1>9, <1>10, <1>11 DEF FieldsNext, FieldsStep

\* A locked value stands until somebody forces it, and an owed edit is not forgotten, for any
\* files, editors and values.
THEOREM CurationKeptHolds == FieldsSpec => CurationKept
<1>1. FieldsInit => WriteStands
  <2>1. FieldsInit => back = [w \in Writers |-> Idle]  BY DEF FieldsInit
  <2>2. Idle.step = "idle"  BY DEF Idle
  <2> QED  BY <2>1, <2>2 DEF WriteStands
<1>2. FieldsInv /\ WriteStands /\ [FieldsNext]_fieldVars => WriteStands'  BY StepStands
<1>3. FieldsInv /\ WriteStands /\ [FieldsNext]_fieldVars => [LockHolds /\ OwedPaid]_fieldVars
  BY StepHoldsLocks, StepPaysOwed
<1> QED  BY <1>1, <1>2, <1>3, FieldsInvariance, PTL DEF FieldsSpec, CurationKept
-----------------------------------------------------------------------------

(***************************************************************************)
(* Enrichment.  EnrichInv says why a pass asks as it should: what a page   *)
(* and an answer on its way hold of the rows (NamedRight, OwedAreTame),    *)
(* and why no later sweep of the pass asks again for what was asked        *)
(* (FirstSweepOnce, PageUnasked, AskedQuiet, UnaskedQuiet).                *)
(***************************************************************************)
Marker == [matched : BOOLEAN, owed : BOOLEAN, age : Nat]
SweepLists == {<<"all">>, <<"fresh">>, <<"fresh", "deferred">>, <<"fresh", "retry">>, <<"fresh", "deferred", "retry">>}
Halves == {"front", "aux"}
Targets == [row : Row, due : [Phase -> 0..3], genres : BOOLEAN, named : BOOLEAN]

AnswerOK(a) ==
  /\ a.row \in Row /\ a.row <= pass.after /\ a.named \in BOOLEAN
  /\ IF Phase = {"identity"} THEN {a.found, a.failed, a.unasked} \subseteq BOOLEAN ELSE a.asked \subseteq Phase

\* The fields of a pass under way, and what they hold.
PassFields == {"sweeps", "n", "ph", "after", "page", "deferred", "how", "done", "fails", "out", "stalled", "browsed", "answer"}
PassShape(p) == p = [f \in PassFields |-> p[f]]
PassOK ==
  /\ PassShape(pass)
  /\ pass.sweeps \in SweepLists /\ pass.n \in 1..Len(pass.sweeps) /\ pass.ph \in 1..Len(Phases)
  /\ pass.how \in Nat /\ pass.after \in Nat /\ pass.deferred \in BOOLEAN
  /\ (pass.how = AllForced) <=> pass.sweeps = <<"all">>
  /\ pass.deferred <=> pass.sweeps \in {<<"fresh", "deferred">>, <<"fresh", "deferred", "retry">>}
  /\ pass.n > 1 /\ pass.how = pass.ph => pass.page = <<>> /\ pass.answer = NoAnswer
  /\ pass.page \in Seq(Targets)
  /\ \A k \in 1..Len(pass.page) : pass.page[k].row <= pass.after
  /\ \A j, k \in 1..Len(pass.page) : pass.page[j].row = pass.page[k].row => j = k
  /\ pass.answer = NoAnswer \/ AnswerOK(pass.answer)

EnrichTypeOK ==
  /\ table \in {"artist", "release_group", "album", "book", "track"}
  /\ entity \in [Row -> Nat] /\ mark \in [Lookup -> [Row -> Marker \cup {NoMark}]]
  /\ slot \in [Slot -> [Row -> {"open", "found", "hand"}]] /\ hands \in Nat
  /\ pass = NoPass \/ PassOK

Pending == pass.answer # NoAnswer

\* An art target or answer without an MBID is of a row that has none.
NamedRight ==
  pass # NoPass /\ Phase = Halves =>
    /\ \A k \in 1..Len(pass.page) : pass.page[k].named \/ slot["identity"][pass.page[k].row] = "open"
    /\ Pending => pass.answer.named \/ slot["identity"][pass.answer.row] = "open"

\* A marker that asking again leaves as old as it is.
Tame(k) == k = NoMark \/ ~k.owed \/ k.age = 0

TargetTame(t) ==
  \A l \in Phase : IF Phase = Halves THEN t.due[l] \in {1, 3} => Tame(mark[l][t.row])
                   ELSE ~OwedWalk => Tame(mark[l][t.row])
AnswerTame(a) ==
  IF Phase = {"identity"} THEN (OwedWalk => ~a.failed) /\ (~OwedWalk => Tame(mark["identity"][a.row]))
  ELSE \A l \in a.asked : l \in a.failed => Tame(mark[l][a.row])
OwedAreTame ==
  pass # NoPass /\ Sweep # "all" =>
    (\A k \in 1..Len(pass.page) : TargetTame(pass.page[k])) /\ (Pending => AnswerTame(pass.answer))

\* The lookup's phase has passed the row in this sweep.
Behind(l, r) == \A i \in 1..Len(Phases) : l \in Phases[i] => i < pass.ph \/ (i = pass.ph /\ r <= pass.after)
\* No sweep that is left asks for the lookup.
Quiet(l, r) ==
  \/ mark[l][r] = NoMark \/ mark[l][r].age = 0
  \/ l \in Halves /\ ~Vacant(l, r)
  \/ ~mark[l][r].owed /\ ~(RetryAfter > 0 /\ ~mark[l][r].matched /\ mark[l][r].age >= RetryAfter)
  \/ mark[l][r].owed /\ (pass.n > 2 \/ (pass.n = 2 /\ Behind(l, r)))
Forced(i) == pass.how = i \/ pass.how = AllForced

\* The lookup is one the target is asked about.
Due(t, l) == Phase # Halves \/ t.due[l] # 0

FirstSweepOnce ==
  pass # NoPass /\ pass.n = 1 => \A l \in Lookup, r \in Row : <<l, r>> \in asked => Behind(l, r)
PageUnasked ==
  pass # NoPass => \A k \in 1..Len(pass.page), l \in Phase :
                     Due(pass.page[k], l) => <<l, pass.page[k].row>> \notin asked
AskedQuiet ==
  pass # NoPass =>
    \A i \in 1..Len(Phases), r \in Row : \A l, h \in Phases[i] :
      <<l, r>> \in asked /\ ~Forced(i) /\ ~(Pending /\ pass.answer.row = r /\ i = pass.ph) => Quiet(h, r)
UnaskedQuiet ==
  pass # NoPass /\ ~Forced(pass.ph) =>
    /\ \A k \in 1..Len(pass.page), h \in Phase : ~Due(pass.page[k], h) => Quiet(h, pass.page[k].row)
    /\ Pending /\ Phase # {"identity"} => \A h \in Phase : h \notin pass.answer.asked => Quiet(h, pass.answer.row)

EnrichInv == /\ EnrichTypeOK /\ HeirsStartFresh /\ ArtAskedByName /\ NamedRight
             /\ OwedAreTame /\ FirstSweepOnce /\ PageUnasked /\ AskedQuiet /\ UnaskedQuiet
-----------------------------------------------------------------------------
\* The phases of a table: each lookup is of one.
LEMMA PhaseFacts ==
  ASSUME table \in {"artist", "release_group", "album", "book", "track"}
  PROVE  /\ Len(Phases) \in {2, 3}
         /\ \A i \in 1..Len(Phases) :
              /\ Phases[i] \in {{"identity"}, Halves, {"lyrics"}, {"fields"}}
              /\ Phases[i] = {"identity"} => table # "track"
              /\ Phases[i] = Halves => table \in {"artist", "release_group", "album"}
              /\ Phases[i] = {"lyrics"} => table = "track"
              /\ Phases[i] = {"fields"} => table \in {"album", "book", "track"}
         /\ \A i, j \in 1..Len(Phases) : \A l \in Phases[i] : l \in Phases[j] => i = j
         /\ \A i \in 1..Len(Phases) : Phases[i] \subseteq Lookup
<1>1. CASE table = "artist"
  <2>1. Phases = <<{"identity"}, Halves>>  BY <1>1 DEF Phases, PhasesOf, Halves
  <2> QED  BY <1>1, <2>1 DEF Halves, Lookup
<1>2. CASE table = "release_group"
  <2>1. Phases = <<{"identity"}, Halves>>  BY <1>2 DEF Phases, PhasesOf, Halves
  <2> QED  BY <1>2, <2>1 DEF Halves, Lookup
<1>3. CASE table = "album"
  <2>1. Phases = <<{"identity"}, Halves, {"fields"}>>  BY <1>3 DEF Phases, PhasesOf, Halves
  <2>2. Len(Phases) = 3 /\ 1..3 = {1, 2, 3} /\ Phases[1] = {"identity"} /\ Phases[2] = Halves /\ Phases[3] = {"fields"}
    BY <2>1
  <2> QED  BY <1>3, <2>2 DEF Halves, Lookup
<1>4. CASE table = "book"
  <2>1. Phases = <<{"identity"}, {"fields"}>>  BY <1>4 DEF Phases, PhasesOf, Halves
  <2> QED  BY <1>4, <2>1 DEF Halves, Lookup
<1>5. CASE table = "track"
  <2>1. Phases = <<{"lyrics"}, {"fields"}>>  BY <1>5 DEF Phases, PhasesOf, Halves
  <2> QED  BY <1>5, <2>1 DEF Halves, Lookup
<1> QED  BY <1>1, <1>2, <1>3, <1>4, <1>5

\* The sweeps of a pass, in their order.
LEMMA SweepFacts ==
  ASSUME PassOK
  PROVE  /\ pass.n \in {1, 2, 3} /\ Len(pass.sweeps) \in {1, 2, 3}
         /\ pass.n = 1 => pass.sweeps[pass.n] = IF pass.how = AllForced THEN "all" ELSE "fresh"
         /\ pass.n = 2 => pass.sweeps[pass.n] \in {"deferred", "retry"}
         /\ pass.n = 3 => pass.sweeps[pass.n] = "retry"
         /\ pass.how = AllForced => pass.n = 1 /\ Len(pass.sweeps) = 1
         /\ pass.sweeps[pass.n] = "deferred" => pass.deferred
         /\ pass # NoPass
<1>0. /\ pass.sweeps \in SweepLists /\ pass.n \in 1..Len(pass.sweeps)
      /\ (pass.how = AllForced) <=> pass.sweeps = <<"all">>
      /\ pass.deferred <=> pass.sweeps \in {<<"fresh", "deferred">>, <<"fresh", "deferred", "retry">>}
  BY DEF PassOK
<1>1. pass.sweeps # NoPass.sweeps  BY <1>0 DEF SweepLists, NoPass
<1> DEFINE sweeps == pass.sweeps  n == pass.n
<1> HIDE DEF sweeps, n
<1>2. /\ n \in {1, 2, 3} /\ Len(sweeps) \in {1, 2, 3}
      /\ n = 1 => sweeps[n] = IF sweeps = <<"all">> THEN "all" ELSE "fresh"
      /\ n = 2 => sweeps[n] \in {"deferred", "retry"}
      /\ n = 3 => sweeps[n] = "retry"
      /\ sweeps = <<"all">> => n = 1 /\ Len(sweeps) = 1
      /\ sweeps[n] = "deferred" => sweeps \in {<<"fresh", "deferred">>, <<"fresh", "deferred", "retry">>}
  <2>0. sweeps \in SweepLists /\ n \in 1..Len(sweeps)  BY <1>0 DEF sweeps, n
  <2>1. CASE sweeps = <<"all">>  BY <2>0, <2>1
  <2>2. CASE sweeps = <<"fresh">>  BY <2>0, <2>2
  <2>3. CASE sweeps = <<"fresh", "deferred">>
    <3>1. Len(sweeps) = 2 /\ sweeps[1] = "fresh" /\ sweeps[2] = "deferred" /\ sweeps # <<"all">> /\ n \in {1, 2}  BY <2>0, <2>3
    <3> QED  BY <2>3, <3>1
  <2>4. CASE sweeps = <<"fresh", "retry">>
    <3>1. Len(sweeps) = 2 /\ sweeps[1] = "fresh" /\ sweeps[2] = "retry" /\ sweeps # <<"all">> /\ n \in {1, 2}  BY <2>0, <2>4
    <3> QED  BY <2>4, <3>1
  <2>5. CASE sweeps = <<"fresh", "deferred", "retry">>
    <3>1. Len(sweeps) = 3 /\ sweeps[1] = "fresh" /\ sweeps[2] = "deferred" /\ sweeps[3] = "retry" /\ sweeps # <<"all">> /\ n \in {1, 2, 3}
      BY <2>0, <2>5
    <3> QED  BY <2>5, <3>1
  <2> QED  BY <2>0, <2>1, <2>2, <2>3, <2>4, <2>5 DEF SweepLists
<1> QED  BY <1>0, <1>1, <1>2 DEF sweeps, n

\* A page without its head.
LEMMA PageTail ==
  ASSUME NEW S, NEW s \in Seq(S), s # <<>>
  PROVE  /\ Tail(s) \in Seq(S) /\ Len(Tail(s)) = Len(s) - 1 /\ Len(s) \in Nat /\ Len(s) >= 1
         /\ Head(s) = s[1] /\ \A k \in 1..Len(Tail(s)) : Tail(s)[k] = s[k + 1] /\ k + 1 \in 1..Len(s)
  BY HeadTailProperties, EmptySeq

\* What a pass under way has.
LEMMA UnderWay ==
  ASSUME EnrichTypeOK, pass # NoPass
  PROVE  /\ PassOK
         /\ Phase \in {{"identity"}, Halves, {"lyrics"}, {"fields"}} /\ Phase \subseteq Lookup /\ Phase = Phases[pass.ph]
         /\ pass.ph \in 1..Len(Phases) /\ Len(Phases) \in {2, 3} /\ pass.ph \in Nat /\ pass.after \in Nat
         /\ \A k \in 1..Len(pass.page) : /\ pass.page[k] \in Targets /\ pass.page[k].row \in Row
                                         /\ pass.page[k].due \in [Phase -> 0..3] /\ pass.page[k].named \in BOOLEAN
         /\ Pending => pass.answer.row \in Row /\ AnswerOK(pass.answer)
<1>1. PassOK  BY DEF EnrichTypeOK
<1>2. pass.ph \in 1..Len(Phases) /\ Len(Phases) \in {2, 3}  BY <1>1, PhaseFacts DEF PassOK, EnrichTypeOK
<1>3. Phase \in {{"identity"}, Halves, {"lyrics"}, {"fields"}} /\ Phase \subseteq Lookup
  BY <1>2, PhaseFacts DEF Phase, EnrichTypeOK
<1>4. pass.page \in Seq(Targets) /\ pass.after \in Nat  BY <1>1 DEF PassOK
<1>5. ASSUME NEW k \in 1..Len(pass.page)
      PROVE  /\ pass.page[k] \in Targets /\ pass.page[k].row \in Row
             /\ pass.page[k].due \in [Phase -> 0..3] /\ pass.page[k].named \in BOOLEAN
  <2>1. pass.page[k] \in Targets  BY <1>4
  <2> QED  BY <2>1 DEF Targets
<1>6. Pending => pass.answer.row \in Row /\ AnswerOK(pass.answer)  BY <1>1 DEF PassOK, Pending, AnswerOK
<1> QED  BY <1>1, <1>2, <1>3, <1>4, <1>5, <1>6 DEF Phase

\* The places of a finite set of numbers: the map to them is one to one, and so onto.
LEMMA Ranks ==
  ASSUME NEW S, S \subseteq Nat, IsFiniteSet(S)
  PROVE  /\ Cardinality(S) \in Nat
         /\ \A k \in 1..Cardinality(S) : \E r \in S : Cardinality({x \in S : x <= r}) = k
<1> DEFINE n == Cardinality(S)
           upTo(r) == {x \in S : x <= r}
           rank == [r \in S |-> Cardinality(upTo(r))]
<1>1. n \in Nat /\ IsFiniteSet(1..n) /\ Cardinality(1..n) = n
  <2>1. n \in Nat  BY FS_CardinalityType
  <2>2. IsFiniteSet(1..n) /\ Cardinality(1..n) = (IF 1 > n THEN 0 ELSE n - 1 + 1)  BY <2>1, FS_Interval
  <2> QED  BY <2>1, <2>2
<1>2. ASSUME NEW r \in S  PROVE IsFiniteSet(upTo(r)) /\ Cardinality(upTo(r)) \in 1..n
  <2>1. upTo(r) \in SUBSET S /\ r \in upTo(r)  OBVIOUS
  <2> HIDE DEF upTo
  <2>2. IsFiniteSet(upTo(r)) /\ Cardinality(upTo(r)) <= n  BY <2>1, FS_Subset
  <2>3. Cardinality(upTo(r)) \in Nat /\ Cardinality(upTo(r)) # 0  BY <2>1, <2>2, FS_CardinalityType, FS_EmptySet
  <2> QED  BY <1>1, <2>2, <2>3
<1>3. ASSUME NEW a \in S, NEW b \in S, a < b  PROVE rank[a] # rank[b]
  <2>0. a \in Nat /\ b \in Nat /\ \A x \in S : x \in Nat  OBVIOUS
  <2>1. upTo(a) \in SUBSET upTo(b) /\ b \in upTo(b) /\ b \notin upTo(a)
    <3>1. \A x \in S : x <= a => x <= b  BY <1>3, <2>0
    <3>2. b <= b /\ ~(b <= a)  BY <1>3, <2>0
    <3> QED  BY <3>1, <3>2
  <2>2. IsFiniteSet(upTo(b))  BY <1>2
  <2> HIDE DEF upTo
  <2>3. Cardinality(upTo(a)) # Cardinality(upTo(b))  BY <2>1, <2>2, FS_Subset
  <2> QED  BY <2>3
<1>4. \A a, b \in S : rank[a] = rank[b] => a = b
  <2> TAKE a, b \in S
  <2>1. a \in Nat /\ b \in Nat  OBVIOUS
  <2> QED  BY <1>3, <2>1
<1>5. rank \in [S -> 1..n]  BY <1>2
<1> HIDE DEF rank, n
<1>6. rank \in Injection(S, 1..n)  BY <1>4, <1>5, FS_Injection DEF Injection, IsInjective
<1>7. rank \in Surjection(S, 1..n)  BY <1>1, <1>6, FS_Injection DEF n
<1>8. \A k \in 1..n : \E r \in S : rank[r] = k  BY <1>7 DEF Surjection
<1> QED  BY <1>1, <1>8 DEF n, rank

\* The rows of a page, in order.
LEMMA NthFacts ==
  ASSUME NEW rows, rows \subseteq Row, rows # {}
  PROVE  LET n == Cardinality(rows) IN
         /\ n \in Nat \ {0} /\ \A k \in 1..n : Nth(rows, k) \in rows /\ Nth(rows, k) <= Nth(rows, n)
         /\ \A j, k \in 1..n : Nth(rows, j) = Nth(rows, k) => j = k
<1> DEFINE n == Cardinality(rows)  upTo(r) == {x \in rows : x <= r}
<1>1. IsFiniteSet(rows) /\ rows \subseteq Nat  BY EnrichAssumption, FS_Subset
<1>2. n \in Nat \ {0} /\ n \in 1..n
  <2>1. n \in Nat /\ n # 0  BY <1>1, FS_CardinalityType, FS_EmptySet
  <2> QED  BY <2>1
<1>3. ASSUME NEW k \in 1..n  PROVE Nth(rows, k) \in rows /\ Cardinality(upTo(Nth(rows, k))) = k
  <2>1. \E r \in rows : Cardinality({x \in rows : x <= r}) = k  BY <1>1, Ranks
  <2> QED  BY <2>1 DEF Nth
<1>4. upTo(Nth(rows, n)) = rows
  <2>1. upTo(Nth(rows, n)) \in SUBSET rows /\ Cardinality(upTo(Nth(rows, n))) = n  BY <1>2, <1>3
  <2> HIDE DEF upTo
  <2> QED  BY <1>1, <2>1, FS_Subset
<1>5. ASSUME NEW k \in 1..n  PROVE Nth(rows, k) <= Nth(rows, n)  BY <1>3, <1>4
<1> QED  BY <1>2, <1>3, <1>5

-----------------------------------------------------------------------------
\* A step outside the pass forgets markers and histories, and empties no art slot whose
\* marker it leaves.
LEMMA OutsideStep ==
  ASSUME EnrichInv, table' = table, pass' = pass, asked' \subseteq asked, unnamed' \subseteq unnamed,
         EnrichTypeOK', HeirsStartFresh',
         \A l \in Lookup, r \in Row : mark'[l][r] = mark[l][r] \/ mark'[l][r] = NoMark,
         \A l \in Halves, r \in Row : slot[l][r] # "open" /\ slot'[l][r] = "open" => mark'[l][r] = NoMark,
         \A r \in Row : slot'["identity"][r] = slot["identity"][r] \/ slot'["identity"][r] = "open"
  PROVE  EnrichInv'
<1>1. Phases' = Phases /\ Phase' = Phase /\ Sweep' = Sweep /\ OwedWalk' = OwedWalk /\ Pending' = Pending
  BY DEF Phases, Phase, Sweep, ForcingPhase, OwedWalk, Pending
<1>2. \A l \in Lookup, r \in Row : Tame(mark[l][r]) => Tame(mark'[l][r])  BY DEF Tame
<1>3. ASSUME NEW l \in Lookup, NEW r \in Row, Quiet(l, r)  PROVE Quiet(l, r)'
  <2>1. CASE mark'[l][r] = NoMark  BY <2>1 DEF Quiet
  <2>2. CASE mark'[l][r] = mark[l][r] /\ mark'[l][r] # NoMark
    <3>1. l \in Halves /\ ~Vacant(l, r) => l \in Halves /\ ~Vacant(l, r)'  BY <2>2 DEF Vacant
    <3>2. Behind(l, r)' <=> Behind(l, r)  BY <1>1 DEF Behind
    <3> QED  BY <1>3, <2>2, <3>1, <3>2 DEF Quiet
  <2> QED  BY <2>1, <2>2
<1>4. EnrichTypeOK /\ (pass # NoPass => PassOK)  BY DEF EnrichInv, EnrichTypeOK
<1>5. ArtAskedByName'
  BY DEF EnrichInv, ArtAskedByName, Lookup
<1>6. NamedRight'
  BY <1>1, <1>4, UnderWay DEF EnrichInv, NamedRight
<1>7. OwedAreTame'
  <2> SUFFICES ASSUME pass # NoPass, Sweep # "all"
               PROVE  /\ \A k \in 1..Len(pass.page) : TargetTame(pass.page[k])'
                      /\ Pending => AnswerTame(pass.answer)'
    BY <1>1 DEF OwedAreTame
  <2>1. ASSUME NEW k \in 1..Len(pass.page)  PROVE TargetTame(pass.page[k])'
    <3>1. TargetTame(pass.page[k])  BY DEF EnrichInv, OwedAreTame
    <3> QED  BY <1>1, <1>2, <1>4, <3>1, UnderWay DEF TargetTame
  <2>2. ASSUME Pending  PROVE AnswerTame(pass.answer)'
    <3>1. AnswerTame(pass.answer)  BY <2>2 DEF EnrichInv, OwedAreTame
    <3>2. pass.answer.row \in Row /\ (Phase # {"identity"} => pass.answer.asked \subseteq Lookup)
      BY <1>4, <2>2, UnderWay DEF AnswerOK
    <3> QED  BY <1>1, <1>2, <3>1, <3>2 DEF AnswerTame, Lookup
  <2> QED  BY <2>1, <2>2
<1>8. FirstSweepOnce'
  <2>1. \A l, r : Behind(l, r)' <=> Behind(l, r)  BY <1>1 DEF Behind
  <2> QED  BY <2>1 DEF EnrichInv, FirstSweepOnce
<1>9. PageUnasked'  BY <1>1 DEF EnrichInv, PageUnasked, Due
<1>10. AskedQuiet'
  <2> SUFFICES ASSUME pass # NoPass, NEW i \in 1..Len(Phases), NEW r \in Row, NEW l \in Phases[i], NEW h \in Phases[i],
                      <<l, r>> \in asked', ~Forced(i), ~(Pending /\ pass.answer.row = r /\ i = pass.ph)
               PROVE  Quiet(h, r)'
    BY <1>1 DEF AskedQuiet, Forced
  <2>1. Quiet(h, r)  BY DEF EnrichInv, AskedQuiet
  <2>2. h \in Lookup  BY <1>4, PhaseFacts DEF EnrichTypeOK
  <2> QED  BY <1>3, <2>1, <2>2
<1>11. UnaskedQuiet'
  <2> SUFFICES ASSUME pass # NoPass, ~Forced(pass.ph)
               PROVE  /\ \A k \in 1..Len(pass.page), h \in Phase : ~Due(pass.page[k], h) => Quiet(h, pass.page[k].row)'
                      /\ Pending /\ Phase # {"identity"} =>
                           \A h \in Phase : h \notin pass.answer.asked => Quiet(h, pass.answer.row)'
    BY <1>1 DEF UnaskedQuiet, Forced, Due
  <2>1. Phase \subseteq Lookup  BY <1>4, UnderWay
  <2> QED  BY <1>3, <1>4, <2>1, UnderWay DEF EnrichInv, UnaskedQuiet
<1> QED  BY <1>5, <1>6, <1>7, <1>8, <1>9, <1>10, <1>11 DEF EnrichInv
-----------------------------------------------------------------------------
\* A step of the pass alone keeps what rows and markers say of each other.
LEMMA PassAlone ==
  ASSUME EnrichInv, UNCHANGED <<table, entity, mark, slot, unnamed, hands>>, pass' = NoPass \/ PassOK'
  PROVE  /\ EnrichTypeOK' /\ HeirsStartFresh' /\ ArtAskedByName' /\ Phases' = Phases
         /\ HandsWin /\ OwedNotRenewed
<1>1. EnrichTypeOK /\ HeirsStartFresh /\ ArtAskedByName  BY DEF EnrichInv
<1>2. EnrichTypeOK'
  <2>1. pass' = NoPass' \/ PassOK'  BY DEF NoPass
  <2> QED  BY <1>1, <2>1 DEF EnrichTypeOK, Marker, NoMark
<1>3. HeirsStartFresh' /\ ArtAskedByName'  BY <1>1 DEF HeirsStartFresh, ArtAskedByName
<1>4. HandsWin  BY DEF HandsWin
<1>5. OwedNotRenewed
  <2>1. \A l \in Lookup, r \in Row : mark[l][r] \in Marker \cup {NoMark}  BY <1>1 DEF EnrichTypeOK
  <2> QED  BY <2>1 DEF OwedNotRenewed, Marker, NoMark
<1> QED  BY <1>2, <1>3, <1>4, <1>5 DEF Phases

\* With no pass nothing is claimed of it.
LEMMA NoPassClaims ==
  ASSUME pass' = NoPass
  PROVE  /\ NamedRight' /\ OwedAreTame' /\ FirstSweepOnce' /\ PageUnasked' /\ AskedQuiet' /\ UnaskedQuiet' /\ AskedOnce
BY DEF NamedRight, OwedAreTame, FirstSweepOnce, PageUnasked, AskedQuiet, UnaskedQuiet, AskedOnce, NoPass

\* A pass that ends, wherever it was.
LEMMA EndPassSafe ==
  ASSUME EnrichInv, EndPass
  PROVE  EnrichInv' /\ HandsWin /\ AskedOnce /\ OwedNotRenewed
BY PassAlone, NoPassClaims DEF EndPass, EnrichInv

\* Markers that grow old or are settled stay markers.
LEMMA OlderFacts ==
  ASSUME NEW marks \in [Lookup -> [Row -> Marker \cup {NoMark}]]
  PROVE  /\ Older(marks) \in [Lookup -> [Row -> Marker \cup {NoMark}]]
         /\ Expired(marks) \in [Lookup -> [Row -> Marker \cup {NoMark}]]
         /\ \A l \in Lookup, r \in Row : /\ Older(marks)[l][r] = NoMark <=> marks[l][r] = NoMark
                                         /\ Expired(marks)[l][r] = NoMark <=> marks[l][r] = NoMark
<1> DEFINE older(k) == IF k = NoMark THEN NoMark ELSE [k EXCEPT !.age = IF @ < Oldest THEN @ + 1 ELSE @]
           expired(k) == IF k # NoMark /\ k.owed /\ k.age >= OwedWindow THEN [k EXCEPT !.owed = FALSE] ELSE k
<1>1. ASSUME NEW k \in Marker \cup {NoMark}
      PROVE  /\ older(k) \in Marker \cup {NoMark} /\ (older(k) = NoMark <=> k = NoMark)
             /\ expired(k) \in Marker \cup {NoMark} /\ (expired(k) = NoMark <=> k = NoMark)
  <2>1. CASE k = NoMark  BY <2>1
  <2>2. CASE k \in Marker
    <3>1. \A m \in Marker : m # NoMark  BY DEF Marker, NoMark
    <3>2. [k EXCEPT !.age = IF @ < Oldest THEN @ + 1 ELSE @] \in Marker
      <4>1. k.age \in Nat /\ (IF k.age < Oldest THEN k.age + 1 ELSE k.age) \in Nat  BY <2>2 DEF Marker
      <4> QED  BY <2>2, <4>1 DEF Marker
    <3>3. [k EXCEPT !.owed = FALSE] \in Marker  BY <2>2 DEF Marker
    <3> QED  BY <2>2, <3>1, <3>2, <3>3
  <2> QED  BY <2>1, <2>2
<1>2. \A l \in Lookup, r \in Row : marks[l][r] \in Marker \cup {NoMark}  OBVIOUS
<1>3. Older(marks) = [l \in Lookup |-> [r \in Row |-> older(marks[l][r])]]  BY DEF Older
<1>4. Expired(marks) = [l \in Lookup |-> [r \in Row |-> expired(marks[l][r])]]  BY DEF Expired
<1> HIDE DEF older, expired
<1> QED  BY <1>1, <1>2, <1>3, <1>4

\* The lists of sweeps, put together.
LEMMA Joined ==
  ASSUME NEW a, NEW b, NEW c
  PROVE  /\ <<a>> \o <<b>> = <<a, b>> /\ <<a, b>> \o <<c>> = <<a, b, c>>
         /\ <<a>> \o <<>> = <<a>> /\ <<a, b>> \o <<>> = <<a, b>>
<1> DEFINE S == {a, b, c}
<1>1. /\ <<a>> \in Seq(S) /\ <<b>> \in Seq(S) /\ <<c>> \in Seq(S) /\ <<a, b>> \in Seq(S)
      /\ Len(<<a>>) = 1 /\ Len(<<b>>) = 1 /\ Len(<<c>>) = 1 /\ Len(<<a, b>>) = 2
  OBVIOUS
<1>2. <<a>> \o <<b>> = <<a, b>>
  <2> DEFINE q == <<a>> \o <<b>>
  <2>1. Len(q) = 2 /\ q \in Seq(S) /\ \A i \in 1..2 : q[i] = IF i <= 1 THEN <<a>>[i] ELSE <<b>>[i - 1]  BY <1>1, ConcatProperties
  <2> HIDE DEF q
  <2>2. q[1] = a /\ q[2] = b  BY <2>1
  <2>3. q = <<a, b>>  BY <2>1, <2>2
  <2> QED  BY <2>3 DEF q
<1>3. <<a, b>> \o <<c>> = <<a, b, c>>
  <2> DEFINE q == <<a, b>> \o <<c>>
  <2>1. Len(q) = 3 /\ q \in Seq(S) /\ \A i \in 1..3 : q[i] = IF i <= 2 THEN <<a, b>>[i] ELSE <<c>>[i - 2]  BY <1>1, ConcatProperties
  <2> HIDE DEF q
  <2>2. q[1] = a /\ q[2] = b /\ q[3] = c  BY <2>1
  <2>3. q = <<a, b, c>>  BY <2>1, <2>2
  <2> QED  BY <2>3 DEF q
<1>4. <<a>> \o <<>> = <<a>> /\ <<a, b>> \o <<>> = <<a, b>>  BY <1>1, ConcatEmptySeq
<1> QED  BY <1>2, <1>3, <1>4

\* A pass that starts, with its sweeps.
LEMMA StartPassSafe ==
  ASSUME EnrichInv, NEW how \in Nat, StartPass(how)
  PROVE  EnrichInv' /\ HandsWin /\ AskedOnce /\ OwedNotRenewed
<1> DEFINE older == Older(mark)
           aged == IF how # AllForced /\ SomeOwed(older) THEN Expired(older) ELSE older
           late == SomeOwed(aged)
           missed == ExpiredMissesExist(aged)
           sweeps == IF how = AllForced THEN <<"all">>
                     ELSE <<"fresh">> \o (IF late THEN <<"deferred">> ELSE <<>>) \o (IF missed THEN <<"retry">> ELSE <<>>)
<1>0. /\ pass = NoPass /\ mark' = aged /\ asked' = {} /\ UNCHANGED <<table, entity, slot, unnamed, hands>>
      /\ pass' = [sweeps |-> sweeps, n |-> 1, ph |-> 1, after |-> 0, page |-> <<>>,
                  deferred |-> how # AllForced /\ late, how |-> how, done |-> 0,
                  fails |-> [p \in ToSet(Providers) |-> 0], out |-> {}, stalled |-> {},
                  browsed |-> "no", answer |-> NoAnswer]
  BY DEF StartPass
<1>t. EnrichTypeOK /\ HeirsStartFresh /\ ArtAskedByName  BY DEF EnrichInv
<1>1. /\ aged \in [Lookup -> [Row -> Marker \cup {NoMark}]]
      /\ \A l \in Lookup, r \in Row : aged[l][r] = NoMark <=> mark[l][r] = NoMark
  <2>1. mark \in [Lookup -> [Row -> Marker \cup {NoMark}]]  BY <1>t DEF EnrichTypeOK
  <2>2. older \in [Lookup -> [Row -> Marker \cup {NoMark}]]
        /\ \A l \in Lookup, r \in Row : older[l][r] = NoMark <=> mark[l][r] = NoMark
    BY <2>1, OlderFacts
  <2>3. Expired(older) \in [Lookup -> [Row -> Marker \cup {NoMark}]]
        /\ \A l \in Lookup, r \in Row : Expired(older)[l][r] = NoMark <=> mark[l][r] = NoMark
    BY <2>2, OlderFacts
  <2> QED  BY <2>2, <2>3
<1> HIDE DEF aged
<1>2. /\ sweeps \in SweepLists /\ 1 \in 1..Len(sweeps) /\ (how = AllForced <=> sweeps = <<"all">>)
      /\ (how # AllForced /\ late) <=> sweeps \in {<<"fresh", "deferred">>, <<"fresh", "deferred", "retry">>}
  <2>1. CASE how = AllForced
    <3>1. sweeps = <<"all">>  BY <2>1
    <3> HIDE DEF sweeps
    <3> QED  BY <2>1, <3>1 DEF SweepLists
  <2>2. CASE how # AllForced /\ late /\ missed
    <3>1. sweeps = <<"fresh", "deferred", "retry">>  BY <2>2, Joined
    <3> HIDE DEF sweeps
    <3> QED  BY <2>2, <3>1 DEF SweepLists
  <2>3. CASE how # AllForced /\ late /\ ~missed
    <3>1. sweeps = <<"fresh", "deferred">>  BY <2>3, Joined
    <3> HIDE DEF sweeps
    <3> QED  BY <2>3, <3>1 DEF SweepLists
  <2>4. CASE how # AllForced /\ ~late /\ missed
    <3>1. sweeps = <<"fresh", "retry">>  BY <2>4, Joined
    <3> HIDE DEF sweeps
    <3> QED  BY <2>4, <3>1 DEF SweepLists
  <2>5. CASE how # AllForced /\ ~late /\ ~missed
    <3>1. sweeps = <<"fresh">>  BY <2>5, Joined
    <3> HIDE DEF sweeps
    <3> QED  BY <2>5, <3>1 DEF SweepLists
  <2> QED  BY <2>1, <2>2, <2>3, <2>4, <2>5
<1> HIDE DEF sweeps, late
<1>3. /\ PassShape(pass') /\ pass'.sweeps = sweeps /\ pass'.n = 1 /\ pass'.ph = 1 /\ pass'.after = 0 /\ pass'.page = <<>>
      /\ pass'.deferred = (how # AllForced /\ late) /\ pass'.how = how /\ pass'.answer = NoAnswer
  BY <1>0 DEF PassShape, PassFields
<1>n. UNCHANGED <<table, entity, slot, unnamed, hands>> /\ mark' = aged /\ asked' = {} /\ pass = NoPass  BY <1>0
<1>4. Phases' = Phases /\ 1 \in 1..Len(Phases)
  <2>1. Phases' = Phases  BY <1>n DEF Phases
  <2>2. Len(Phases) \in {2, 3}  BY <1>t, PhaseFacts DEF EnrichTypeOK
  <2>3. 1 \in 1..Len(Phases)  BY <2>2
  <2> QED  BY <2>1, <2>3
<1>5. PassOK'
  <2>1. <<>> \in Seq(Targets') /\ Len(<<>>) = 0 /\ 1..0 = {}  OBVIOUS
  <2>2. /\ PassShape(pass') /\ pass'.sweeps \in SweepLists /\ pass'.n \in 1..Len(pass'.sweeps) /\ pass'.ph \in 1..Len(Phases')
        /\ pass'.how \in Nat /\ pass'.after \in Nat /\ ~(pass'.n > 1)
    BY <1>2, <1>3, <1>4
  <2>3. /\ (pass'.how = AllForced) <=> pass'.sweeps = <<"all">>
        /\ pass'.deferred \in BOOLEAN
        /\ pass'.deferred <=> pass'.sweeps \in {<<"fresh", "deferred">>, <<"fresh", "deferred", "retry">>}
    BY <1>2, <1>3
  <2>4. pass'.page \in Seq(Targets') /\ 1..Len(pass'.page) = {} /\ pass'.answer = NoAnswer  BY <1>3, <2>1
  <2> QED  BY <2>2, <2>3, <2>4 DEF PassOK
<1>6. EnrichTypeOK' /\ HeirsStartFresh' /\ ArtAskedByName'
  <2>1. EnrichTypeOK'  BY <1>n, <1>t, <1>1, <1>5 DEF EnrichTypeOK, Marker, NoMark
  <2>2. HeirsStartFresh'  BY <1>n, <1>t, <1>1 DEF HeirsStartFresh, NoMark
  <2>3. ArtAskedByName'
    <3>1. {"front", "aux"} \subseteq Lookup  BY DEF Lookup
    <3> QED  BY <1>n, <1>t, <1>1, <3>1 DEF ArtAskedByName, NoMark
  <2> QED  BY <2>1, <2>2, <2>3
<1>7. NamedRight' /\ OwedAreTame' /\ FirstSweepOnce' /\ PageUnasked' /\ AskedQuiet' /\ UnaskedQuiet'
  <2>1. 1..Len(pass'.page) = {} /\ ~Pending'  BY <1>3 DEF Pending, NoAnswer
  <2> QED  BY <1>n, <2>1 DEF NamedRight, OwedAreTame, FirstSweepOnce, PageUnasked, AskedQuiet, UnaskedQuiet
<1>8. HandsWin /\ AskedOnce /\ OwedNotRenewed  BY <1>n DEF HandsWin, AskedOnce, OwedNotRenewed
<1> QED  BY <1>6, <1>7, <1>8 DEF EnrichInv
-----------------------------------------------------------------------------
\* What the queue of a phase holds.
LEMMA QueueFacts ==
  ASSUME EnrichTypeOK, pass # NoPass, NEW sweep, NEW r \in QueueOf(Phase, sweep)
  PROVE  /\ r \in Row
         /\ Phase # Halves => \A l \in Phase : IsDue(l, r, sweep)
         /\ Phase = Halves => \E h \in Halves : Vacant(h, r) /\ IsDue(h, r, sweep)
<1>1. /\ Phase = Phases[pass.ph] /\ pass.ph \in 1..Len(Phases) /\ table \in {"artist", "release_group", "album", "book", "track"}
      /\ Phase \in {{"identity"}, Halves, {"lyrics"}, {"fields"}}
  BY UnderWay DEF EnrichTypeOK
<1>2. CASE Phase = {"identity"}
  <2>1. table \in {"artist", "release_group", "album", "book"} /\ Phase # Halves  BY <1>1, <1>2, PhaseFacts DEF Halves
  <2>2. r \in Row /\ IsDue("identity", r, sweep)
    BY <1>2, <2>1 DEF QueueOf, ArtistsNeedingEnrichment, ReleaseGroupsNeedingEnrichment, BooksNeedingEnrichment, AlbumsNeedingReleaseMatch
  <2> QED  BY <1>2, <2>1, <2>2
<1>3. CASE Phase = Halves
  <2>1. table \in {"artist", "release_group", "album"} /\ Phase # {"identity"}  BY <1>1, <1>3, PhaseFacts DEF Halves
  <2>2. r \in {x \in Row : \E h \in {"front", "aux"} : HalfDue(h, x, sweep)}
    BY <1>3, <2>1 DEF QueueOf, Halves, ArtistsNeedingArtBackfill, ReleaseGroupsNeedingArt, AlbumsNeedingArt
  <2> QED  BY <1>3, <2>2 DEF HalfDue, Halves
<1>4. CASE Phase = {"lyrics"}
  <2>1. Phase \notin {{"identity"}, Halves}  BY <1>4 DEF Halves
  <2>2. r \in Row /\ IsDue("lyrics", r, sweep)  BY <1>4, <2>1 DEF QueueOf, Halves, ItemsNeedingLyrics
  <2> QED  BY <1>4, <2>1, <2>2
<1>5. CASE Phase = {"fields"}
  <2>1. Phase \notin {{"identity"}, Halves, {"lyrics"}}  BY <1>5 DEF Halves
  <2>2. r \in Row /\ IsDue("fields", r, sweep)
    BY <1>5, <2>1 DEF QueueOf, Halves, ItemsNeedingFields, AlbumsNeedingFields
  <2> QED  BY <1>5, <2>1, <2>2
<1> QED  BY <1>1, <1>2, <1>3, <1>4, <1>5

\* A sweep after the first asks for nothing that is quiet and that its phase has not passed.
LEMMA NotDue ==
  ASSUME EnrichTypeOK, pass # NoPass, pass.n > 1, NEW l \in Phase, NEW r \in Row, Quiet(l, r), r > pass.after
  PROVE  ~(IsDue(l, r, pass.sweeps[pass.n]) /\ (l \in Halves => Vacant(l, r)))
<1> DEFINE sweep == pass.sweeps[pass.n]
<1>1. /\ pass.n \in {2, 3} /\ sweep \in {"deferred", "retry"} /\ (pass.n = 3 => sweep = "retry")
      /\ sweep = "deferred" => pass.deferred
  BY UnderWay, SweepFacts
<1>2. mark[l][r] = NoMark \/ (mark[l][r] \in Marker /\ mark[l][r] # NoMark)
  <2>1. l \in Lookup  BY UnderWay
  <2> QED  BY <2>1 DEF EnrichTypeOK
<1>3. ~Behind(l, r)
  <2>1. pass.ph \in 1..Len(Phases) /\ l \in Phases[pass.ph] /\ pass.ph \in Nat /\ pass.after \in Nat /\ r \in Nat
    BY UnderWay, EnrichAssumption
  <2>2. ~(pass.ph < pass.ph) /\ ~(r <= pass.after)  BY <2>1
  <2> QED  BY <2>1, <2>2 DEF Behind
<1>4. RetryAfter \in Nat  BY EnrichAssumption
<1> HIDE DEF sweep
<1>5. CASE mark[l][r] = NoMark
  <2>1. ~IsDue(l, r, sweep)
    <3>1. sweep = "deferred" => ~IsDue(l, r, sweep)  BY <1>5 DEF IsDue
    <3>2. sweep = "retry" => ~IsDue(l, r, sweep)  BY <1>5 DEF IsDue
    <3> QED  BY <1>1, <3>1, <3>2
  <2> QED  BY <2>1 DEF sweep
<1>6. CASE mark[l][r] \in Marker /\ mark[l][r] # NoMark
  <2>0. mark[l][r].age \in Nat /\ mark[l][r].owed \in BOOLEAN /\ mark[l][r].matched \in BOOLEAN  BY <1>6 DEF Marker
  <2>1. CASE mark[l][r].age = 0
    <3>1. ~(mark[l][r].age > 0) /\ ~(RetryAfter > 0 /\ mark[l][r].age >= RetryAfter)  BY <1>4, <2>1
    <3>2. sweep = "deferred" => ~IsDue(l, r, sweep)  BY <1>1, <3>1 DEF IsDue
    <3>3. sweep = "retry" => ~IsDue(l, r, sweep)  BY <3>1 DEF IsDue
    <3>4. ~IsDue(l, r, sweep)  BY <1>1, <3>2, <3>3
    <3> QED  BY <3>4 DEF sweep
  <2>2. CASE l \in Halves /\ ~Vacant(l, r)  BY <2>2
  <2>3. CASE ~mark[l][r].owed /\ ~(RetryAfter > 0 /\ ~mark[l][r].matched /\ mark[l][r].age >= RetryAfter)
    <3>1. sweep = "deferred" => ~IsDue(l, r, sweep)  BY <2>3 DEF IsDue
    <3>2. sweep = "retry" => ~IsDue(l, r, sweep)  BY <2>3 DEF IsDue
    <3>3. ~IsDue(l, r, sweep)  BY <1>1, <3>1, <3>2
    <3> QED  BY <3>3 DEF sweep
  <2>4. CASE mark[l][r].owed /\ pass.n > 2
    <3>1. sweep = "retry"  BY <1>1, <2>4
    <3>2. ~IsDue(l, r, sweep)  BY <2>4, <3>1 DEF IsDue
    <3> QED  BY <3>2 DEF sweep
  <2> QED  BY <1>3, <1>6, <2>1, <2>2, <2>3, <2>4 DEF Quiet
<1> QED  BY <1>2, <1>5, <1>6

\* Quiet lookups stay so while the pass goes on.
LEMMA QuietGoesOn ==
  ASSUME UNCHANGED <<mark, slot>>, NEW l, NEW r, Quiet(l, r),
         pass.n > 2 => pass'.n > 2,
         pass.n = 2 /\ Behind(l, r) => pass'.n > 2 \/ (pass'.n = 2 /\ Behind(l, r)')
  PROVE  Quiet(l, r)'
BY DEF Quiet, Vacant, NoMark, Halves

\* The next phase, or the first of the next sweep.
LEMMA NextPhaseSafe ==
  ASSUME EnrichInv, pass # NoPass, pass.page = <<>>, pass.answer = NoAnswer, pass' = NextPhase(pass),
         asked' = (IF pass' = NoPass THEN {} ELSE asked), UNCHANGED <<table, entity, mark, slot, unnamed, hands>>
  PROVE  EnrichInv' /\ HandsWin /\ AskedOnce /\ OwedNotRenewed
<1>0. EnrichTypeOK /\ PassOK /\ Phases' = Phases  BY UnderWay DEF EnrichInv, Phases
<1>1. CASE pass' = NoPass  BY <1>1, PassAlone, NoPassClaims DEF EnrichInv
<1>2. CASE pass' # NoPass
  <2>0. /\ pass.ph \in 1..Len(Phases) /\ Len(Phases) \in {2, 3} /\ pass.n \in {1, 2, 3} /\ pass.n \in 1..Len(pass.sweeps)
        /\ Len(pass.sweeps) \in {1, 2, 3} /\ PassShape(pass)
    BY <1>0, UnderWay, SweepFacts DEF PassOK
  <2>1. /\ PassShape(pass') /\ pass'.after = 0 /\ pass'.page = <<>> /\ pass'.answer = NoAnswer
        /\ pass'.sweeps = pass.sweeps /\ pass'.how = pass.how /\ pass'.deferred = pass.deferred
        /\ \/ pass'.n = pass.n /\ pass'.ph = pass.ph + 1 /\ pass.ph < Len(Phases)
           \/ pass'.n = pass.n + 1 /\ pass'.ph = 1 /\ pass.n < Len(pass.sweeps)
    <3>1. CASE pass.ph < Len(Phases)
      <4>1. pass' = [pass EXCEPT !.ph = @ + 1, !.after = 0, !.page = <<>>]  BY <3>1 DEF NextPhase
      <4> QED  BY <2>0, <3>1, <4>1 DEF PassShape, PassFields
    <3>2. CASE ~(pass.ph < Len(Phases)) /\ pass.n < Len(pass.sweeps)
      <4>1. pass' = [pass EXCEPT !.n = @ + 1, !.ph = 1, !.after = 0, !.page = <<>>]  BY <3>2 DEF NextPhase
      <4> QED  BY <2>0, <3>2, <4>1 DEF PassShape, PassFields
    <3> QED  BY <1>2, <3>1, <3>2 DEF NextPhase
  <2>2. pass'.n \in 1..Len(pass.sweeps) /\ pass'.ph \in 1..Len(Phases)  BY <2>0, <2>1
  <2>3. PassOK'
    <3>1. <<>> \in Seq(Targets') /\ 1..Len(<<>>) = {}  OBVIOUS
    <3>2. /\ pass'.sweeps \in SweepLists /\ pass'.how \in Nat /\ pass'.after \in Nat /\ pass'.deferred \in BOOLEAN
          /\ (pass'.how = AllForced) <=> pass'.sweeps = <<"all">>
          /\ pass'.deferred <=> pass'.sweeps \in {<<"fresh", "deferred">>, <<"fresh", "deferred", "retry">>}
      BY <1>0, <2>1 DEF PassOK
    <3>3. pass'.n \in 1..Len(pass'.sweeps) /\ pass'.ph \in 1..Len(Phases')  BY <1>0, <2>1, <2>2
    <3> QED  BY <2>1, <3>1, <3>2, <3>3 DEF PassOK
  <2>4. 1..Len(pass'.page) = {} /\ ~Pending /\ ~Pending' /\ asked' = asked  BY <1>2, <2>1 DEF Pending, NoAnswer
  <2>5. ASSUME NEW l, NEW r, Behind(l, r), pass'.n = pass.n  PROVE Behind(l, r)'
    <3>1. pass'.ph = pass.ph + 1 /\ pass.ph \in Nat  BY <2>0, <2>1, <2>5
    <3>2. ASSUME NEW i \in 1..Len(Phases), l \in Phases[i]  PROVE i < pass.ph + 1
      <4>1. i < pass.ph \/ i = pass.ph  BY <2>5, <3>2 DEF Behind
      <4> QED  BY <3>1, <4>1
    <3> QED  BY <1>0, <3>1, <3>2 DEF Behind
  <2>6. FirstSweepOnce'
    <3> SUFFICES ASSUME pass'.n = 1, NEW l \in Lookup, NEW r \in Row, <<l, r>> \in asked  PROVE Behind(l, r)'
      BY <2>4 DEF FirstSweepOnce
    <3>1. pass'.n = pass.n  BY <2>0, <2>1
    <3>2. Behind(l, r)  BY <3>1 DEF EnrichInv, FirstSweepOnce
    <3> QED  BY <2>5, <3>1, <3>2
  <2>7. AskedQuiet'
    <3> SUFFICES ASSUME NEW i \in 1..Len(Phases), NEW r \in Row, NEW l \in Phases[i], NEW h \in Phases[i],
                        <<l, r>> \in asked, ~Forced(i)'
                 PROVE  Quiet(h, r)'
      BY <1>0, <2>4 DEF AskedQuiet
    <3>1. ~Forced(i)  BY <2>1 DEF Forced
    <3>2. Quiet(h, r)  BY <2>4, <3>1 DEF EnrichInv, AskedQuiet
    <3>3. pass.n > 2 => pass'.n > 2  BY <2>0, <2>1
    <3>4. pass.n = 2 /\ pass'.n # pass.n => pass'.n > 2  BY <2>1
    <3>5. pass.n = 2 /\ Behind(h, r) => pass'.n > 2 \/ (pass'.n = 2 /\ Behind(h, r)')  BY <2>5, <3>4
    <3> QED  BY <3>2, <3>3, <3>5, QuietGoesOn
  <2>8. NamedRight' /\ OwedAreTame' /\ PageUnasked' /\ UnaskedQuiet'
    BY <2>4 DEF NamedRight, OwedAreTame, PageUnasked, UnaskedQuiet
  <2>9. AskedOnce  BY <2>1 DEF AskedOnce
  <2> QED  BY <2>3, <2>6, <2>7, <2>8, <2>9, PassAlone DEF EnrichInv
<1> QED  BY <1>1, <1>2

\* A half as the page has it.
LEMMA HalfStates ==
  ASSUME EnrichTypeOK, pass # NoPass, NEW l \in Lookup, NEW r \in Row, NEW sweep \in {"all", "fresh", "deferred", "retry"}
  PROVE  /\ HalfState(l, r, sweep) \in 0..3
         /\ sweep # "all" /\ HalfState(l, r, sweep) = 1 => mark[l][r] = NoMark
         /\ HalfState(l, r, sweep) = 3 => ~mark[l][r].owed
         /\ sweep # "all" /\ HalfState(l, r, sweep) = 0 =>
              \/ ~Vacant(l, r) \/ mark[l][r] = NoMark \/ mark[l][r].age = 0
              \/ ~mark[l][r].owed /\ ~(RetryAfter > 0 /\ ~mark[l][r].matched /\ mark[l][r].age >= RetryAfter)
<1> DEFINE v == Vacant(l, r)  f == sweep = "all" \/ IsDue(l, r, "fresh")
           d == sweep # "all" /\ IsDue(l, r, "deferred")  m == sweep # "all" /\ IsDue(l, r, "retry")
<1>1. HalfState(l, r, sweep) = CASE ~v -> 0 [] v /\ f -> 1 [] v /\ d -> 2 [] v /\ m -> 3 [] OTHER -> 0
  BY DEF HalfState
<1>2. /\ f <=> sweep = "all" \/ mark[l][r] = NoMark
      /\ d <=> sweep # "all" /\ mark[l][r] # NoMark /\ mark[l][r].owed /\ (pass.deferred => mark[l][r].age > 0)
      /\ m <=> /\ sweep # "all" /\ RetryAfter > 0 /\ mark[l][r] # NoMark /\ ~mark[l][r].owed
               /\ ~mark[l][r].matched /\ mark[l][r].age >= RetryAfter
  BY DEF IsDue
<1>3. mark[l][r] = NoMark \/ (mark[l][r].age \in Nat /\ mark[l][r].owed \in BOOLEAN)  BY DEF EnrichTypeOK, Marker
<1> HIDE DEF v, f, d, m
<1>4. f => ~d /\ ~m  BY <1>2
<1>5. d => ~m  BY <1>2
<1>6. /\ HalfState(l, r, sweep) \in {0, 1, 2, 3}
      /\ HalfState(l, r, sweep) = 1 => f
      /\ HalfState(l, r, sweep) = 3 => m
      /\ HalfState(l, r, sweep) = 0 => ~v \/ (~f /\ ~d /\ ~m)
  <2>1. CASE ~v  BY <1>1, <2>1
  <2>2. CASE v /\ f  BY <1>1, <1>4, <2>2
  <2>3. CASE v /\ d  BY <1>1, <1>4, <1>5, <2>3
  <2>4. CASE v /\ m  BY <1>1, <1>4, <1>5, <2>4
  <2>5. CASE v /\ ~f /\ ~d /\ ~m  BY <1>1, <2>5
  <2> QED  BY <2>1, <2>2, <2>3, <2>4, <2>5
<1>7. HalfState(l, r, sweep) \in 0..3  BY <1>6
<1>8. sweep # "all" /\ HalfState(l, r, sweep) = 1 => mark[l][r] = NoMark  BY <1>2, <1>6
<1>9. HalfState(l, r, sweep) = 3 => ~mark[l][r].owed  BY <1>2, <1>6
<1>10. ASSUME sweep # "all", ~f, ~d, ~m, mark[l][r] # NoMark
       PROVE  \/ mark[l][r].age = 0
              \/ ~mark[l][r].owed /\ ~(RetryAfter > 0 /\ ~mark[l][r].matched /\ mark[l][r].age >= RetryAfter)
  <2>1. CASE mark[l][r].owed
    <3>1. ~(mark[l][r].age > 0) /\ mark[l][r].age \in Nat  BY <1>2, <1>3, <1>10, <2>1
    <3> QED  BY <3>1
  <2>2. CASE ~mark[l][r].owed  BY <1>2, <1>10, <2>2
  <2> QED  BY <2>1, <2>2
<1> QED  BY <1>2, <1>6, <1>7, <1>8, <1>9, <1>10 DEF v

\* A page of the queue, or the end of it.
LEMMA FetchPageSafe ==
  ASSUME EnrichInv, FetchPage
  PROVE  EnrichInv' /\ HandsWin /\ AskedOnce /\ OwedNotRenewed
<1>r. PICK rows : rows = {r \in QueueOf(Phase, Sweep) : r > pass.after /\ entity[r] # 0}  OBVIOUS
<1> DEFINE n == Cardinality(rows)
<1>p. PICK page : page = [k \in 1..n |-> TargetOf(Nth(rows, k))]  OBVIOUS
<1> DEFINE ends == SkipForced \/ LimitReached \/ pass.ph \in pass.stalled \/ rows = {}
<1>0. /\ pass # NoPass /\ pass.page = <<>> /\ pass.answer = NoAnswer
      /\ pass' = IF ends THEN NextPhase(pass) ELSE [pass EXCEPT !.page = page, !.after = Nth(rows, n)]
      /\ asked' = (IF pass' = NoPass THEN {} ELSE asked) /\ UNCHANGED <<table, entity, mark, slot, unnamed, hands>>
  BY <1>r, <1>p DEF FetchPage
<1>1. CASE ends
  <2>1. pass' = NextPhase(pass)  BY <1>0, <1>1
  <2> QED  BY <1>0, <2>1, NextPhaseSafe
<1>2. CASE ~ends
  <2>0. pass' = [pass EXCEPT !.page = page, !.after = Nth(rows, n)] /\ rows # {} /\ ~SkipForced  BY <1>0, <1>2
  <2>1. /\ EnrichTypeOK /\ PassOK /\ PassShape(pass) /\ Phase \subseteq Lookup /\ Phase = Phases[pass.ph] /\ pass.ph \in 1..Len(Phases)
        /\ pass.after \in Nat /\ pass.ph \in Nat /\ pass.ph > 0
    BY <1>0, UnderWay DEF EnrichInv, PassOK
  <2>2. rows \subseteq Row /\ \A r \in rows : r \in QueueOf(Phase, Sweep) /\ r > pass.after /\ r \in Nat
    BY <1>0, <1>r, <2>1, QueueFacts, EnrichAssumption
  <2>3. /\ n \in Nat \ {0} /\ \A k \in 1..n : Nth(rows, k) \in rows /\ Nth(rows, k) <= Nth(rows, n)
        /\ \A j, k \in 1..n : Nth(rows, j) = Nth(rows, k) => j = k
    BY <2>0, <2>2, NthFacts
  <2> HIDE DEF n
  <2>4. Nth(rows, n) \in Nat /\ Nth(rows, n) > pass.after /\ \A k \in 1..n : Nth(rows, k) \in Row
    <3>1. n \in 1..n  BY <2>3
    <3> QED  BY <2>2, <2>3, <3>1
  <2>5. /\ PassShape(pass') /\ pass'.page = page /\ pass'.after = Nth(rows, n) /\ pass'.n = pass.n /\ pass'.ph = pass.ph
        /\ pass'.answer = pass.answer /\ pass'.how = pass.how /\ pass'.sweeps = pass.sweeps /\ pass'.deferred = pass.deferred
    BY <2>0, <2>1 DEF PassShape, PassFields
  <2>6. /\ Phases' = Phases /\ Phase' = Phase /\ Sweep' = Sweep /\ OwedWalk' = OwedWalk /\ Targets' = Targets
        /\ ~Pending /\ ~Pending' /\ asked' = asked /\ pass' # NoPass
    <3>1. Phases' = Phases  BY <1>0 DEF Phases
    <3>2. Phase' = Phase  BY <2>5, <3>1 DEF Phase
    <3>3. Sweep' = Sweep /\ OwedWalk' = OwedWalk  BY <2>5 DEF Sweep, ForcingPhase, OwedWalk
    <3>4. ~Pending /\ ~Pending'  BY <1>0, <2>5 DEF Pending, NoAnswer
    <3>5. pass'.sweeps # NoPass.sweeps  BY <2>1, <2>5 DEF PassOK, SweepLists, NoPass
    <3> QED  BY <1>0, <3>1, <3>2, <3>3, <3>4, <3>5 DEF Targets
  <2>7. Sweep \in {"all", "fresh", "deferred", "retry"} /\ (Sweep # "all" => Sweep = pass.sweeps[pass.n])
    BY <1>0, <2>1, SweepFacts DEF Sweep, ForcingPhase
  <2>t. ASSUME NEW r \in Row
        PROVE  /\ TargetOf(r) \in Targets /\ TargetOf(r).row = r /\ (TargetOf(r).named \/ slot["identity"][r] = "open")
               /\ \A l \in Phase : TargetOf(r).due[l] = IF l \in Halves THEN HalfState(l, r, Sweep) ELSE 1
    <3> DEFINE due == [l \in Phase |-> IF l \in {"front", "aux"} THEN HalfState(l, r, Sweep) ELSE 1]
    <3>1. \A l \in Phase : l \in Halves => HalfState(l, r, Sweep) \in 0..3  BY <1>0, <2>1, <2>7, HalfStates
    <3>2. due \in [Phase -> 0..3] /\ \A l \in Phase : due[l] = IF l \in Halves THEN HalfState(l, r, Sweep) ELSE 1
      BY <3>1 DEF Halves
    <3>3. TargetOf(r) = [row |-> r, due |-> due, genres |-> slot["genres"][r] = "open", named |-> slot["identity"][r] # "open"]
      BY DEF TargetOf
    <3> HIDE DEF due
    <3>4. TargetOf(r) \in Targets  BY <3>2, <3>3 DEF Targets
    <3>5. TargetOf(r).row = r /\ TargetOf(r).due = due /\ TargetOf(r).named = (slot["identity"][r] # "open")  BY <3>3
    <3> QED  BY <3>2, <3>4, <3>5
  <2>8. \A k \in 1..n : /\ page[k] \in Targets /\ page[k].row = Nth(rows, k) /\ page[k].row \in Row
                        /\ page[k].named \/ slot["identity"][page[k].row] = "open"
    <3>1. \A k \in 1..n : page[k] = TargetOf(Nth(rows, k))  BY <1>p
    <3> QED  BY <2>4, <2>t, <3>1
  <2>d. \A k \in 1..n, l \in Phase : page[k].due[l] = IF l \in Halves THEN HalfState(l, page[k].row, Sweep) ELSE 1
    <3>1. \A k \in 1..n : page[k] = TargetOf(Nth(rows, k))  BY <1>p
    <3> QED  BY <2>4, <2>t, <3>1
  <2>9. page \in Seq(Targets) /\ Len(page) = n
    <3>1. page = [k \in 1..n |-> page[k]]  BY <1>p
    <3>2. \A k \in 1..n : page[k] \in Targets  BY <2>8
    <3>3. n \in Nat  BY <2>3
    <3>4. page \in [1..n -> Targets]  BY <3>1, <3>2
    <3> QED  BY <3>3, <3>4
  <2>10. PassOK'
    <3>1. /\ pass'.sweeps \in SweepLists /\ pass'.n \in 1..Len(pass'.sweeps) /\ pass'.ph \in 1..Len(Phases')
          /\ pass'.how \in Nat /\ pass'.after \in Nat /\ pass'.deferred \in BOOLEAN
          /\ (pass'.how = AllForced) <=> pass'.sweeps = <<"all">>
          /\ pass'.deferred <=> pass'.sweeps \in {<<"fresh", "deferred">>, <<"fresh", "deferred", "retry">>}
      BY <2>1, <2>4, <2>5, <2>6 DEF PassOK
    <3>2. ~(pass'.n > 1 /\ pass'.how = pass'.ph)  BY <2>0, <2>5 DEF SkipForced, ForcingPhase
    <3>3. /\ pass'.page \in Seq(Targets') /\ Len(pass'.page) = n /\ pass'.answer = NoAnswer
      BY <1>0, <2>5, <2>6, <2>9
    <3>r. \A k \in 1..n : pass'.page[k].row = Nth(rows, k)  BY <2>5, <2>8
    <3>4. \A k \in 1..n : pass'.page[k].row <= pass'.after  BY <2>3, <2>5, <3>r
    <3>5. \A j, k \in 1..n : pass'.page[j].row = pass'.page[k].row => j = k  BY <2>3, <3>r
    <3> QED  BY <2>5, <3>1, <3>2, <3>3, <3>4, <3>5 DEF PassOK
  <2>11. ASSUME NEW l, NEW r \in Row, Behind(l, r)  PROVE Behind(l, r)'
    <3>1. r \in Nat  BY EnrichAssumption
    <3>2. r <= pass.after => r <= pass'.after  BY <2>1, <2>4, <2>5, <3>1
    <3> QED  BY <2>5, <2>6, <2>11, <3>2 DEF Behind
  <2>12. ASSUME NEW l, NEW r \in Row, Quiet(l, r)  PROVE Quiet(l, r)'
    <3>1. UNCHANGED <<mark, slot>> /\ pass'.n = pass.n  BY <1>0, <2>5
    <3> QED  BY <2>11, <2>12, <3>1, QuietGoesOn
  <2>13. FirstSweepOnce'  BY <2>5, <2>6, <2>11, <1>0 DEF EnrichInv, FirstSweepOnce
  <2>14. PageUnasked'
    <3> SUFFICES ASSUME NEW k \in 1..n, NEW l \in Phase, <<l, page[k].row>> \in asked, Due(page[k], l)  PROVE FALSE
      BY <2>5, <2>6, <2>9 DEF PageUnasked, Due
    <3> DEFINE r == page[k].row
    <3>1. r \in rows /\ r \in Row /\ r > pass.after /\ r \in QueueOf(Phase, Sweep) /\ l \in Lookup
      <4>1. r = Nth(rows, k) /\ r \in rows  BY <2>3, <2>8
      <4> QED  BY <2>1, <2>2, <4>1
    <3> HIDE DEF r
    <3>2. CASE pass.n = 1
      <4>1. Behind(l, r)  BY <1>0, <3>1, <3>2 DEF EnrichInv, FirstSweepOnce, r
      <4>2. ~(pass.ph < pass.ph) /\ ~(r <= pass.after)  BY <2>1, <2>2, <3>1
      <4> QED  BY <2>1, <4>1, <4>2 DEF Behind
    <3>3. CASE pass.n # 1
      <4>1. pass.n > 1 /\ pass.how # AllForced /\ pass.how # pass.ph
        BY <1>0, <2>0, <2>1, <3>3, SweepFacts DEF SkipForced, ForcingPhase
      <4>2. ~Forced(pass.ph) /\ Sweep = pass.sweeps[pass.n]  BY <4>1 DEF Forced, Sweep, ForcingPhase
      <4>3. \A h \in Phase : Quiet(h, r)  BY <1>0, <2>1, <2>6, <3>1, <4>2 DEF EnrichInv, AskedQuiet, r
      <4>4. \A h \in Phase : ~(IsDue(h, r, Sweep) /\ (h \in Halves => Vacant(h, r)))
        BY <1>0, <2>1, <3>1, <4>1, <4>2, <4>3, NotDue
      <4>5. /\ Phase # Halves => \A h \in Phase : IsDue(h, r, Sweep)
            /\ Phase = Halves => \E h \in Halves : Vacant(h, r) /\ IsDue(h, r, Sweep)
        BY <1>0, <2>1, <3>1, QueueFacts
      <4>6. Phase # Halves => l \notin Halves
        <5>1. Phase \in {{"identity"}, Halves, {"lyrics"}, {"fields"}}  BY <1>0, <2>1, UnderWay
        <5> QED  BY <5>1 DEF Halves
      <4> QED  BY <4>4, <4>5, <4>6
    <3> QED  BY <3>2, <3>3
  <2>15. AskedQuiet'
    <3> SUFFICES ASSUME NEW i \in 1..Len(Phases), NEW r \in Row, NEW l \in Phases[i], NEW h \in Phases[i],
                        <<l, r>> \in asked, ~Forced(i)
                 PROVE  Quiet(h, r)'
      BY <2>5, <2>6 DEF AskedQuiet, Forced
    <3>1. Quiet(h, r)  BY <1>0, <2>6 DEF EnrichInv, AskedQuiet
    <3> QED  BY <2>12, <3>1
  <2>16. UnaskedQuiet'
    <3> SUFFICES ASSUME ~Forced(pass.ph), NEW k \in 1..n, NEW h \in Phase, ~Due(page[k], h)  PROVE Quiet(h, page[k].row)'
      <4>1. \A k \in 1..n, h \in Phase : Due(page[k], h)' <=> Due(page[k], h)  BY <2>6 DEF Due
      <4>2. Forced(pass.ph)' <=> Forced(pass.ph)  BY <2>5 DEF Forced
      <4> QED  BY <2>5, <2>6, <2>9, <4>1, <4>2 DEF UnaskedQuiet
    <3>1. Sweep # "all"  BY <1>0, <2>1, SweepFacts DEF Sweep, ForcingPhase, Forced
    <3>2. Phase = Halves /\ page[k].due[h] = 0 /\ h \in Halves  BY DEF Due
    <3>3. HalfState(h, page[k].row, Sweep) = 0 /\ page[k].row \in Row  BY <2>8, <2>d, <3>2
    <3>4. Quiet(h, page[k].row)  BY <1>0, <2>1, <2>7, <3>1, <3>2, <3>3, HalfStates DEF Quiet
    <3> QED  BY <2>12, <3>3, <3>4
  <2>17. OwedAreTame'
    <3> SUFFICES ASSUME Sweep # "all", NEW k \in 1..n  PROVE TargetTame(page[k])'
      BY <2>5, <2>6, <2>9 DEF OwedAreTame
    <3>1. page[k].row \in Row /\ page[k].row \in QueueOf(Phase, Sweep)  BY <2>2, <2>3, <2>8
    <3>2. ASSUME Phase = Halves, NEW l \in Phase, page[k].due[l] \in {1, 3}  PROVE Tame(mark[l][page[k].row])
      <4>1. HalfState(l, page[k].row, Sweep) \in {1, 3}  BY <2>d, <3>2
      <4> QED  BY <1>0, <2>1, <2>7, <3>1, <4>1, HalfStates DEF Tame
    <3>3. ASSUME Phase # Halves, ~OwedWalk, NEW l \in Phase  PROVE Tame(mark[l][page[k].row])
      <4>1. IsDue(l, page[k].row, Sweep)  BY <1>0, <2>1, <3>1, <3>3, QueueFacts
      <4>2. Sweep \in {"fresh", "retry"}  BY <2>7, <3>3 DEF OwedWalk
      <4>3. Sweep = "fresh" => mark[l][page[k].row] = NoMark  BY <4>1 DEF IsDue
      <4>4. Sweep = "retry" => ~mark[l][page[k].row].owed  BY <4>1 DEF IsDue
      <4> QED  BY <4>2, <4>3, <4>4 DEF Tame
    <3> QED  BY <1>0, <2>6, <3>2, <3>3 DEF TargetTame
  <2>18. NamedRight'  BY <1>0, <2>5, <2>6, <2>8, <2>9 DEF NamedRight
  <2>19. AskedOnce  BY <2>6 DEF AskedOnce, Pending
  <2> QED  BY <1>0, <2>10, <2>13, <2>14, <2>15, <2>16, <2>17, <2>18, <2>19, PassAlone DEF EnrichInv
<1> QED  BY <1>1, <1>2
-----------------------------------------------------------------------------
\* Targets leave the page, and an answer may be on its way for one of them.
LEMMA PageGoes ==
  ASSUME EnrichInv, pass # NoPass, pass.page # <<>>, pass.answer = NoAnswer,
         UNCHANGED <<table, entity, mark, slot, unnamed, hands>>, PassShape(pass'),
         pass'.n = pass.n, pass'.ph = pass.ph, pass'.after = pass.after, pass'.how = pass.how,
         pass'.sweeps = pass.sweeps, pass'.deferred = pass.deferred,
         pass'.page = <<>> \/ pass'.page = Tail(pass.page), pass'.answer = NoAnswer \/ AnswerOK(pass'.answer)
  PROVE  /\ PassOK' /\ pass' # NoPass /\ Phases' = Phases /\ Phase' = Phase /\ Sweep' = Sweep /\ OwedWalk' = OwedWalk
         /\ EnrichTypeOK' /\ HeirsStartFresh' /\ ArtAskedByName' /\ HandsWin /\ OwedNotRenewed
         /\ \A k \in 1..Len(pass'.page) : \E j \in 1..Len(pass.page) :
              pass'.page[k] = pass.page[j] /\ pass'.page[k].row # Head(pass.page).row
         /\ \A l, r : (Quiet(l, r) <=> Quiet(l, r)') /\ (Behind(l, r) <=> Behind(l, r)')
         /\ 1 \in 1..Len(pass.page) /\ Head(pass.page) = pass.page[1]
<1>p. PICK page : page = pass'.page  OBVIOUS
<1>a. PICK a : a = pass'.answer  OBVIOUS
<1>0. EnrichTypeOK /\ PassOK /\ pass.page \in Seq(Targets)  BY UnderWay DEF EnrichInv, PassOK
<1>1. /\ Phases' = Phases /\ Phase' = Phase /\ Sweep' = Sweep /\ OwedWalk' = OwedWalk /\ Targets' = Targets /\ pass' # NoPass
  <2>1. Phases' = Phases  BY DEF Phases
  <2>2. Phase' = Phase  BY <2>1 DEF Phase
  <2>3. Sweep' = Sweep /\ OwedWalk' = OwedWalk  BY DEF Sweep, ForcingPhase, OwedWalk
  <2>4. pass'.sweeps # NoPass.sweeps  BY <1>0 DEF PassOK, SweepLists, NoPass
  <2> QED  BY <2>1, <2>2, <2>3, <2>4 DEF Targets
<1>2. /\ Tail(pass.page) \in Seq(Targets) /\ Len(Tail(pass.page)) = Len(pass.page) - 1 /\ Len(pass.page) \in Nat
      /\ Len(pass.page) >= 1 /\ Head(pass.page) = pass.page[1]
      /\ \A k \in 1..Len(Tail(pass.page)) : Tail(pass.page)[k] = pass.page[k + 1] /\ k + 1 \in 1..Len(pass.page)
  BY <1>0, PageTail
<1>3. 1 \in 1..Len(pass.page) /\ \A k \in 1..Len(Tail(pass.page)) : k + 1 # 1  BY <1>2
<1>4. \A j, k \in 1..Len(pass.page) : pass.page[j].row = pass.page[k].row => j = k  BY <1>0 DEF PassOK
<1>5. /\ page \in Seq(Targets)
      /\ \A k \in 1..Len(page) : \E j \in 1..Len(pass.page) :
           page[k] = pass.page[j] /\ page[k].row # Head(pass.page).row
      /\ \A j, k \in 1..Len(page) : page[j].row = page[k].row => j = k
  <2>1. CASE page = <<>>  BY <2>1
  <2>2. CASE page = Tail(pass.page)
    <3>1. \A k \in 1..Len(page) : k \in Nat /\ page[k] = pass.page[k + 1] /\ k + 1 \in 1..Len(pass.page) /\ k + 1 # 1
      BY <1>2, <1>3, <2>2
    <3>2. \A k \in 1..Len(page) : \E j \in 1..Len(pass.page) :
            page[k] = pass.page[j] /\ page[k].row # Head(pass.page).row
      BY <1>2, <1>3, <1>4, <3>1
    <3>3. ASSUME NEW j \in 1..Len(page), NEW k \in 1..Len(page), page[j].row = page[k].row  PROVE j = k
      <4>0. /\ pass.page[j + 1].row = pass.page[k + 1].row
            /\ j \in Nat /\ k \in Nat /\ j + 1 \in 1..Len(pass.page) /\ k + 1 \in 1..Len(pass.page)
        BY <3>1, <3>3
      <4>1. j + 1 = k + 1  BY <1>4, <4>0
      <4> QED  BY <3>1, <4>1
    <3> QED  BY <1>2, <2>2, <3>2, <3>3
  <2> QED  BY <1>p, <2>1, <2>2
<1>6. PassOK'
  <2>1. /\ pass'.sweeps \in SweepLists /\ pass'.n \in 1..Len(pass'.sweeps) /\ pass'.ph \in 1..Len(Phases')
        /\ pass'.how \in Nat /\ pass'.after \in Nat /\ pass'.deferred \in BOOLEAN
        /\ (pass'.how = AllForced) <=> pass'.sweeps = <<"all">>
        /\ pass'.deferred <=> pass'.sweeps \in {<<"fresh", "deferred">>, <<"fresh", "deferred", "retry">>}
        /\ ~(pass'.n > 1 /\ pass'.how = pass'.ph)
    BY <1>0, <1>1 DEF PassOK
  <2>2. \A k \in 1..Len(page) : page[k].row <= pass'.after
    <3>1. \A j \in 1..Len(pass.page) : pass.page[j].row <= pass.after  BY <1>0 DEF PassOK
    <3> QED  BY <1>5, <3>1
  <2>3. a = NoAnswer \/ AnswerOK(a)'  BY <1>1, <1>a DEF AnswerOK
  <2> QED  BY <1>1, <1>p, <1>a, <1>5, <2>1, <2>2, <2>3 DEF PassOK
<1>7. ASSUME NEW l, NEW r  PROVE (Quiet(l, r) <=> Quiet(l, r)') /\ (Behind(l, r) <=> Behind(l, r)')
  <2>1. Behind(l, r) <=> Behind(l, r)'  BY <1>1 DEF Behind
  <2>2. Vacant(l, r) <=> Vacant(l, r)'  BY DEF Vacant
  <2> QED  BY <2>1, <2>2 DEF Quiet
<1>8. EnrichTypeOK' /\ HeirsStartFresh' /\ ArtAskedByName' /\ HandsWin /\ OwedNotRenewed  BY <1>6, PassAlone
<1> QED  BY <1>1, <1>2, <1>3, <1>p, <1>5, <1>6, <1>7, <1>8

\* A phase with nobody left to ask, and a target nobody can answer.
LEMMA SkipSafe ==
  ASSUME EnrichInv, Stall \/ PassOver
  PROVE  EnrichInv' /\ HandsWin /\ AskedOnce /\ OwedNotRenewed
<1>0. /\ pass # NoPass /\ pass.page # <<>> /\ pass.answer = NoAnswer
      /\ UNCHANGED <<table, entity, mark, slot, asked, unnamed, hands>>
  BY DEF Stall, PassOver
<1>s. EnrichTypeOK /\ PassShape(pass)  BY <1>0, UnderWay DEF EnrichInv, PassOK
<1>p. PICK page : page = pass'.page  OBVIOUS
<1>1. /\ PassShape(pass') /\ pass'.answer = NoAnswer
      /\ pass'.n = pass.n /\ pass'.ph = pass.ph /\ pass'.after = pass.after /\ pass'.how = pass.how
      /\ pass'.sweeps = pass.sweeps /\ pass'.deferred = pass.deferred
      /\ page = <<>> \/ page = Tail(pass.page)
  <2>1. CASE Stall
    <3>1. pass' = [pass EXCEPT !.stalled = @ \cup {pass.ph}, !.page = <<>>]  BY <2>1 DEF Stall
    <3> QED  BY <1>0, <1>s, <1>p, <3>1 DEF PassShape, PassFields
  <2>2. CASE PassOver
    <3>1. pass' = [pass EXCEPT !.page = Tail(pass.page)]  BY <1>s, <2>2 DEF PassOver, Dropped
    <3> QED  BY <1>0, <1>s, <1>p, <3>1 DEF PassShape, PassFields
  <2> QED  BY <2>1, <2>2
<1>2. /\ PassOK' /\ pass' # NoPass /\ Phases' = Phases /\ Phase' = Phase /\ Sweep' = Sweep /\ OwedWalk' = OwedWalk
      /\ EnrichTypeOK' /\ HeirsStartFresh' /\ ArtAskedByName' /\ HandsWin /\ OwedNotRenewed
      /\ \A k \in 1..Len(page) : \E j \in 1..Len(pass.page) : page[k] = pass.page[j]
      /\ \A l, r : (Quiet(l, r) <=> Quiet(l, r)') /\ (Behind(l, r) <=> Behind(l, r)')
  <2>1. pass'.page = <<>> \/ pass'.page = Tail(pass.page)  BY <1>1, <1>p
  <2> QED  BY <1>0, <1>1, <1>p, <2>1, PageGoes
<1>3. ~Pending /\ ~Pending'  BY <1>0, <1>1 DEF Pending, NoAnswer
<1>4. NamedRight'  BY <1>0, <1>p, <1>2, <1>3 DEF EnrichInv, NamedRight
<1>5. OwedAreTame'
  <2>1. \A t : TargetTame(t)' <=> TargetTame(t)  BY <1>0, <1>2 DEF TargetTame
  <2> QED  BY <1>0, <1>p, <1>2, <1>3, <2>1 DEF EnrichInv, OwedAreTame
<1>6. FirstSweepOnce'  BY <1>0, <1>1, <1>2 DEF EnrichInv, FirstSweepOnce
<1>7. PageUnasked'
  <2>1. \A t, l : Due(t, l)' <=> Due(t, l)  BY <1>2 DEF Due
  <2> QED  BY <1>0, <1>p, <1>2, <2>1 DEF EnrichInv, PageUnasked
<1>8. AskedQuiet'  BY <1>0, <1>1, <1>2, <1>3 DEF EnrichInv, AskedQuiet, Forced
<1>9. UnaskedQuiet'
  <2>1. \A t, l : Due(t, l)' <=> Due(t, l)  BY <1>2 DEF Due
  <2>2. Forced(pass.ph)' <=> Forced(pass.ph)  BY <1>1 DEF Forced
  <2> QED  BY <1>0, <1>p, <1>2, <1>3, <2>1, <2>2 DEF EnrichInv, UnaskedQuiet
<1>10. AskedOnce  BY <1>3 DEF AskedOnce, Pending
<1> QED  BY <1>2, <1>4, <1>5, <1>6, <1>7, <1>8, <1>9, <1>10 DEF EnrichInv

\* What the head of the page was asked for is on its way.
LEMMA AskStep ==
  ASSUME EnrichInv, Asking, NEW a, NEW ls, UNCHANGED <<table, entity, mark, slot, unnamed, hands>>,
         PassShape(pass'), pass'.page = Tail(pass.page), pass'.answer = a,
         pass'.n = pass.n, pass'.ph = pass.ph, pass'.after = pass.after, pass'.how = pass.how,
         pass'.sweeps = pass.sweeps, pass'.deferred = pass.deferred,
         asked' = asked \cup {<<l, Here.row>> : l \in ls},
         a.row = Here.row, a.named = Here.named, ls \subseteq Phase,
         Phase = {"identity"} => ls = {"identity"} /\ {a.found, a.failed, a.unasked} \subseteq BOOLEAN /\ (OwedWalk => ~a.failed),
         Phase # {"identity"} => a.asked = ls /\ \A l \in ls : l \in a.failed => IF Phase = Halves THEN Here.due[l] \in {1, 3} ELSE ~OwedWalk,
         \A l \in Phase : l \in ls <=> Due(Here, l)
  PROVE  EnrichInv' /\ HandsWin /\ AskedOnce /\ OwedNotRenewed
<1>0. pass # NoPass /\ pass.page # <<>> /\ pass.answer = NoAnswer /\ ~Pending  BY DEF Asking, Pending
<1>t. /\ EnrichTypeOK /\ PassOK /\ pass.page \in Seq(Targets) /\ Phase \subseteq Lookup /\ Phase = Phases[pass.ph]
      /\ pass.ph \in 1..Len(Phases) /\ Phase \in {{"identity"}, Halves, {"lyrics"}, {"fields"}}
      /\ table \in {"artist", "release_group", "album", "book", "track"}
  BY <1>0, UnderWay DEF EnrichInv, PassOK, EnrichTypeOK
<1>h. PICK here : here = Here  OBVIOUS
<1>p. PICK page : page = Tail(pass.page)  OBVIOUS
<1>1. /\ 1 \in 1..Len(pass.page) /\ here = pass.page[1] /\ here \in Targets /\ here.row \in Row /\ here.row <= pass.after
      /\ here.named \in BOOLEAN
  <2>1. 1 \in 1..Len(pass.page) /\ here = pass.page[1]  BY <1>0, <1>t, <1>h, PageTail DEF Here
  <2> QED  BY <1>0, <1>t, <2>1, UnderWay DEF PassOK
<1>2. AnswerOK(a) /\ a # NoAnswer
  <2>1. a.row \in Row /\ a.row # 0  BY <1>1, <1>h, EnrichAssumption
  <2> QED  BY <1>1, <1>h, <2>1 DEF AnswerOK, NoAnswer
<1>3. /\ PassOK' /\ pass' # NoPass /\ Phases' = Phases /\ Phase' = Phase /\ Sweep' = Sweep /\ OwedWalk' = OwedWalk
      /\ EnrichTypeOK' /\ HeirsStartFresh' /\ ArtAskedByName' /\ HandsWin /\ OwedNotRenewed
      /\ \A k \in 1..Len(page) : \E j \in 1..Len(pass.page) : page[k] = pass.page[j] /\ page[k].row # here.row
      /\ \A l, r : (Quiet(l, r) <=> Quiet(l, r)') /\ (Behind(l, r) <=> Behind(l, r)')
  <2>1. AnswerOK(pass'.answer) /\ pass'.page = page /\ Head(pass.page) = here  BY <1>2, <1>h, <1>p DEF Here
  <2> QED  BY <1>0, <2>1, PageGoes
<1>4. Pending' /\ pass'.page = page /\ asked' = asked \cup {<<l, here.row>> : l \in ls}  BY <1>2, <1>h, <1>p DEF Pending, NoAnswer
<1>5. NamedRight'
  <2>1. ASSUME Phase = Halves  PROVE a.named \/ slot["identity"][a.row] = "open"
    <3>1. here.named \/ slot["identity"][here.row] = "open"  BY <1>0, <1>1, <2>1 DEF EnrichInv, NamedRight
    <3>2. a.named = here.named /\ a.row = here.row  BY <1>h
    <3> QED  BY <3>1, <3>2
  <2> QED  BY <1>0, <1>3, <1>4, <2>1 DEF EnrichInv, NamedRight
<1>6. OwedAreTame'
  <2>1. \A t : TargetTame(t)' <=> TargetTame(t)  BY <1>3 DEF TargetTame
  <2>2. ASSUME Sweep # "all"  PROVE AnswerTame(a)
    <3>1. TargetTame(here)  BY <1>0, <1>1, <2>2 DEF EnrichInv, OwedAreTame
    <3>2. CASE Phase = {"identity"}
      <4>1. Phase # Halves  BY <3>2 DEF Halves
      <4> QED  BY <1>h, <3>1, <3>2, <4>1 DEF TargetTame, AnswerTame
    <3>3. CASE Phase # {"identity"}  BY <1>h, <3>1, <3>3 DEF TargetTame, AnswerTame
    <3> QED  BY <3>2, <3>3
  <2>3. AnswerTame(a)' <=> AnswerTame(a)  BY <1>3 DEF AnswerTame
  <2> QED  BY <1>0, <1>3, <1>4, <2>1, <2>2, <2>3 DEF EnrichInv, OwedAreTame
<1>7. FirstSweepOnce'
  <2> SUFFICES ASSUME pass.n = 1, NEW l \in Lookup, NEW r \in Row, <<l, r>> \in asked'  PROVE Behind(l, r)
    BY <1>3 DEF FirstSweepOnce
  <2>1. CASE <<l, r>> \in asked  BY <1>0, <2>1 DEF EnrichInv, FirstSweepOnce
  <2>2. CASE l \in ls /\ r = here.row
    <3>1. \A i \in 1..Len(Phases) : l \in Phases[i] => i = pass.ph  BY <1>t, <2>2, PhaseFacts
    <3> QED  BY <1>1, <2>2, <3>1 DEF Behind
  <2> QED  BY <1>4, <2>1, <2>2
<1>8. PageUnasked'
  <2>1. \A t, l : Due(t, l)' <=> Due(t, l)  BY <1>3 DEF Due
  <2>2. ASSUME NEW k \in 1..Len(page), NEW l \in Phase, Due(page[k], l)  PROVE <<l, page[k].row>> \notin asked'
    <3>1. page[k].row # here.row /\ <<l, page[k].row>> \notin asked  BY <1>0, <1>3, <2>2 DEF EnrichInv, PageUnasked
    <3> QED  BY <1>4, <3>1
  <2> QED  BY <1>3, <1>4, <2>1, <2>2 DEF PageUnasked
<1>9. AskedQuiet'
  <2> SUFFICES ASSUME NEW i \in 1..Len(Phases), NEW r \in Row, NEW l \in Phases[i], NEW h \in Phases[i],
                      <<l, r>> \in asked', ~Forced(i), ~(a.row = r /\ i = pass.ph)
               PROVE  Quiet(h, r)
    BY <1>3, <1>4 DEF AskedQuiet, Forced
  <2>1. <<l, r>> \in asked
    <3>1. ASSUME l \in ls, r = here.row  PROVE FALSE
      <4>1. i = pass.ph  BY <1>t, <3>1, PhaseFacts
      <4> QED  BY <1>h, <3>1, <4>1
    <3> QED  BY <1>4, <3>1
  <2> QED  BY <1>0, <2>1 DEF EnrichInv, AskedQuiet
<1>10. UnaskedQuiet'
  <2>1. \A t, l : Due(t, l)' <=> Due(t, l)  BY <1>3 DEF Due
  <2>2. Forced(pass.ph)' <=> Forced(pass.ph)  BY DEF Forced
  <2>3. ASSUME ~Forced(pass.ph), Phase # {"identity"}, NEW h \in Phase, h \notin a.asked  PROVE Quiet(h, a.row)
    <3>1. ~Due(here, h)  BY <1>h, <2>3
    <3> QED  BY <1>0, <1>1, <1>h, <2>3, <3>1 DEF EnrichInv, UnaskedQuiet
  <2> QED  BY <1>0, <1>3, <1>4, <2>1, <2>2, <2>3 DEF EnrichInv, UnaskedQuiet
<1>11. AskedOnce
  <2> SUFFICES ASSUME NEW l \in Phase, Phase # {"identity"} => l \in a.asked  PROVE <<l, here.row>> \notin asked
    BY <1>h DEF AskedOnce
  <2>1. Due(here, l)  BY <1>h
  <2> QED  BY <1>0, <1>1, <2>1 DEF EnrichInv, PageUnasked
<1> QED  BY <1>3, <1>5, <1>6, <1>7, <1>8, <1>9, <1>10, <1>11 DEF EnrichInv

\* What an action that asks leaves the pass as.
LEMMA AnsweredShape ==
  ASSUME EnrichInv, Asking, NEW g, NEW a, NEW ls, Answered(g, a, ls)
  PROVE  /\ UNCHANGED <<table, entity, mark, slot, unnamed, hands>>
         /\ PassShape(pass') /\ pass'.page = Tail(pass.page) /\ pass'.answer = a
         /\ pass'.n = pass.n /\ pass'.ph = pass.ph /\ pass'.after = pass.after /\ pass'.how = pass.how
         /\ pass'.sweeps = pass.sweeps /\ pass'.deferred = pass.deferred
         /\ asked' = asked \cup {<<l, Here.row>> : l \in ls}
<1>1. PassShape(pass)  BY UnderWay DEF EnrichInv, Asking, PassOK
<1>2. Dropped(pass) = [pass EXCEPT !.page = Tail(pass.page)]  BY <1>1 DEF Dropped, PassShape, PassFields
<1>3. PassShape(Dropped(pass)) /\ Dropped(pass).page = Tail(pass.page)
      /\ \A f \in PassFields \ {"page"} : Dropped(pass)[f] = pass[f]
  BY <1>1, <1>2 DEF PassShape, PassFields
<1>4. pass' = [Dropped(pass) EXCEPT !.fails = g.fails, !.out = g.out, !.answer = a]  BY DEF Answered
<1>5. PassShape(pass') /\ pass'.page = Tail(pass.page) /\ pass'.answer = a
      /\ \A f \in PassFields \ {"page", "fails", "out", "answer"} : pass'[f] = pass[f]
  BY <1>3, <1>4 DEF PassShape, PassFields
<1> QED  BY <1>5 DEF Answered, PassFields

\* The row that is asked about.
LEMMA HereFacts ==
  ASSUME EnrichInv, Asking
  PROVE  /\ Here \in Targets /\ Here.row \in Row /\ Here.genres \in BOOLEAN /\ Here.named \in BOOLEAN
         /\ Here.due \in [Phase -> 0..3]
<1>1. EnrichTypeOK /\ pass # NoPass /\ pass.page # <<>> /\ pass.page \in Seq(Targets)  BY UnderWay DEF EnrichInv, Asking, PassOK
<1>2. 1 \in 1..Len(pass.page) /\ Here = pass.page[1]  BY <1>1, PageTail DEF Here
<1>3. Here \in Targets  BY <1>1, <1>2
<1> QED  BY <1>3 DEF Targets

\* Asking for an identity.
LEMMA IdentityAsked ==
  ASSUME EnrichInv, Asking, Phase = {"identity"}, NEW found \in BOOLEAN, NEW genres, NEW failed \in BOOLEAN, NEW unasked \in BOOLEAN,
         OwedWalk => ~failed, NEW g, Answered(g, Identity(found, genres, failed, unasked), {"identity"})
  PROVE  EnrichInv' /\ HandsWin /\ AskedOnce /\ OwedNotRenewed
<1>a. PICK a : a = Identity(found, genres, failed, unasked)  OBVIOUS
<1>l. PICK ls : ls = {"identity"}  OBVIOUS
<1>1. /\ a.row = Here.row /\ a.named = Here.named /\ {a.found, a.failed, a.unasked} \subseteq BOOLEAN /\ (OwedWalk => ~a.failed)
  BY <1>a DEF Identity
<1>2. Answered(g, a, ls)  BY <1>a, <1>l
<1>3. \A l \in Phase : l \in ls <=> Due(Here, l)  BY <1>l DEF Due, Halves
<1>4. ls \subseteq Phase  BY <1>l
<1> QED  BY <1>1, <1>2, <1>3, <1>4, <1>l, AnsweredShape, AskStep

\* Asking for what fills slots.
LEMMA SlotsAsked ==
  ASSUME EnrichInv, Asking, Phase # {"identity"}, NEW g, NEW ls, ls \subseteq Phase, NEW failed, Answered(g, Brought(g, ls, failed), ls),
         \A l \in Phase : l \in ls <=> Due(Here, l),
         \A l \in ls : l \in failed => IF Phase = Halves THEN Here.due[l] \in {1, 3} ELSE ~OwedWalk
  PROVE  EnrichInv' /\ HandsWin /\ AskedOnce /\ OwedNotRenewed
<1>a. PICK a : a = Brought(g, ls, failed)  OBVIOUS
<1>1. a.row = Here.row /\ a.named = Here.named /\ a.asked = ls /\ a.failed = failed  BY <1>a DEF Brought
<1>2. Answered(g, a, ls)  BY <1>a
<1>3. \A l \in ls : l \in a.failed => IF Phase = Halves THEN Here.due[l] \in {1, 3} ELSE ~OwedWalk  BY <1>1
<1> QED  BY <1>1, <1>2, <1>3, AnsweredShape, AskStep

\* Each lookup that the providers are asked for.
LEMMA AskSafe ==
  ASSUME EnrichInv, NEW found \in BOOLEAN, NEW replies,
         \/ EnrichArtist(found) \/ EnrichBook(found) \/ EnrichReleaseGroup(found, replies)
         \/ EnrichArtistArt(replies) \/ EnrichGroupArt(replies) \/ EnrichAlbumArt(replies)
         \/ EnrichLyrics(replies) \/ EnrichFields(replies)
  PROVE  EnrichInv' /\ HandsWin /\ AskedOnce /\ OwedNotRenewed
<1>1. CASE EnrichArtist(found) \/ EnrichBook(found)
  <2>1. Asking /\ Phase = {"identity"} /\ Answered(NoProvider, Identity(found, FALSE, FALSE, FALSE), {"identity"})
    BY <1>1 DEF EnrichArtist, EnrichBook, OnlyMusicBrainz
  <2> QED  BY <2>1, IdentityAsked
<1>2. CASE EnrichReleaseGroup(found, replies)
  <2>g. PICK g : g = IF found THEN GatherGenres(replies) ELSE NoProvider  OBVIOUS
  <2>w. PICK wanting \in BOOLEAN : wanting = (found /\ Here.genres /\ g.got = {})  OBVIOUS
  <2>f. PICK failed \in BOOLEAN : failed = Owes(wanting /\ g.failed # {})  BY DEF Owes
  <2>u. PICK unasked \in BOOLEAN : unasked = (wanting /\ g.skipped # {})  OBVIOUS
  <2>1. Asking /\ Phase = {"identity"} /\ Answered(g, Identity(found, g.got # {}, failed, unasked), {"identity"})
    BY <1>2, <2>g, <2>w, <2>f, <2>u DEF EnrichReleaseGroup
  <2>2. OwedWalk => ~failed  BY <2>f DEF Owes
  <2>3. PICK genres : genres = (g.got # {})  OBVIOUS
  <2> QED  BY <2>1, <2>2, <2>3, IdentityAsked
<1>3. CASE EnrichArtistArt(replies) \/ EnrichGroupArt(replies) \/ EnrichAlbumArt(replies)
  <2>l. PICK ls : ls = DueOf(Here)  OBVIOUS
  <2>g. PICK g : g = IF "front" \in ls THEN GatherArt(ls, replies) ELSE GatherAuxArt(replies)  OBVIOUS
  <2>f. PICK failed : failed = {h \in ls : h \in g.failed /\ Here.due[h] # 2}  OBVIOUS
  <2>1. Asking /\ Phase = Halves /\ Answered(g, Brought(g, ls, failed), ls)
    BY <1>3, <2>l, <2>g, <2>f DEF EnrichArtistArt, EnrichGroupArt, EnrichAlbumArt, GatherHalves, Halves
  <2>2. ls \subseteq Phase /\ \A l \in Phase : l \in ls <=> Due(Here, l)  BY <2>1, <2>l DEF DueOf, Due
  <2>3. ASSUME NEW l \in ls, l \in failed  PROVE Here.due[l] \in {1, 3}
    <3>1. Here.due[l] \in 0..3 /\ Here.due[l] # 0 /\ Here.due[l] # 2  BY <2>1, <2>l, <2>f, <2>2, <2>3, HereFacts DEF DueOf
    <3> QED  BY <3>1
  <2>4. Phase # {"identity"}  BY <2>1 DEF Halves
  <2> QED  BY <2>1, <2>2, <2>3, <2>4, SlotsAsked
<1>4. CASE EnrichLyrics(replies) \/ EnrichFields(replies)
  <2>l. PICK ls : ls = Phase  OBVIOUS
  <2>g. PICK g : g = Gather(Phase, replies, FALSE, {})  OBVIOUS
  <2>f. PICK failed : failed = {l \in g.failed : Owes(TRUE)}  OBVIOUS
  <2>1. Asking /\ Phase \in {{"lyrics"}, {"fields"}} /\ Answered(g, Brought(g, ls, failed), ls)
    BY <1>4, <2>l, <2>g, <2>f DEF EnrichLyrics, EnrichFields, GatherPort
  <2>2. Phase # {"identity"} /\ Phase # Halves  BY <2>1 DEF Halves
  <2>3. \A l \in Phase : l \in ls <=> Due(Here, l)  BY <2>2, <2>l DEF Due
  <2>4. \A l \in ls : l \in failed => ~OwedWalk  BY <2>f DEF Owes
  <2> QED  BY <2>1, <2>2, <2>3, <2>4, <2>l, SlotsAsked
<1> QED  BY <1>1, <1>2, <1>3, <1>4

\* An album's release is looked for.
LEMMA MatchSafe ==
  ASSUME EnrichInv, NEW how \in {"identifier", "edition", "no edition", "browse cut short"}, MatchAlbumRelease(how)
  PROVE  EnrichInv' /\ HandsWin /\ AskedOnce /\ OwedNotRenewed
<1>1. Asking /\ Phase = {"identity"} /\ PassShape(pass)  BY UnderWay DEF EnrichInv, MatchAlbumRelease, Asking, PassOK
<1>f. PICK found \in BOOLEAN : found = (how = "identifier" \/ how = "edition")  OBVIOUS
<1>o. PICK failed \in BOOLEAN : failed = (how = "browse cut short" /\ Owes(TRUE))  OBVIOUS
<1>a. PICK a : a = Identity(found, FALSE, failed, FALSE)  OBVIOUS
<1>b. PICK b : b = CASE how \in {"edition", "no edition"} -> "usable" [] how = "browse cut short" -> "unusable" [] OTHER -> pass.browsed
  OBVIOUS
<1>2. /\ pass' = [Dropped(pass) EXCEPT !.browsed = b, !.answer = a]
      /\ asked' = asked \cup {<<"identity", Here.row>>} /\ UNCHANGED <<table, entity, mark, slot, unnamed, hands>>
  BY <1>f, <1>o, <1>a, <1>b DEF MatchAlbumRelease
<1>3. Dropped(pass) = [pass EXCEPT !.page = Tail(pass.page)]  BY <1>1 DEF Dropped, PassShape, PassFields
<1>4. PassShape(Dropped(pass)) /\ Dropped(pass).page = Tail(pass.page)
      /\ \A f \in PassFields \ {"page"} : Dropped(pass)[f] = pass[f]
  BY <1>1, <1>3 DEF PassShape, PassFields
<1>5. PassShape(pass') /\ pass'.page = Tail(pass.page) /\ pass'.answer = a
      /\ \A f \in PassFields \ {"page", "browsed", "answer"} : pass'[f] = pass[f]
  BY <1>2, <1>4 DEF PassShape, PassFields
<1>6. /\ pass'.n = pass.n /\ pass'.ph = pass.ph /\ pass'.after = pass.after /\ pass'.how = pass.how
      /\ pass'.sweeps = pass.sweeps /\ pass'.deferred = pass.deferred
  BY <1>5 DEF PassFields
<1>l. PICK ls : ls = {"identity"}  OBVIOUS
<1>7. asked' = asked \cup {<<l, Here.row>> : l \in ls}  BY <1>2, <1>l
<1>8. a.row = Here.row /\ a.named = Here.named /\ {a.found, a.failed, a.unasked} \subseteq BOOLEAN /\ (OwedWalk => ~a.failed)
  BY <1>a, <1>o DEF Identity, Owes
<1>9. ls \subseteq Phase /\ \A l \in Phase : l \in ls <=> Due(Here, l)  BY <1>1, <1>l DEF Due, Halves
<1> QED  BY <1>1, <1>2, <1>5, <1>6, <1>7, <1>8, <1>9, <1>l, AskStep
-----------------------------------------------------------------------------
\* How an answer may change a marker without making its lookup due again in the pass.
Kept(k, v) == v = k \/ v = NoMark \/ v.age = 0 \/ (k # NoMark /\ k.owed /\ v.owed /\ v.age = k.age)

\* What a settled marker is.
LEMMA SettledFacts ==
  ASSUME NEW k, k \in Marker \cup {NoMark}, NEW matched, matched \in BOOLEAN, NEW failed, NEW unasked, NEW rider,
         NEW v, v = Settled(k, matched, failed, unasked, rider)
  PROVE  /\ v \in Marker /\ v # NoMark /\ Kept(k, v)
         /\ v.age = 0 \/ (rider /\ ~failed /\ k # NoMark /\ k.owed /\ v.owed /\ v.age = k.age)
         /\ k # NoMark /\ k.owed /\ v.owed /\ ~failed => v.age = k.age
<1>2. k # NoMark => k \in Marker /\ k.age \in Nat  BY DEF Marker
<1>3. \A m \in Marker : m # NoMark  BY DEF Marker, NoMark
<1>4. CASE failed \/ (unasked /\ rider)
  <2>1. PICK age : age = IF ~failed /\ k # NoMark /\ k.owed THEN k.age ELSE 0  OBVIOUS
  <2>2. v = [matched |-> matched, owed |-> TRUE, age |-> age]  BY <1>4, <2>1 DEF Settled
  <2>3. age \in Nat  BY <1>2, <2>1
  <2>4. v \in Marker /\ v.owed /\ v.age = age  BY <2>2, <2>3 DEF Marker
  <2> QED  BY <1>3, <1>4, <2>1, <2>4 DEF Kept
<1>5. CASE ~(failed \/ (unasked /\ rider))
  <2>1. v = [matched |-> matched, owed |-> FALSE, age |-> 0]  BY <1>5 DEF Settled
  <2>2. v \in Marker /\ ~v.owed /\ v.age = 0  BY <2>1 DEF Marker
  <2> QED  BY <1>3, <2>2 DEF Kept
<1> QED  BY <1>4, <1>5

\* The pass without its answer.
LEMMA StoredFacts ==
  ASSUME EnrichInv, Storing, Stored, table' = table
  PROVE  /\ PassOK' /\ pass' # NoPass /\ pass # NoPass /\ Pending /\ ~Pending' /\ Phases' = Phases /\ Phase' = Phase
         /\ Sweep' = Sweep /\ OwedWalk' = OwedWalk
         /\ pass'.page = pass.page /\ pass'.answer = NoAnswer
         /\ pass'.n = pass.n /\ pass'.ph = pass.ph /\ pass'.after = pass.after /\ pass'.how = pass.how
         /\ pass'.sweeps = pass.sweeps /\ pass'.deferred = pass.deferred
         /\ AnswerOK(pass.answer) /\ pass.answer.row \in Row /\ EnrichTypeOK
<1>1. EnrichTypeOK /\ pass # NoPass /\ pass.answer # NoAnswer  BY DEF EnrichInv, Storing, Answer
<1>2. PassOK /\ PassShape(pass) /\ AnswerOK(pass.answer) /\ pass.answer.row \in Row  BY <1>1, UnderWay DEF PassOK, Pending
<1>3. pass' = [pass EXCEPT !.answer = NoAnswer, !.done = @ + 1]  BY DEF Stored
<1>4. PassShape(pass') /\ pass'.answer = NoAnswer /\ \A f \in PassFields \ {"answer", "done"} : pass'[f] = pass[f]
  BY <1>2, <1>3 DEF PassShape, PassFields
<1>5. /\ pass'.page = pass.page
      /\ pass'.n = pass.n /\ pass'.ph = pass.ph /\ pass'.after = pass.after /\ pass'.how = pass.how
      /\ pass'.sweeps = pass.sweeps /\ pass'.deferred = pass.deferred
  BY <1>4 DEF PassFields
<1>6. Phases' = Phases  BY DEF Phases
<1>7. Phase' = Phase /\ Sweep' = Sweep /\ OwedWalk' = OwedWalk  BY <1>5, <1>6 DEF Phase, Sweep, ForcingPhase, OwedWalk
<1>8. Targets' = Targets  BY <1>7 DEF Targets
<1>9. PassOK'
  <2>1. ~(pass.n > 1 /\ pass.how = pass.ph)  BY <1>1, <1>2 DEF PassOK
  <2> QED  BY <1>2, <1>4, <1>5, <1>6, <1>8, <2>1 DEF PassOK
<1>10. pass' # NoPass
  <2>1. pass'.sweeps # NoPass.sweeps  BY <1>2, <1>5 DEF PassOK, SweepLists, NoPass
  <2> QED  BY <2>1
<1>11. Pending /\ ~Pending'  BY <1>1, <1>4 DEF Pending, NoAnswer
<1> QED  BY <1>1, <1>2, <1>4, <1>5, <1>6, <1>7, <1>9, <1>10, <1>11

\* An answer is stored: the row that was asked about is quiet from then on.
LEMMA StoreStep ==
  ASSUME EnrichInv, Storing, Stored, UNCHANGED <<table, entity, asked, hands>>, NEW x, x = pass.answer.row,
         mark' \in [Lookup -> [Row -> Marker \cup {NoMark}]], slot' \in [Slot -> [Row -> {"open", "found", "hand"}]],
         \A r \in Row : entity[r] = 0 =>
           (\A l \in Lookup : mark'[l][r] = mark[l][r]) /\ (\A s \in Slot : slot'[s][r] = slot[s][r]),
         \A l \in Lookup, r \in Row : Kept(mark[l][r], mark'[l][r]),
         \A s \in Slot, r \in Row : slot'[s][r] = slot[s][r] \/ (slot[s][r] = "open" /\ slot'[s][r] = "found"),
         Phase = Halves => \A r \in Row : slot'["identity"][r] = slot["identity"][r],
         ArtAskedByName', OwedNotRenewed,
         ~Forced(pass.ph) => \A h \in Phase : Quiet(h, x)'
  PROVE  EnrichInv' /\ HandsWin /\ AskedOnce /\ OwedNotRenewed
<1>s. /\ PassOK' /\ pass' # NoPass /\ pass # NoPass /\ Pending /\ ~Pending' /\ Phases' = Phases /\ Phase' = Phase
      /\ Sweep' = Sweep /\ OwedWalk' = OwedWalk
      /\ pass'.page = pass.page /\ pass'.answer = NoAnswer
      /\ pass'.n = pass.n /\ pass'.ph = pass.ph /\ pass'.after = pass.after /\ pass'.how = pass.how
      /\ pass'.sweeps = pass.sweeps /\ pass'.deferred = pass.deferred
      /\ AnswerOK(pass.answer) /\ pass.answer.row \in Row /\ EnrichTypeOK
  BY StoredFacts
<1>1. EnrichTypeOK'  BY <1>s DEF EnrichTypeOK, Marker, NoMark
<1>2. HeirsStartFresh'  BY <1>s DEF EnrichInv, HeirsStartFresh, NoMark
<1>3. \A l \in Lookup, r \in Row : Tame(mark[l][r]) => Tame(mark'[l][r])  BY DEF Tame, Kept
<1>4. \A l, r : Behind(l, r) <=> Behind(l, r)'  BY <1>s DEF Behind
<1>5. ASSUME NEW l \in Lookup, NEW r \in Row, Quiet(l, r)  PROVE Quiet(l, r)'
  <2>1. CASE mark'[l][r] = NoMark  BY <2>1 DEF Quiet, NoMark
  <2>2. CASE mark'[l][r].age = 0  BY <2>2 DEF Quiet
  <2>3. CASE l \in Halves /\ ~Vacant(l, r)
    <3>1. l \in Slot /\ slot[l][r] # "open"  BY <2>3 DEF Halves, Slot, Lookup, Vacant
    <3>2. slot'[l][r] # "open"  BY <3>1
    <3> QED  BY <2>3, <3>2 DEF Quiet, Vacant, Halves
  <2>4. CASE mark'[l][r] = mark[l][r] /\ mark[l][r] # NoMark /\ ~(l \in Halves /\ ~Vacant(l, r))
    BY <1>s, <1>4, <1>5, <2>4 DEF Quiet
  <2>5. CASE /\ mark[l][r] # NoMark /\ mark[l][r].owed /\ mark'[l][r].owed /\ mark'[l][r].age = mark[l][r].age
             /\ ~(l \in Halves /\ ~Vacant(l, r))
    BY <1>s, <1>4, <1>5, <2>5 DEF Quiet
  <2> QED  BY <2>1, <2>2, <2>3, <2>4, <2>5 DEF Kept
<1>6. Phase \subseteq Lookup /\ pass.ph \in 1..Len(Phases) /\ Phase = Phases[pass.ph]
      /\ \A k \in 1..Len(pass.page) : pass.page[k].row \in Row
  BY <1>s, UnderWay
<1>7. NamedRight'  BY <1>s, <1>6 DEF EnrichInv, NamedRight
<1>8. OwedAreTame'
  <2>1. ASSUME Sweep # "all", NEW k \in 1..Len(pass.page)  PROVE TargetTame(pass.page[k])'
    <3>1. TargetTame(pass.page[k])  BY <1>s, <2>1 DEF EnrichInv, OwedAreTame
    <3>2. pass'.page[k] = pass.page[k] /\ pass.page[k].row \in Row  BY <1>s, <1>6
    <3> QED  BY <1>s, <1>3, <1>6, <3>1, <3>2 DEF TargetTame
  <2> QED  BY <1>s, <2>1 DEF OwedAreTame
<1>9. FirstSweepOnce'  BY <1>s, <1>4 DEF EnrichInv, FirstSweepOnce
<1>10. PageUnasked'
  <2>1. \A t, l : Due(t, l)' <=> Due(t, l)  BY <1>s DEF Due
  <2> QED  BY <1>s, <2>1 DEF EnrichInv, PageUnasked
<1>11. AskedQuiet'
  <2> SUFFICES ASSUME NEW i \in 1..Len(Phases), NEW r \in Row, NEW l \in Phases[i], NEW h \in Phases[i],
                      <<l, r>> \in asked, ~Forced(i)
               PROVE  Quiet(h, r)'
    BY <1>s DEF AskedQuiet, Forced
  <2>1. CASE x = r /\ i = pass.ph  BY <1>6, <2>1
  <2>2. CASE ~(x = r /\ i = pass.ph)
    <3>1. Quiet(h, r)  BY <1>s, <2>2 DEF EnrichInv, AskedQuiet
    <3>2. h \in Lookup  BY <1>s, PhaseFacts DEF EnrichTypeOK
    <3> QED  BY <1>5, <3>1, <3>2
  <2> QED  BY <2>1, <2>2
<1>12. UnaskedQuiet'
  <2>1. \A t, l : Due(t, l)' <=> Due(t, l)  BY <1>s DEF Due
  <2>2. Forced(pass.ph)' <=> Forced(pass.ph)  BY <1>s DEF Forced
  <2>3. ASSUME ~Forced(pass.ph), NEW k \in 1..Len(pass.page), NEW h \in Phase, ~Due(pass.page[k], h)
        PROVE  Quiet(h, pass.page[k].row)'
    <3>1. Quiet(h, pass.page[k].row)  BY <1>s, <2>3 DEF EnrichInv, UnaskedQuiet
    <3> QED  BY <1>s, <1>5, <1>6, <3>1
  <2> QED  BY <1>s, <2>1, <2>2, <2>3 DEF UnaskedQuiet
<1>13. HandsWin  BY DEF HandsWin
<1>14. AskedOnce  BY <1>s DEF AskedOnce, Pending
<1> QED  BY <1>1, <1>2, <1>7, <1>8, <1>9, <1>10, <1>11, <1>12, <1>13, <1>14 DEF EnrichInv

\* The owed lookups an unforced pass asks again keep their age.
LEMMA UnforcedSweep ==
  ASSUME EnrichInv, pass # NoPass, pass.how = Unforced
  PROVE  Sweep # "all"
<1>1. PassOK /\ pass.ph \in 1..Len(Phases) /\ pass.ph \in Nat /\ Len(Phases) \in {2, 3}  BY UnderWay DEF EnrichInv
<1>2. pass.how # pass.ph /\ pass.how # AllForced  BY <1>1 DEF Unforced, AllForced
<1> QED  BY <1>1, <1>2, SweepFacts DEF Sweep, ForcingPhase

\* Nothing changes but the answer.
LEMMA StoreNothingSafe ==
  ASSUME EnrichInv, StoreNothing
  PROVE  EnrichInv' /\ HandsWin /\ AskedOnce /\ OwedNotRenewed
<1>1. Storing /\ Stored /\ entity[pass.answer.row] = 0 /\ UNCHANGED <<table, entity, mark, slot, asked, unnamed, hands>>
  BY DEF StoreNothing, Alive, Answer
<1>r. PICK x : x = pass.answer.row  OBVIOUS
<1>2. x \in Row /\ EnrichTypeOK /\ pass # NoPass /\ pass'.answer = NoAnswer /\ PassOK'  BY <1>1, <1>r, StoredFacts
<1>3. HeirsStartFresh /\ ArtAskedByName  BY DEF EnrichInv
<1>4. ArtAskedByName' /\ OwedNotRenewed  BY <1>1, <1>2, PassAlone
<1>5. \A h \in Phase : Quiet(h, x)'
  <2>1. Phase \subseteq Lookup  BY <1>2, UnderWay
  <2>2. \A h \in Lookup : mark'[h][x] = NoMark  BY <1>1, <1>2, <1>3, <1>r DEF HeirsStartFresh
  <2> QED  BY <2>1, <2>2 DEF Quiet, NoMark
<1>6. /\ mark' \in [Lookup -> [Row -> Marker \cup {NoMark}]] /\ slot' \in [Slot -> [Row -> {"open", "found", "hand"}]]
      /\ \A l \in Lookup, r \in Row : Kept(mark[l][r], mark'[l][r])
  BY <1>1, <1>2 DEF EnrichTypeOK, Kept
<1> QED  BY <1>1, <1>4, <1>5, <1>6, <1>r, StoreStep

\* An identity answer settles its marker, and the art of a row whose MBID landed is asked again.
LEMMA IdentityStored ==
  ASSUME EnrichInv, NEW of, StoringIdentity(of), NEW lands \in BOOLEAN, NEW fills, NEW rider \in BOOLEAN,
         StoreIdentity(lands, fills, rider), "identity" \in fills => lands
  PROVE  EnrichInv' /\ HandsWin /\ AskedOnce /\ OwedNotRenewed
<1>r. PICK r : r = pass.answer.row  OBVIOUS
<1>a. PICK a : a = pass.answer  OBVIOUS
<1>1. Storing /\ Stored /\ Phase = {"identity"} /\ entity[r] # 0 /\ UNCHANGED <<table, entity, asked, hands>>
  BY <1>r DEF StoringIdentity, StoreIdentity, Alive, Answer
<1>2. /\ r \in Row /\ EnrichTypeOK /\ pass # NoPass /\ AnswerOK(a) /\ Pending
      /\ pass'.n = pass.n /\ pass'.ph = pass.ph /\ pass'.after = pass.after /\ Phases' = Phases
  BY <1>1, <1>r, <1>a, StoredFacts
<1>3. a.row = r /\ {a.found, a.failed, a.unasked} \subseteq BOOLEAN /\ r <= pass.after  BY <1>1, <1>2, <1>a, <1>r DEF AnswerOK
<1>b. PICK base : base = IF lands THEN ForgetArtMarks(mark, r) ELSE mark  OBVIOUS
<1>4. /\ base \in [Lookup -> [Row -> Marker \cup {NoMark}]] /\ base["identity"][r] = mark["identity"][r]
      /\ \A l \in Lookup, x \in Row : base[l][x] = IF lands /\ l \in Halves /\ x = r THEN NoMark ELSE mark[l][x]
  <2>1. mark \in [Lookup -> [Row -> Marker \cup {NoMark}]] /\ {"identity", "front", "aux"} \subseteq Lookup
    BY <1>2 DEF EnrichTypeOK, Lookup
  <2>2. CASE lands
    <3>1. base = [mark EXCEPT !["front"][r] = NoMark, !["aux"][r] = NoMark]  BY <1>b, <2>2 DEF ForgetArtMarks
    <3> QED  BY <1>2, <2>1, <2>2, <3>1 DEF Halves
  <2>3. CASE ~lands  BY <1>2, <1>b, <2>1, <2>3
  <2> QED  BY <2>2, <2>3
<1>k. PICK k \in Marker \cup {NoMark} : k = mark["identity"][r]
  BY <1>2 DEF EnrichTypeOK, Lookup
<1>v. PICK v : v = Settled(k, a.found, a.failed, a.unasked, rider)  OBVIOUS
<1>5. /\ v \in Marker /\ v # NoMark /\ Kept(k, v)
      /\ v.age = 0 \/ (rider /\ ~a.failed /\ k # NoMark /\ k.owed /\ v.owed /\ v.age = k.age)
      /\ k # NoMark /\ k.owed /\ v.owed /\ ~a.failed => v.age = k.age
  <2>1. a.found \in BOOLEAN /\ a.failed \in BOOLEAN /\ a.unasked \in BOOLEAN  BY <1>3
  <2>m. PICK matched \in BOOLEAN : matched = a.found  BY <2>1
  <2>f. PICK failed \in BOOLEAN : failed = a.failed  BY <2>1
  <2>u. PICK unasked \in BOOLEAN : unasked = a.unasked  BY <2>1
  <2>2. v = Settled(k, matched, failed, unasked, rider)  BY <1>v, <2>m, <2>f, <2>u
  <2> QED  BY <2>2, <2>f, SettledFacts
<1>6. /\ mark' = [base EXCEPT !["identity"][r] = v]
      /\ slot' = [s \in Slot |-> [x \in Row |-> IF x = r /\ slot[s][x] = "open" /\ s \in fills THEN "found" ELSE slot[s][x]]]
      /\ unnamed' \subseteq unnamed
  BY <1>4, <1>a, <1>b, <1>k, <1>r, <1>v DEF StoreIdentity, Answer
<1>7. /\ mark' \in [Lookup -> [Row -> Marker \cup {NoMark}]] /\ mark'["identity"][r] = v
      /\ \A l \in Lookup, x \in Row : (l # "identity" \/ x # r) => mark'[l][x] = mark[l][x] \/ mark'[l][x] = NoMark
      /\ lands => \A h \in Halves : mark'[h][r] = NoMark
      /\ \A l \in Lookup, x \in Row : x # r => mark'[l][x] = mark[l][x]
  <2>1. "identity" \in Lookup /\ "identity" \notin Halves /\ Halves \subseteq Lookup  BY DEF Lookup, Halves
  <2>2. \A l \in Lookup, x \in Row : mark'[l][x] = IF l = "identity" /\ x = r THEN v ELSE base[l][x]
    BY <1>2, <1>4, <1>6, <2>1
  <2>3. mark' \in [Lookup -> [Row -> Marker \cup {NoMark}]]  BY <1>2, <1>4, <1>5, <1>6, <2>1
  <2> QED  BY <1>2, <1>4, <2>1, <2>2, <2>3
<1>8. /\ slot' \in [Slot -> [Row -> {"open", "found", "hand"}]]
      /\ \A s \in Slot, x \in Row : /\ slot'[s][x] = slot[s][x] \/ (slot[s][x] = "open" /\ slot'[s][x] = "found" /\ s \in fills)
                                    /\ x # r => slot'[s][x] = slot[s][x]
  <2>1. slot \in [Slot -> [Row -> {"open", "found", "hand"}]]  BY <1>2 DEF EnrichTypeOK
  <2> QED  BY <1>6, <2>1
<1>9. \A l \in Lookup, x \in Row : Kept(mark[l][x], mark'[l][x])
  <2> TAKE l \in Lookup, x \in Row
  <2>1. CASE l = "identity" /\ x = r  BY <1>5, <1>7, <1>k, <2>1
  <2>2. CASE ~(l = "identity" /\ x = r)  BY <1>7, <2>2 DEF Kept
  <2> QED  BY <2>1, <2>2
<1>10. ArtAskedByName'
  <2> SUFFICES ASSUME NEW x \in Row, NEW h \in Halves, slot'["identity"][x] # "open", mark'[h][x] # NoMark
               PROVE  <<h, x>> \notin unnamed'
    BY DEF ArtAskedByName, Halves
  <2>1. h \in Lookup /\ h # "identity" /\ "identity" \in Slot  BY DEF Halves, Lookup, Slot
  <2>2. mark[h][x] # NoMark  BY <1>7, <2>1
  <2>3. slot["identity"][x] # "open"
    <3>1. CASE x = r  BY <1>7, <1>8, <2>1, <3>1
    <3>2. CASE x # r  BY <1>8, <2>1, <3>2
    <3> QED  BY <3>1, <3>2
  <2> QED  BY <1>6, <2>2, <2>3 DEF EnrichInv, ArtAskedByName, Halves
<1>11. ASSUME Sweep # "all"  PROVE AnswerTame(a)  BY <1>2, <1>11, <1>a DEF EnrichInv, OwedAreTame
<1>12. OwedNotRenewed
  <2> SUFFICES ASSUME NEW l \in Lookup, NEW x \in Row, mark[l][x] # NoMark, mark[l][x].owed,
                      mark'[l][x] # NoMark, mark'[l][x].owed, pass.how = Unforced
               PROVE  mark'[l][x].age >= mark[l][x].age
    BY DEF OwedNotRenewed
  <2>0. mark[l][x] \in Marker /\ mark[l][x].age \in Nat  BY <1>2 DEF EnrichTypeOK, Marker
  <2>1. CASE l = "identity" /\ x = r
    <3>1. AnswerTame(a)  BY <1>2, <1>11, UnforcedSweep
    <3>2. a.failed => Tame(k)  BY <1>1, <1>3, <1>k, <3>1 DEF AnswerTame
    <3>3. k # NoMark /\ k.owed /\ v.owed  BY <1>7, <1>k, <2>1
    <3>4. CASE a.failed
      <4>1. k.age = 0  BY <3>2, <3>3, <3>4 DEF Tame
      <4>2. v.age = 0  BY <1>5, <3>4
      <4> QED  BY <1>7, <1>k, <2>1, <4>1, <4>2
    <3>5. CASE ~a.failed
      <4>1. v.age = k.age  BY <1>5, <3>3, <3>5
      <4> QED  BY <1>7, <1>k, <2>0, <2>1, <4>1
    <3> QED  BY <3>4, <3>5
  <2>2. CASE ~(l = "identity" /\ x = r)  BY <1>7, <2>0, <2>2
  <2> QED  BY <2>1, <2>2
<1>13. ASSUME ~Forced(pass.ph)  PROVE \A h \in Phase : Quiet(h, r)'
  <2>0. PassOK /\ pass.ph \in 1..Len(Phases) /\ Phase = Phases[pass.ph] /\ pass.ph \in Nat  BY <1>2, UnderWay
  <2>1. Sweep = pass.sweeps[pass.n] /\ Sweep # "all"  BY <1>13, <2>0, SweepFacts DEF Sweep, ForcingPhase, Forced
  <2>2. AnswerTame(a)  BY <1>11, <2>1
  <2>3. CASE v.age = 0  BY <1>1, <1>7, <2>3 DEF Quiet
  <2>4. CASE k # NoMark /\ k.owed /\ v.owed /\ v.age = k.age
    <3>1. CASE ~OwedWalk
      <4>1. Tame(k)  BY <1>1, <1>3, <1>k, <2>2, <3>1 DEF AnswerTame
      <4> QED  BY <2>3, <2>4, <4>1 DEF Tame
    <3>2. CASE OwedWalk
      <4>1. pass.n = 2
        <5>1. pass.sweeps[pass.n] = "deferred"  BY <3>2 DEF OwedWalk
        <5> QED  BY <2>0, <5>1, SweepFacts
      <4>2. \A i \in 1..Len(Phases) : "identity" \in Phases[i] => i = pass.ph
        BY <1>1, <1>2, <2>0, PhaseFacts DEF EnrichTypeOK
      <4>3. Behind("identity", r)'  BY <1>2, <1>3, <4>2 DEF Behind
      <4> QED  BY <1>1, <1>2, <1>7, <2>4, <4>1, <4>3 DEF Quiet
    <3> QED  BY <3>1, <3>2
  <2> QED  BY <1>5, <2>3, <2>4
<1>14. Phase # Halves /\ HeirsStartFresh  BY <1>1 DEF Halves, EnrichInv
<1>15. \A x \in Row : entity[x] = 0 =>
         (\A l \in Lookup : mark'[l][x] = mark[l][x]) /\ (\A s \in Slot : slot'[s][x] = slot[s][x])
  BY <1>1, <1>7, <1>8
<1> QED  BY <1>1, <1>7, <1>8, <1>9, <1>10, <1>12, <1>13, <1>14, <1>15, <1>r, StoreStep

\* The four identity answers.
LEMMA ApplyIdentitySafe ==
  ASSUME EnrichInv, NEW held \in BOOLEAN,
         ApplyArtistEnrichment(held) \/ ApplyReleaseGroupEnrichment(held) \/ ApplyAlbumReleaseMatch(held) \/ ApplyBookEnrichment
  PROVE  EnrichInv' /\ HandsWin /\ AskedOnce /\ OwedNotRenewed
<1>l. PICK lands \in BOOLEAN : lands = Lands(held)  BY DEF Lands
<1>s. PICK landed : landed = LandedSlots(held)  OBVIOUS
<1>1. "identity" \in landed => lands  BY <1>l, <1>s DEF LandedSlots
<1>2. CASE ApplyArtistEnrichment(held)
  <2>1. StoringIdentity("artist") /\ StoreIdentity(lands, landed, FALSE)  BY <1>2, <1>l, <1>s DEF ApplyArtistEnrichment
  <2> QED  BY <1>1, <2>1, IdentityStored
<1>3. CASE ApplyReleaseGroupEnrichment(held)
  <2>f. PICK fills : fills = landed \cup NewGenres  OBVIOUS
  <2>1. StoringIdentity("release_group") /\ StoreIdentity(lands, fills, TRUE)
    BY <1>3, <1>l, <1>s, <2>f DEF ApplyReleaseGroupEnrichment
  <2>2. "identity" \in fills => lands  BY <1>1, <2>f DEF NewGenres
  <2> QED  BY <2>1, <2>2, IdentityStored
<1>4. CASE ApplyAlbumReleaseMatch(held)
  <2>1. StoringIdentity("album") /\ StoreIdentity(lands, landed, FALSE)  BY <1>4, <1>l, <1>s DEF ApplyAlbumReleaseMatch
  <2> QED  BY <1>1, <2>1, IdentityStored
<1>5. CASE ApplyBookEnrichment
  <2>f. PICK fills : fills = IF Answer.found THEN {"fields"} ELSE {}  OBVIOUS
  <2>1. StoringIdentity("book") /\ StoreIdentity(FALSE, fills, FALSE)  BY <1>5, <2>f DEF ApplyBookEnrichment
  <2>2. "identity" \notin fills  BY <2>f
  <2> QED  BY <2>1, <2>2, IdentityStored
<1> QED  BY <1>2, <1>3, <1>4, <1>5

\* What a lookup of slots brought is stored, and its marker settled.
LEMMA LookupStored ==
  ASSUME EnrichInv, NEW kind, "identity" \notin kind, kind \subseteq Slot, NEW of, StoreLookup(kind, of)
  PROVE  EnrichInv' /\ HandsWin /\ AskedOnce /\ OwedNotRenewed
<1>r. PICK r : r = pass.answer.row  OBVIOUS
<1>a. PICK a : a = pass.answer  OBVIOUS
<1>1. /\ Storing /\ Stored /\ Phase = kind /\ entity[r] # 0 /\ UNCHANGED <<table, entity, asked, hands>>
      /\ slot' = FillOpen(r, a.got \cap kind) /\ mark' = SettleAsked(r)
      /\ unnamed' = IF kind # Halves THEN unnamed
                    ELSE IF a.named THEN unnamed \ {<<h, r>> : h \in a.asked} ELSE unnamed \cup {<<h, r>> : h \in a.asked}
  BY <1>r, <1>a DEF StoreLookup, Alive, Answer, Halves
<1>2. /\ r \in Row /\ EnrichTypeOK /\ pass # NoPass /\ AnswerOK(a) /\ Pending /\ Phase \subseteq Lookup
      /\ pass'.n = pass.n /\ pass'.ph = pass.ph /\ pass'.after = pass.after /\ Phases' = Phases
  BY <1>1, <1>r, <1>a, StoredFacts, UnderWay
<1>3. Phase # {"identity"} /\ a.row = r /\ a.asked \subseteq Phase /\ "identity" \notin a.asked /\ a.named \in BOOLEAN
  BY <1>1, <1>2, <1>a, <1>r DEF AnswerOK
<1>4. ASSUME NEW l \in Lookup, NEW x \in Row
      PROVE  mark'[l][x] = IF x = r /\ l \in a.asked
                           THEN Settled(mark[l][x], l \in a.got, l \in a.failed, l \in a.unasked, FALSE) ELSE mark[l][x]
  <2>1. SettleAsked(r) = [y \in Lookup |-> [z \in Row |->
          IF z = r /\ y \in a.asked
          THEN Settled(mark[y][z], y \in a.got, y \in a.failed, y \in a.unasked, FALSE) ELSE mark[y][z]]]
    BY <1>a, Zenon DEF SettleAsked, Answer
  <2> QED  BY <1>1, <2>1
<1>m. \A l \in Lookup, x \in Row : mark[l][x] \in Marker \cup {NoMark}  BY <1>2 DEF EnrichTypeOK
<1>5. ASSUME NEW l \in a.asked, NEW k, k = mark[l][r], NEW v, v = mark'[l][r]
      PROVE  /\ l \in Lookup /\ v \in Marker /\ v # NoMark /\ Kept(k, v) /\ v.age = 0
             /\ k # NoMark /\ k.owed /\ v.owed /\ l \notin a.failed => v.age = k.age
  <2>1. l \in Lookup /\ k \in Marker \cup {NoMark}  BY <1>2, <1>3, <1>m, <1>5
  <2>2. v = Settled(k, l \in a.got, l \in a.failed, l \in a.unasked, FALSE)  BY <1>2, <1>4, <1>5, <2>1
  <2>m. PICK matched : matched = (l \in a.got)  OBVIOUS
  <2>f. PICK failed : failed = (l \in a.failed)  OBVIOUS
  <2>u. PICK unasked : unasked = (l \in a.unasked)  OBVIOUS
  <2>r. PICK rider : rider = FALSE  OBVIOUS
  <2>3. v = Settled(k, matched, failed, unasked, rider)  BY <2>2, <2>m, <2>f, <2>u, <2>r
  <2>4. matched \in BOOLEAN /\ failed \in BOOLEAN /\ unasked \in BOOLEAN  BY <2>m, <2>f, <2>u
  <2>5. /\ v \in Marker /\ v # NoMark /\ Kept(k, v)
        /\ v.age = 0 \/ (rider /\ ~failed /\ k # NoMark /\ k.owed /\ v.owed /\ v.age = k.age)
        /\ k # NoMark /\ k.owed /\ v.owed /\ ~failed => v.age = k.age
    BY <2>1, <2>3, <2>4, SettledFacts
  <2>6. v.age = 0  BY <2>5, <2>r
  <2>7. l \notin a.failed => ~failed  BY <2>f
  <2> QED  BY <2>1, <2>5, <2>6, <2>7
<1>6. \A l \in Lookup, x \in Row : x # r \/ l \notin a.asked => mark'[l][x] = mark[l][x]  BY <1>4
<1>7. mark' \in [Lookup -> [Row -> Marker \cup {NoMark}]]
  <2>1. ASSUME NEW l \in Lookup, NEW x \in Row  PROVE mark'[l][x] \in Marker \cup {NoMark}
    <3>1. CASE x = r /\ l \in a.asked  BY <1>5, <3>1
    <3>2. CASE x # r \/ l \notin a.asked  BY <1>m, <1>6, <3>2
    <3> QED  BY <3>1, <3>2
  <2>2. PICK f : f = SettleAsked(r)  OBVIOUS
  <2>3. f = [l \in Lookup |-> [x \in Row |-> f[l][x]]]  BY <2>2 DEF SettleAsked
  <2>4. \A l \in Lookup, x \in Row : f[l][x] \in Marker \cup {NoMark}  BY <1>1, <2>1, <2>2
  <2>5. f \in [Lookup -> [Row -> Marker \cup {NoMark}]]  BY <2>3, <2>4
  <2> QED  BY <1>1, <2>2, <2>5
<1>8. /\ slot' \in [Slot -> [Row -> {"open", "found", "hand"}]]
      /\ \A s \in Slot, x \in Row : /\ slot'[s][x] = slot[s][x] \/ (slot[s][x] = "open" /\ slot'[s][x] = "found")
                                    /\ x # r \/ s \notin kind => slot'[s][x] = slot[s][x]
  <2>1. slot \in [Slot -> [Row -> {"open", "found", "hand"}]]  BY <1>2 DEF EnrichTypeOK
  <2>2. PICK got : got = a.got \cap kind  OBVIOUS
  <2>3. slot' = [s \in Slot |-> [x \in Row |-> IF x = r /\ s \in got /\ slot[s][x] = "open" THEN "found" ELSE slot[s][x]]]
    BY <1>1, <2>2 DEF FillOpen
  <2>4. \A s \in Slot, x \in Row : s \notin kind => s \notin got  BY <2>2
  <2> QED  BY <2>1, <2>3, <2>4
<1>9. \A l \in Lookup, x \in Row : Kept(mark[l][x], mark'[l][x])
  <2> TAKE l \in Lookup, x \in Row
  <2>1. CASE x = r /\ l \in a.asked  BY <1>5, <2>1
  <2>2. CASE x # r \/ l \notin a.asked  BY <1>6, <2>2 DEF Kept
  <2> QED  BY <2>1, <2>2
<1>i. "identity" \in Slot /\ \A x \in Row : slot'["identity"][x] = slot["identity"][x]  BY <1>8 DEF Slot, Lookup
<1>10. ArtAskedByName'
  <2> SUFFICES ASSUME NEW x \in Row, NEW h \in Halves, slot'["identity"][x] # "open", mark'[h][x] # NoMark
               PROVE  <<h, x>> \notin unnamed'
    BY DEF ArtAskedByName, Halves
  <2>1. h \in Lookup /\ slot["identity"][x] # "open"  BY <1>i DEF Halves, Lookup
  <2>2. CASE x = r /\ h \in a.asked
    <3>1. Phase = Halves
      <4>1. h \in Phase  BY <1>3, <2>2
      <4> QED  BY <1>2, <4>1, UnderWay DEF Halves
    <3>2. a.named  BY <1>2, <1>3, <1>a, <2>1, <2>2, <3>1 DEF EnrichInv, NamedRight
    <3> QED  BY <1>1, <2>2, <3>1, <3>2
  <2>3. CASE x # r \/ h \notin a.asked
    <3>1. mark[h][x] # NoMark  BY <1>6, <2>1, <2>3
    <3>2. <<h, x>> \notin unnamed  BY <2>1, <3>1 DEF EnrichInv, ArtAskedByName, Halves
    <3> QED  BY <1>1, <2>3, <3>2
  <2> QED  BY <2>2, <2>3
<1>11. OwedNotRenewed
  <2> SUFFICES ASSUME NEW l \in Lookup, NEW x \in Row, mark[l][x] # NoMark, mark[l][x].owed,
                      mark'[l][x] # NoMark, mark'[l][x].owed, pass.how = Unforced
               PROVE  mark'[l][x].age >= mark[l][x].age
    BY DEF OwedNotRenewed
  <2>0. mark[l][x].age \in Nat  BY <1>m DEF Marker
  <2>1. CASE x = r /\ l \in a.asked
    <3>1. AnswerTame(a)  BY <1>2, <1>a, UnforcedSweep DEF EnrichInv, OwedAreTame
    <3>2. CASE l \in a.failed
      <4>1. Tame(mark[l][r])  BY <1>3, <2>1, <3>1, <3>2 DEF AnswerTame
      <4>2. mark[l][x].age = 0  BY <2>1, <4>1 DEF Tame
      <4>3. mark'[l][x].age = 0  BY <1>5, <2>1
      <4> QED  BY <4>2, <4>3
    <3>3. CASE l \notin a.failed
      <4>1. mark'[l][x].age = mark[l][x].age  BY <1>5, <2>1, <3>3
      <4> QED  BY <2>0, <4>1
    <3> QED  BY <3>2, <3>3
  <2>2. CASE x # r \/ l \notin a.asked  BY <1>6, <2>0, <2>2
  <2> QED  BY <2>1, <2>2
<1>12. ASSUME ~Forced(pass.ph)  PROVE \A h \in Phase : Quiet(h, r)'
  <2> TAKE h \in Phase
  <2>1. CASE h \in a.asked
    <3>1. mark'[h][r].age = 0  BY <1>5, <2>1
    <3> QED  BY <3>1 DEF Quiet
  <2>2. CASE h \notin a.asked
    <3>1. Quiet(h, r)  BY <1>2, <1>3, <1>12, <1>a, <2>2 DEF EnrichInv, UnaskedQuiet
    <3>2. h \in Lookup /\ mark'[h][r] = mark[h][r]  BY <1>2, <1>6, <2>2
    <3>3. ~Vacant(h, r) => ~Vacant(h, r)'
      <4>1. h \in Slot  BY <3>2 DEF Slot
      <4> QED  BY <1>2, <1>8, <4>1 DEF Vacant
    <3>4. Behind(h, r) <=> Behind(h, r)'  BY <1>2 DEF Behind
    <3> QED  BY <1>2, <3>1, <3>2, <3>3, <3>4 DEF Quiet
  <2> QED  BY <2>1, <2>2
<1>13. \A x \in Row : entity[x] = 0 =>
         (\A l \in Lookup : mark'[l][x] = mark[l][x]) /\ (\A s \in Slot : slot'[s][x] = slot[s][x])
  <2> TAKE x \in Row
  <2> HAVE entity[x] = 0
  <2>1. x # r  BY <1>1
  <2> QED  BY <1>6, <1>8, <2>1
<1>14. Storing /\ Stored /\ UNCHANGED <<table, entity, asked, hands>>  BY <1>1
<1>15. /\ slot' \in [Slot -> [Row -> {"open", "found", "hand"}]]
       /\ \A s \in Slot, x \in Row : slot'[s][x] = slot[s][x] \/ (slot[s][x] = "open" /\ slot'[s][x] = "found")
  BY <1>8
<1> QED  BY <1>7, <1>9, <1>10, <1>11, <1>12, <1>13, <1>14, <1>15, <1>i, <1>r, StoreStep

\* The six answers that fill slots.
LEMMA ApplyLookupSafe ==
  ASSUME EnrichInv,
         \/ ApplyArtistArtBackfill \/ ApplyReleaseGroupArtBackfill \/ ApplyAlbumArtBackfill
         \/ ApplyLyricsEnrichment \/ ApplyItemFields \/ ApplyAlbumFields
  PROVE  EnrichInv' /\ HandsWin /\ AskedOnce /\ OwedNotRenewed
<1>1. PICK kind, of : kind \in {Halves, {"lyrics"}, {"fields"}} /\ StoreLookup(kind, of)
  BY DEF ApplyArtistArtBackfill, ApplyReleaseGroupArtBackfill, ApplyAlbumArtBackfill, ApplyLyricsEnrichment, ApplyItemFields,
         ApplyAlbumFields, Halves
<1>2. "identity" \notin kind /\ kind \subseteq Slot  BY <1>1 DEF Halves, Slot, Lookup
<1> QED  BY <1>1, <1>2, LookupStored
-----------------------------------------------------------------------------
\* A pass that no step of its own changes.
LEMMA PassStands ==
  ASSUME EnrichTypeOK, table' = table, pass' = pass
  PROVE  pass' = NoPass \/ PassOK'
<1>1. Phases' = Phases /\ Targets' = Targets  BY DEF Phases, Targets, Phase
<1>2. Phase' = Phase  BY <1>1 DEF Phase
<1>3. pass.answer = NoAnswer \/ AnswerOK(pass.answer) => pass'.answer = NoAnswer \/ AnswerOK(pass.answer)'
  BY <1>2 DEF AnswerOK
<1> QED  BY <1>1, <1>3 DEF EnrichTypeOK, PassOK

\* A slot is filled by hand.
LEMMA SetByHandSafe ==
  ASSUME EnrichInv, NEW s \in Slot \ {"identity"}, NEW r \in Row, SetByHand(s, r)
  PROVE  EnrichInv' /\ HandsWin /\ AskedOnce /\ OwedNotRenewed
<1>1. /\ slot' = [slot EXCEPT ![s][r] = "hand"] /\ UNCHANGED <<table, entity, mark, pass, asked, unnamed>>
      /\ hands > 0 /\ hands' = hands - 1 /\ entity[r] # 0
  BY DEF SetByHand
<1>t. EnrichTypeOK /\ HeirsStartFresh  BY DEF EnrichInv
<1>2. /\ slot' \in [Slot -> [Row -> {"open", "found", "hand"}]]
      /\ \A t \in Slot, x \in Row : slot'[t][x] = IF t = s /\ x = r THEN "hand" ELSE slot[t][x]
  <2>1. slot \in [Slot -> [Row -> {"open", "found", "hand"}]]  BY <1>t DEF EnrichTypeOK
  <2> QED  BY <1>1, <2>1
<1>3. hands' \in Nat  BY <1>1, <1>t DEF EnrichTypeOK
<1>4. pass' = NoPass \/ PassOK'  BY <1>1, <1>t, PassStands
<1>5. EnrichTypeOK'  BY <1>1, <1>2, <1>3, <1>4, <1>t DEF EnrichTypeOK, NoPass, Marker, NoMark
<1>6. HeirsStartFresh'  BY <1>1, <1>2, <1>t DEF HeirsStartFresh, NoMark
<1>7. EnrichInv'
  <2>1. \A l \in Halves, x \in Row : slot[l][x] # "open" /\ slot'[l][x] = "open" => mark'[l][x] = NoMark
    BY <1>2 DEF Halves, Slot, Lookup
  <2>2. \A x \in Row : slot'["identity"][x] = slot["identity"][x]  BY <1>2 DEF Slot, Lookup
  <2> QED  BY <1>1, <1>5, <1>6, <2>1, <2>2, OutsideStep
<1>8. HandsWin  BY <1>1, <1>2 DEF HandsWin
<1>9. AskedOnce /\ OwedNotRenewed
  <2>1. \A l \in Lookup, x \in Row : mark[l][x] \in Marker \cup {NoMark}  BY <1>t DEF EnrichTypeOK
  <2> QED  BY <1>1, <2>1 DEF AskedOnce, OwedNotRenewed, Marker, NoMark
<1> QED  BY <1>7, <1>8, <1>9

\* An art slot is emptied, and its half forgotten.
LEMMA ClearByHandSafe ==
  ASSUME EnrichInv, NEW h \in Halves, NEW r \in Row, ClearByHand(h, r)
  PROVE  EnrichInv' /\ HandsWin /\ AskedOnce /\ OwedNotRenewed
<1>1. /\ slot' = [slot EXCEPT ![h][r] = "open"] /\ mark' = [mark EXCEPT ![h][r] = NoMark]
      /\ asked' = asked \ {<<h, r>>} /\ UNCHANGED <<table, entity, pass, unnamed>>
      /\ hands > 0 /\ hands' = hands - 1 /\ entity[r] # 0
  BY DEF ClearByHand
<1>t. EnrichTypeOK /\ HeirsStartFresh /\ h \in Lookup /\ h \in Slot /\ h # "identity"
  BY DEF EnrichInv, Halves, Lookup, Slot
<1>2. /\ slot' \in [Slot -> [Row -> {"open", "found", "hand"}]]
      /\ \A t \in Slot, x \in Row : slot'[t][x] = IF t = h /\ x = r THEN "open" ELSE slot[t][x]
  <2>1. slot \in [Slot -> [Row -> {"open", "found", "hand"}]]  BY <1>t DEF EnrichTypeOK
  <2> QED  BY <1>1, <1>t, <2>1
<1>m. /\ mark' \in [Lookup -> [Row -> Marker \cup {NoMark}]]
      /\ \A l \in Lookup, x \in Row : mark'[l][x] = IF l = h /\ x = r THEN NoMark ELSE mark[l][x]
      /\ \A l \in Lookup, x \in Row : mark[l][x] \in Marker \cup {NoMark}
  <2>1. mark \in [Lookup -> [Row -> Marker \cup {NoMark}]]  BY <1>t DEF EnrichTypeOK
  <2> QED  BY <1>1, <1>t, <2>1
<1>3. hands' \in Nat  BY <1>1, <1>t DEF EnrichTypeOK
<1>4. pass' = NoPass \/ PassOK'  BY <1>1, <1>t, PassStands
<1>5. EnrichTypeOK'  BY <1>1, <1>2, <1>m, <1>3, <1>4, <1>t DEF EnrichTypeOK, NoPass, Marker, NoMark
<1>6. HeirsStartFresh'  BY <1>1, <1>2, <1>m, <1>t DEF HeirsStartFresh, NoMark
<1>7. EnrichInv'
  <2>1. \A l \in Halves, x \in Row : slot[l][x] # "open" /\ slot'[l][x] = "open" => mark'[l][x] = NoMark
    BY <1>2, <1>m DEF Halves, Slot, Lookup
  <2>2. \A x \in Row : slot'["identity"][x] = slot["identity"][x]  BY <1>2, <1>t DEF Slot, Lookup
  <2>3. \A l \in Lookup, x \in Row : mark'[l][x] = mark[l][x] \/ mark'[l][x] = NoMark  BY <1>m
  <2>4. asked' \subseteq asked /\ unnamed' \subseteq unnamed /\ table' = table /\ pass' = pass  BY <1>1
  <2> QED  BY <1>5, <1>6, <2>1, <2>2, <2>3, <2>4, OutsideStep
<1>8. HandsWin  BY <1>1, <1>2 DEF HandsWin
<1>9. AskedOnce  BY <1>1 DEF AskedOnce
<1>10. OwedNotRenewed  BY <1>m DEF OwedNotRenewed, Marker, NoMark
<1> QED  BY <1>7, <1>8, <1>9, <1>10

\* A rowid is taken again.
LEMMA TakeRowSafe ==
  ASSUME EnrichInv, NEW r \in Row, TakeRow(r)
  PROVE  EnrichInv' /\ HandsWin /\ AskedOnce /\ OwedNotRenewed
<1>1. /\ entity' = [entity EXCEPT ![r] = 2] /\ UNCHANGED <<table, mark, slot, pass, asked, unnamed>>
      /\ hands > 0 /\ hands' = hands - 1
  BY DEF TakeRow
<1>t. EnrichTypeOK /\ HeirsStartFresh  BY DEF EnrichInv
<1>2. entity' \in [Row -> Nat] /\ \A x \in Row : entity'[x] = IF x = r THEN 2 ELSE entity[x]
  BY <1>1, <1>t DEF EnrichTypeOK
<1>3. hands' \in Nat  BY <1>1, <1>t DEF EnrichTypeOK
<1>4. pass' = NoPass \/ PassOK'  BY <1>1, <1>t, PassStands
<1>5. EnrichTypeOK'  BY <1>1, <1>2, <1>3, <1>4, <1>t DEF EnrichTypeOK, NoPass, Marker, NoMark
<1>6. HeirsStartFresh'  BY <1>1, <1>2, <1>t DEF HeirsStartFresh, NoMark
<1>7. EnrichInv'  BY <1>1, <1>5, <1>6, OutsideStep
<1>8. \A l \in Lookup, x \in Row : mark[l][x] \in Marker \cup {NoMark}  BY <1>t DEF EnrichTypeOK
<1>9. HandsWin /\ AskedOnce  BY <1>1 DEF HandsWin, AskedOnce
<1>10. OwedNotRenewed  BY <1>1, <1>8 DEF OwedNotRenewed, Marker, NoMark
<1> QED  BY <1>7, <1>9, <1>10

\* A row goes, with everything about it.
LEMMA DropRowSafe ==
  ASSUME EnrichInv, NEW r \in Row, DropRow(r)
  PROVE  EnrichInv' /\ HandsWin /\ AskedOnce /\ OwedNotRenewed
<1>1. /\ entity' = [entity EXCEPT ![r] = 0] /\ UNCHANGED <<table, pass>> /\ asked' \subseteq asked /\ unnamed' \subseteq unnamed
      /\ hands > 0 /\ hands' = hands - 1 /\ mark' = DeleteMarkers(mark, r)
      /\ slot' = [s \in Slot |-> [slot[s] EXCEPT ![r] = "open"]]
  BY DEF DropRow
<1>t. EnrichTypeOK /\ HeirsStartFresh  BY DEF EnrichInv
<1>2. entity' \in [Row -> Nat] /\ \A x \in Row : entity'[x] = IF x = r THEN 0 ELSE entity[x]
  BY <1>1, <1>t DEF EnrichTypeOK
<1>m. /\ mark' \in [Lookup -> [Row -> Marker \cup {NoMark}]]
      /\ \A l \in Lookup, x \in Row : mark'[l][x] = IF x = r THEN NoMark ELSE mark[l][x]
      /\ \A l \in Lookup, x \in Row : mark[l][x] \in Marker \cup {NoMark}
  <2>1. mark \in [Lookup -> [Row -> Marker \cup {NoMark}]]  BY <1>t DEF EnrichTypeOK
  <2> QED  BY <1>1, <2>1 DEF DeleteMarkers
<1>s. /\ slot' \in [Slot -> [Row -> {"open", "found", "hand"}]]
      /\ \A t \in Slot, x \in Row : slot'[t][x] = IF x = r THEN "open" ELSE slot[t][x]
  <2>1. slot \in [Slot -> [Row -> {"open", "found", "hand"}]]  BY <1>t DEF EnrichTypeOK
  <2> QED  BY <1>1, <2>1
<1>3. hands' \in Nat  BY <1>1, <1>t DEF EnrichTypeOK
<1>4. pass' = NoPass \/ PassOK'  BY <1>1, <1>t, PassStands
<1>5. EnrichTypeOK'  BY <1>1, <1>2, <1>m, <1>s, <1>3, <1>4, <1>t DEF EnrichTypeOK, NoPass, Marker, NoMark
<1>6. HeirsStartFresh'
  <2> SUFFICES ASSUME NEW x \in Row, entity'[x] = 0
               PROVE  (\A l \in Lookup : mark'[l][x] = NoMark) /\ (\A s \in Slot : slot'[s][x] = "open")
    BY DEF HeirsStartFresh, NoMark
  <2>1. CASE x = r  BY <1>m, <1>s, <2>1
  <2>2. CASE x # r
    <3>1. entity[x] = 0  BY <1>2, <2>2
    <3>2. (\A l \in Lookup : mark[l][x] = NoMark) /\ (\A s \in Slot : slot[s][x] = "open")
      BY <1>t, <3>1 DEF HeirsStartFresh
    <3> QED  BY <1>m, <1>s, <2>2, <3>2
  <2> QED  BY <2>1, <2>2
<1>7. EnrichInv'
  <2>1. \A l \in Halves, x \in Row : slot[l][x] # "open" /\ slot'[l][x] = "open" => mark'[l][x] = NoMark
    BY <1>m, <1>s DEF Halves, Slot, Lookup
  <2>2. \A x \in Row : slot'["identity"][x] = slot["identity"][x] \/ slot'["identity"][x] = "open"  BY <1>s DEF Slot, Lookup
  <2>3. \A l \in Lookup, x \in Row : mark'[l][x] = mark[l][x] \/ mark'[l][x] = NoMark  BY <1>m
  <2> QED  BY <1>1, <1>5, <1>6, <2>1, <2>2, <2>3, OutsideStep
<1>8. HandsWin  BY <1>s DEF HandsWin
<1>9. AskedOnce  BY <1>1 DEF AskedOnce
<1>10. OwedNotRenewed  BY <1>m DEF OwedNotRenewed, Marker, NoMark
<1> QED  BY <1>7, <1>8, <1>9, <1>10
-----------------------------------------------------------------------------
\* A catalog nobody asked about.
LEMMA EnrichStarts == EnrichInit => EnrichInv
<1> SUFFICES ASSUME EnrichInit  PROVE EnrichInv  OBVIOUS
<1>1. /\ pass = NoPass /\ asked = {} /\ unnamed = {} /\ \A l \in Lookup, r \in Row : mark[l][r] = NoMark
      /\ \A s \in Slot, r \in Row : slot[s][r] = "open"
  BY DEF EnrichInit
<1>2. EnrichTypeOK
  <2>1. table \in {"artist", "release_group", "album", "book", "track"}  BY EnrichAssumption DEF EnrichInit
  <2>2. entity \in [Row -> Nat] /\ hands \in Nat  BY DEF EnrichInit
  <2> QED  BY <1>1, <2>1, <2>2 DEF EnrichInit, EnrichTypeOK
<1> QED
  BY <1>1, <1>2 DEF EnrichInv, HeirsStartFresh, ArtAskedByName, NamedRight, OwedAreTame, FirstSweepOnce, PageUnasked,
     AskedQuiet, UnaskedQuiet

\* Every action of the pass and of what goes on meanwhile.
LEMMA EnrichSteps ==
  EnrichInv /\ [EnrichNext]_enrichVars => EnrichInv' /\ [HandsWin /\ AskedOnce /\ OwedNotRenewed]_enrichVars
<1> SUFFICES ASSUME EnrichInv, [EnrichNext]_enrichVars
             PROVE  EnrichInv' /\ [HandsWin /\ AskedOnce /\ OwedNotRenewed]_enrichVars
  OBVIOUS
<1>1. CASE UNCHANGED enrichVars
  <2>1. EnrichTypeOK' /\ HeirsStartFresh'
    <3>1. EnrichTypeOK /\ HeirsStartFresh  BY DEF EnrichInv
    <3>2. pass' = NoPass \/ PassOK'  BY <1>1, <3>1, PassStands DEF enrichVars
    <3> QED  BY <1>1, <3>1, <3>2 DEF enrichVars, EnrichTypeOK, HeirsStartFresh, NoPass, NoMark, Marker
  <2> QED  BY <1>1, <2>1, OutsideStep DEF enrichVars
<1>2. CASE EnrichNext
  <2>1. CASE \E how \in Forcing : StartPass(how)  BY <2>1, StartPassSafe, EnrichAssumption
  <2>2. CASE PassNext
    <3>1. CASE FetchPage  BY <3>1, FetchPageSafe
    <3>2. CASE Stall \/ PassOver  BY <3>2, SkipSafe
    <3>3. CASE \E found \in BOOLEAN, replies \in Replies :
                 \/ EnrichArtist(found) \/ EnrichBook(found) \/ EnrichReleaseGroup(found, replies)
                 \/ EnrichArtistArt(replies) \/ EnrichGroupArt(replies) \/ EnrichAlbumArt(replies)
                 \/ EnrichLyrics(replies) \/ EnrichFields(replies)
      BY <3>3, AskSafe
    <3>4. CASE \E how \in {"identifier", "edition", "no edition", "browse cut short"} : MatchAlbumRelease(how)
      BY <3>4, MatchSafe
    <3>5. CASE StoreNothing  BY <3>5, StoreNothingSafe
    <3>6. CASE \E held \in BOOLEAN : \/ ApplyArtistEnrichment(held) \/ ApplyReleaseGroupEnrichment(held)
                                     \/ ApplyAlbumReleaseMatch(held) \/ ApplyBookEnrichment
      BY <3>6, ApplyIdentitySafe
    <3>7. CASE \/ ApplyArtistArtBackfill \/ ApplyReleaseGroupArtBackfill \/ ApplyAlbumArtBackfill
               \/ ApplyLyricsEnrichment \/ ApplyItemFields \/ ApplyAlbumFields
      BY <3>7, ApplyLookupSafe
    <3>8. \E replies : replies \in Replies
      <4>1. [p \in ToSet(Providers) |-> "fail"] \in Replies  BY DEF Replies
      <4> QED  BY <4>1
    <3> QED  BY <2>2, <3>1, <3>2, <3>3, <3>4, <3>5, <3>6, <3>7, <3>8 DEF PassNext
  <2>3. CASE EndPass  BY <2>3, EndPassSafe
  <2>4. CASE \E r \in Row : \/ DropRow(r) \/ TakeRow(r)
                            \/ \E s \in Slot \ {"identity"} : SetByHand(s, r)
                            \/ \E h \in {"front", "aux"} : ClearByHand(h, r)
    BY <2>4, DropRowSafe, TakeRowSafe, SetByHandSafe, ClearByHandSafe DEF Halves
  <2> QED  BY <1>2, <2>1, <2>2, <2>3, <2>4 DEF EnrichNext
<1> QED  BY <1>1, <1>2

\* A pass, its queues and its markers agree at every step, whatever the providers
\* answer, whatever is forced and whatever goes on meanwhile (enrich/enrich.go).
THEOREM EnrichInvariance == EnrichSpec => []EnrichInv
<1> QED  BY EnrichStarts, EnrichSteps, PTL DEF EnrichSpec

\* A row that takes another's place is asked about afresh, and art looked up without
\* an MBID is looked up again with it (store/sqlite/enrich.go).
THEOREM RowsAskedRightHolds == EnrichSpec => []RowsAskedRight
<1>1. EnrichInv => RowsAskedRight  BY DEF EnrichInv, RowsAskedRight
<1> QED  BY <1>1, EnrichInvariance, PTL

\* What an operator put gives way to an operator only, no pass asks for the same
\* thing twice, and a lookup that is owed is not put off by asking (enrich.go).
THEOREM PassesKeepHolds == EnrichSpec => PassesKeep
<1> QED  BY EnrichStarts, EnrichSteps, PTL DEF EnrichSpec, PassesKeep

-----------------------------------------------------------------------------
(***************************************************************************)
(* Origins.  A writer nobody asked for takes the record it changes out of  *)
(* the hands that left it (RecordStored); a hand leaves it owed            *)
(* (HandsWrite); and a fill takes a url and an id of one event only, and a *)
(* provider only with its id (FillSpeaksOfOne).                            *)
(***************************************************************************)

\* Every record has the columns of the table.
RecordFields == {"type", "url", "id", "provider", "version", "options", "at"}
RecordShape(r) == r = [f \in RecordFields |-> r[f]]

OriginsTypeOK ==
  /\ origin = [i \in Items |-> origin[i]] /\ \A i \in Items : RecordShape(origin[i])
  /\ fileTags = [i \in Items |-> fileTags[i]] /\ originLock \subseteq Items /\ byHand \subseteq Items
  /\ pendingStamp # NoStamp => pendingStamp.item \in Items
  /\ writeBack # NoWriteBack => writeBack.item \in Items

OriginsInv == OriginsTypeOK /\ HandsOwed

\* An event's own url and id are one acquisition's, and its id is its provider's.
EventsOfOne == \A e \in Events : OneAcquisition(e)

LEMMA RecordFacts ==
  /\ RecordShape(NoOrigin)
  /\ \A cur, e : RecordShape(Merged(cur, e))
  /\ \A cur, e : RecordShape(cur) => RecordShape(FilledIn(cur, e))
  /\ \A i, p : RecordShape(origin[i]) => RecordShape(FromTags(i, p))
<1>1. RecordShape(NoOrigin)  BY DEF RecordShape, RecordFields, NoOrigin
<1>2. \A cur, e : RecordShape(Merged(cur, e))
  <2> SUFFICES ASSUME NEW cur, NEW e PROVE RecordShape(Merged(cur, e))  OBVIOUS
  <2> DEFINE t == IF e.type # "" THEN e.type ELSE Or(cur.type, "manual")
             d == IF e.id # "" THEN e.id
                  ELSE IF e.provider # "" /\ cur.provider # "" /\ e.provider # cur.provider THEN "" ELSE cur.id
             n == IF cur = NoOrigin THEN e.at ELSE cur.at
  <2>1. Merged(cur, e) = [type |-> t, url |-> Or(e.url, cur.url), id |-> d, provider |-> Or(e.provider, cur.provider),
                          version |-> Or(e.version, cur.version), options |-> Or(e.options, cur.options), at |-> n]
    BY DEF Merged
  <2> HIDE DEF t, d, n
  <2> QED  BY <2>1 DEF RecordShape, RecordFields
<1>3. ASSUME NEW cur, NEW e, RecordShape(cur)  PROVE RecordShape(FilledIn(cur, e))
  <2>1. ASSUME NEW u, NEW p, NEW d, NEW o, NEW v
        PROVE  RecordShape([cur EXCEPT !.url = u, !.provider = p, !.id = d, !.options = o, !.version = v])
    <3>1. ASSUME NEW r, RecordShape(r), NEW f \in RecordFields, NEW x  PROVE RecordShape([r EXCEPT ![f] = x])
      BY <3>1 DEF RecordShape
    <3> QED  BY <1>3, <3>1 DEF RecordFields
  <2> QED  BY <1>2, <1>3, <2>1 DEF FilledIn
<1>4. ASSUME NEW i, NEW p, RecordShape(origin[i])  PROVE RecordShape(FromTags(i, p))
  <2>1. RecordShape([NoOrigin EXCEPT !.type = "manual", !.url = fileTags[i].url, !.id = fileTags[i].id, !.at = 1])
    BY DEF RecordShape, RecordFields, NoOrigin
  <2> QED  BY <1>4, <2>1 DEF FromTags
<1> QED  BY <1>1, <1>2, <1>3, <1>4

\* A fill takes a url beside the id it came with or none, and an id beside its provider
\* or none (sameAcquisition, fillAcquisitionTx).
LEMMA FillSpeaksOfOne ==
  ASSUME NEW cur, NEW e, RecordShape(cur), OneAcquisition(cur), OneAcquisition(e)
  PROVE  OneAcquisition(FilledIn(cur, e))
<1> DEFINE Beside(r) == \E a \in Acquisitions : r.url \in {"", a.url} /\ r.id \in {"", a.id}
           Under(r) == \E a \in Acquisitions : r.id \in {"", a.id} /\ r.provider \in {"", a.provider}
           r == FilledIn(cur, e)
<1>1. Beside(cur) /\ Under(cur) /\ Beside(e) /\ Under(e)  BY DEF OneAcquisition
<1>2. SUFFICES Beside(r) /\ Under(r)  BY DEF OneAcquisition
<1>3. CASE cur = NoOrigin
  <2>1. r = Merged(cur, e)  BY <1>3 DEF FilledIn
  <2>2. Merged(cur, e).url = e.url /\ Merged(cur, e).id = e.id /\ Merged(cur, e).provider = e.provider
    BY <1>3 DEF Merged, NoOrigin, Or
  <2> QED  BY <1>1, <2>1, <2>2
<1>4. CASE cur # NoOrigin /\ (e.type \notin {"", cur.type} \/ ~SameAcquisition(cur, e))
  <2>1. r = cur  BY <1>4 DEF FilledIn
  <2> QED  BY <1>1, <2>1
<1>5. CASE cur # NoOrigin /\ e.type \in {"", cur.type} /\ SameAcquisition(cur, e)
  <2>1. PICK u, p, d, o, v :
          /\ r = [cur EXCEPT !.url = u, !.provider = p, !.id = d, !.options = o, !.version = v]
          /\ u = Or(cur.url, e.url)
          /\ \/ cur.provider = "" /\ cur.id = "" /\ p = e.provider /\ d = e.id
             \/ e.provider # "" /\ e.provider = cur.provider /\ p = cur.provider /\ d = Or(cur.id, e.id)
             \/ cur.provider = "" /\ cur.id # "" /\ e.provider # "" /\ e.id = cur.id /\ p = e.provider /\ d = cur.id
             \/ p = cur.provider /\ d = cur.id
    BY <1>5 DEF FilledIn
  <2> HIDE DEF r
  <2>2. r.url = u /\ r.provider = p /\ r.id = d  BY <2>1 DEF RecordShape, RecordFields
  <2>3. /\ cur.url # "" => /\ e.url = cur.url /\ u = cur.url
        /\ cur.url = "" => u = e.url /\ (cur.id # "" => e.id = cur.id)
    BY <1>5, <2>1 DEF SameAcquisition, Or
  <2>4. d = cur.id \/ d = e.id  BY <2>1 DEF Or
  <2>5. u = e.url  BY <2>3
  <2>6. d = e.id \/ (d = cur.id /\ u = cur.url) \/ d = ""  BY <2>3, <2>4, <2>5
  <2>7. Beside(r)  BY <1>1, <2>2, <2>5, <2>6
  <2>8. Under(r)
    <3>1. CASE p = e.provider /\ d = e.id  BY <1>1, <2>2, <3>1
    <3>2. CASE p = cur.provider /\ d = cur.id  BY <1>1, <2>2, <3>2
    <3> QED  BY <2>1, <3>1, <3>2 DEF Or
  <2> QED  BY <2>7, <2>8
<1> QED  BY <1>3, <1>4, <1>5

LEMMA OriginsStart == OriginsInit => OriginsInv
<1> SUFFICES ASSUME OriginsInit PROVE OriginsInv  OBVIOUS
<1>1. fileTags = [i \in Items |-> fileTags[i]]  BY DEF OriginsInit
<1>2. origin = [i \in Items |-> origin[i]] /\ \A i \in Items : RecordShape(origin[i])
  BY RecordFacts DEF OriginsInit
<1> QED  BY <1>1, <1>2 DEF OriginsInit, OriginsInv, OriginsTypeOK, HandsOwed

\* Nobody's writer replaces one record and takes it out of the hands it was left by.
LEMMA RecordStored ==
  ASSUME OriginsInv, NEW i \in Items, NEW r, RecordShape(r), Store(i, r), UNCHANGED <<originLock, fileTags, lostTags, writeBack>>,
         owes' = owes \/ (owes' = owes \ {i} /\ r # origin[i]), pendingStamp' # NoStamp => pendingStamp'.item \in Items
  PROVE  OriginsInv' /\ origin'[i] = r /\ \A j \in Items \ {i} : origin'[j] = origin[j]
<1>1. /\ origin' = [j \in Items |-> origin'[j]] /\ origin'[i] = r /\ \A j \in Items \ {i} : origin'[j] = origin[j]
  BY DEF Store, OriginsInv, OriginsTypeOK
<1>2. \A j \in Items : RecordShape(origin[j])  BY DEF OriginsInv, OriginsTypeOK
<1>3. \A j \in Items : RecordShape(origin'[j])
  BY <1>1, <1>2
<1>4. (\A j \in Items : RecordShape(origin[j]))'  BY <1>3 DEF RecordShape
<1>5. OriginsTypeOK'  BY <1>1, <1>4 DEF Store, OriginsInv, OriginsTypeOK
<1>6. ASSUME NEW j \in byHand' \cap OwnFile  PROVE j \in owes' \cup lostTags' \/ fileTags'[j] = TagState(origin'[j])
  <2>1. j \in byHand /\ origin'[j] = origin[j]
    BY <1>1, <1>6 DEF Store, OriginsInv, OriginsTypeOK
  <2>2. r # origin[i] => j # i  BY <1>1, <2>1
  <2>3. j \in owes => j \in owes'  BY <2>2
  <2> QED  BY <1>6, <2>1, <2>3 DEF OriginsInv, HandsOwed, TagState
<1> QED  BY <1>1, <1>5, <1>6 DEF OriginsInv, HandsOwed

LEMMA OriginScanSafe ==
  ASSUME OriginsInv, NEW i \in Items, NEW p \in BOOLEAN, ScanOrigin(i, p)
  PROVE  OriginsInv' /\ lastStep'.by # "fill" /\ LocksStand
<1>1. RecordShape(FromTags(i, p))  BY RecordFacts DEF OriginsInv, OriginsTypeOK
<1>2. OriginsInv' /\ origin'[i] = FromTags(i, p) /\ \A j \in Items \ {i} : origin'[j] = origin[j]
  BY <1>1, RecordStored DEF ScanOrigin, OriginPaidByScan, OriginsInv, OriginsTypeOK
<1>3. lastStep'.by = IF p THEN "scan" ELSE "scan ignoring locks"  BY DEF ScanOrigin, Wrote
<1>4. i \in originLock /\ p => origin'[i] = origin[i]  BY <1>2 DEF FromTags
<1> QED  BY <1>2, <1>3, <1>4 DEF LocksStand, OriginsInv, OriginsTypeOK

LEMMA OriginImportSafe ==
  ASSUME OriginsInv, NEW i \in Items, NEW from \in Items \cup {""}, ImportPut(i, from)
  PROVE  OriginsInv' /\ lastStep'.by # "fill" /\ LocksStand
<1> DEFINE own == FromTags(i, TRUE)
           r == IF from # "" /\ own = NoOrigin THEN origin[from] ELSE own
<1>1. RecordShape(r)  BY RecordFacts DEF OriginsInv, OriginsTypeOK
<1>2. Store(i, r) /\ (from # "" => i \notin catalogued)  BY DEF ImportPut
<1>3. pendingStamp'.item = i  BY DEF ImportPut
<1>4. UNCHANGED <<originLock, fileTags, lostTags, writeBack>> /\ (owes' = owes \/ (owes' = owes \ {i} /\ r # origin[i]))
  <2>1. [NoOrigin EXCEPT !.type = "manual", !.url = fileTags[i].url, !.id = fileTags[i].id, !.at = 1].type # NoOrigin.type
    BY DEF NoOrigin
  <2>2. own # origin[i] => own # NoOrigin  BY <2>1 DEF FromTags
  <2>3. own # origin[i] => r = own  BY <2>2
  <2>4. UNCHANGED <<originLock, fileTags, lostTags, writeBack>> /\ OriginPaidByScan(i, own)  BY DEF ImportPut
  <2> HIDE DEF own, r
  <2> QED  BY <2>3, <2>4 DEF OriginPaidByScan
<1>5. OriginsInv' /\ origin'[i] = r /\ \A j \in Items \ {i} : origin'[j] = origin[j]
  BY <1>1, <1>2, <1>3, <1>4, RecordStored
<1>6. lastStep'.by = "scan"  BY DEF ImportPut, Wrote
<1>7. i \in originLock /\ i \in catalogued => origin'[i] = origin[i]  BY <1>2, <1>5 DEF FromTags
<1> QED  BY <1>5, <1>6, <1>7 DEF LocksStand, OriginsInv, OriginsTypeOK

\* A record is filled under no lock, and only by an event.
LEMMA OriginStampSafe ==
  ASSUME OriginsInv, NEW e \in Events, StampImport(e)
  PROVE  /\ OriginsInv' /\ LocksStand
         /\ lastStep'.by = "fill" => /\ lastStep'.item \in Items
                                     /\ origin'[lastStep'.item] = FilledIn(origin[lastStep'.item], e)
<1> DEFINE i == pendingStamp.item
<1>1. i \in Items /\ pendingStamp' = NoStamp /\ UNCHANGED <<originLock, fileTags, owes, lostTags, writeBack>>
  BY DEF StampImport, OriginsInv, OriginsTypeOK
<1>2. CASE i \in originLock
  <2>1. UNCHANGED <<origin, byHand>> /\ lastStep' = [by |-> "event", item |-> i]
    BY <1>2 DEF StampImport, Wrote
  <2>2. lastStep'.by # "fill"  BY <2>1
  <2>3. OriginsInv'
    BY <1>1, <2>1 DEF OriginsInv, OriginsTypeOK, HandsOwed, RecordShape, TagState
  <2> QED  BY <2>1, <2>2, <2>3 DEF LocksStand
<1>3. CASE i \notin originLock
  <2>1. PICK r : /\ Store(i, r) /\ RecordShape(r)
                 /\ \/ lastStep' = [by |-> "event", item |-> i]
                    \/ lastStep' = [by |-> "fill", item |-> i] /\ r = FilledIn(origin[i], e)
    BY <1>1, <1>3, RecordFacts DEF StampImport, Wrote, OriginsInv, OriginsTypeOK
  <2>2. OriginsInv' /\ origin'[i] = r /\ \A j \in Items \ {i} : origin'[j] = origin[j]
    BY <1>1, <2>1, RecordStored
  <2>3. LocksStand  BY <1>3, <2>2 DEF LocksStand, OriginsInv, OriginsTypeOK
  <2>4. ASSUME lastStep'.by = "fill"
        PROVE  lastStep'.item = i /\ origin'[i] = FilledIn(origin[i], e)
    BY <2>1, <2>2, <2>4
  <2> QED  BY <1>1, <2>2, <2>3, <2>4
<1> QED  BY <1>2, <1>3

LEMMA OriginPutSafe ==
  ASSUME OriginsInv, NEW i \in Items, NEW e \in Events, PutAcquisition(i, e)
  PROVE  OriginsInv' /\ lastStep'.by # "fill" /\ LocksStand
<1>1. OriginsInv' /\ \A j \in Items \ {i} : origin'[j] = origin[j]
  BY RecordFacts, RecordStored DEF PutAcquisition, OriginsInv, OriginsTypeOK
<1>2. lastStep'.by = "event" /\ i \notin originLock  BY DEF PutAcquisition, Wrote
<1> QED  BY <1>1, <1>2 DEF LocksStand, OriginsInv, OriginsTypeOK

\* A hand leaves the record it writes owed to the item's own file, unless the tags it
\* stands for are the ones that stood.
LEMMA HandsWrite ==
  ASSUME OriginsInv, NEW i \in Items, NEW r, RecordShape(r), origin' = [origin EXCEPT ![i] = r], fileTags' = fileTags,
         originLock' \in {originLock, originLock \cup {i}, originLock \ {i}}, pendingStamp' = pendingStamp,
         writeBack' # NoWriteBack => writeBack'.item \in Items,
         \/ NoteOriginOwed(i, TRUE)
         \/ NoteOriginOwed(i, FALSE) /\ TagState(r) = TagState(origin[i])
  PROVE  OriginsInv'
<1>1. /\ origin' = [j \in Items |-> origin'[j]] /\ origin'[i] = r /\ \A j \in Items \ {i} : origin'[j] = origin[j]
  BY DEF OriginsInv, OriginsTypeOK
<1>2. \A j \in Items : RecordShape(origin'[j])  BY <1>1 DEF OriginsInv, OriginsTypeOK
<1>3. (\A j \in Items : RecordShape(origin[j]))'  BY <1>2 DEF RecordShape
<1>4. OriginsTypeOK'
  <2>1. originLock' \subseteq Items /\ byHand' \subseteq Items  BY DEF NoteOriginOwed, OriginsInv, OriginsTypeOK
  <2> QED  BY <1>1, <1>3, <2>1 DEF OriginsInv, OriginsTypeOK
<1>5. ASSUME NEW j \in byHand' \cap OwnFile  PROVE j \in owes' \cup lostTags' \/ fileTags'[j] = TagState(origin'[j])
  <2>1. CASE j = i /\ NoteOriginOwed(i, TRUE)  BY <1>5, <2>1 DEF NoteOriginOwed
  <2>2. CASE j = i /\ NoteOriginOwed(i, FALSE) /\ TagState(r) = TagState(origin[i])
    <3>1. i \in byHand \cap OwnFile /\ owes' = owes /\ lostTags' = lostTags  BY <1>5, <2>2 DEF NoteOriginOwed
    <3>2. i \in owes \cup lostTags \/ fileTags[i] = TagState(origin[i])  BY <3>1 DEF OriginsInv, HandsOwed
    <3> QED  BY <1>1, <2>2, <3>1, <3>2
  <2>3. CASE j # i
    <3>1. j \in byHand \cap OwnFile /\ j \in Items  BY <1>5, <2>3 DEF NoteOriginOwed, OriginsInv, OriginsTypeOK
    <3>2. origin'[j] = origin[j]  BY <1>1, <2>3, <3>1
    <3>3. j \in owes \cup lostTags \/ fileTags[j] = TagState(origin[j])  BY <3>1 DEF OriginsInv, HandsOwed
    <3>4. j \in owes \cup lostTags => j \in owes' \cup lostTags'  BY <2>3 DEF NoteOriginOwed
    <3> QED  BY <3>2, <3>3, <3>4
  <2> QED  BY <2>1, <2>2, <2>3
<1>6. HandsOwed'  BY <1>5 DEF HandsOwed, TagState
<1> QED  BY <1>4, <1>6 DEF OriginsInv

LEMMA OriginSetSafe ==
  ASSUME OriginsInv, NEW i \in Items, NEW e \in Events, NEW lock, NEW force \in BOOLEAN, NEW wb \in BOOLEAN,
         SetAcquisition(i, e, lock, force, wb)
  PROVE  OriginsInv' /\ lastStep'.by = "hand"
<1> DEFINE next == [type |-> Or(e.type, "manual"), url |-> e.url, id |-> e.id, provider |-> e.provider, version |-> e.version,
                    options |-> e.options, at |-> IF origin[i] = NoOrigin THEN 2 ELSE origin[i].at]
           changed == origin[i] = NoOrigin \/ TagState(next) # TagState(origin[i])
<1>1. RecordShape(next)  BY DEF RecordShape, RecordFields
<1>2. /\ origin' = [origin EXCEPT ![i] = next] /\ fileTags' = fileTags /\ pendingStamp' = pendingStamp
      /\ NoteOriginOwed(i, changed)
      /\ originLock' = Locked(lock, i) /\ lastStep' = [by |-> "hand", item |-> i]
  BY DEF SetAcquisition, Wrote
<1>3. writeBack' # NoWriteBack => writeBack'.item \in Items
  BY DEF SetAcquisition, OriginsInv, OriginsTypeOK
<1>4. originLock' \in {originLock, originLock \cup {i}, originLock \ {i}}  BY <1>2 DEF Locked
<1>5. \/ NoteOriginOwed(i, TRUE)
      \/ NoteOriginOwed(i, FALSE) /\ TagState(next) = TagState(origin[i])
  <2> HIDE DEF next
  <2> QED  BY <1>2
<1> HIDE DEF next
<1>6. OriginsInv'  BY <1>1, <1>2, <1>3, <1>4, <1>5, HandsWrite
<1> QED  BY <1>2, <1>6

LEMMA OriginClearSafe ==
  ASSUME OriginsInv, NEW i \in Items, NEW lock, NEW force \in BOOLEAN, NEW wb \in BOOLEAN, ClearAcquisition(i, lock, force, wb)
  PROVE  OriginsInv' /\ lastStep'.by = "hand"
<1>1. /\ origin' = [origin EXCEPT ![i] = NoOrigin] /\ fileTags' = fileTags /\ pendingStamp' = pendingStamp
      /\ NoteOriginOwed(i, origin[i] # NoOrigin)
      /\ lastStep' = [by |-> "hand", item |-> i]
  BY DEF ClearAcquisition, Wrote
<1>2. writeBack' # NoWriteBack => writeBack'.item \in Items
  BY DEF ClearAcquisition, OriginsInv, OriginsTypeOK
<1>3. originLock' \in {originLock, originLock \cup {i}, originLock \ {i}}  BY DEF ClearAcquisition
<1>4. \/ NoteOriginOwed(i, TRUE)
      \/ NoteOriginOwed(i, FALSE) /\ TagState(NoOrigin) = TagState(origin[i])
  BY <1>1
<1>5. OriginsInv'  BY <1>1, <1>2, <1>3, <1>4, RecordFacts, HandsWrite
<1> QED  BY <1>1, <1>5

LEMMA OriginWriteBackSafe ==
  ASSUME OriginsInv, WriteBackAcquisition
  PROVE  OriginsInv' /\ lastStep'.by # "fill" /\ LocksStand
<1> DEFINE i == writeBack.item
<1>1. /\ i \in Items /\ writeBack' = NoWriteBack /\ lastStep' = [by |-> "file", item |-> i]
      /\ UNCHANGED <<catalogued, origin, originLock, pendingStamp>>
  BY DEF WriteBackAcquisition, Wrote, OriginsInv, OriginsTypeOK
<1>2. byHand' \subseteq byHand /\ fileTags' = [j \in Items |-> fileTags'[j]]
  BY <1>1 DEF WriteBackAcquisition, OriginsInv, OriginsTypeOK
<1>3. OriginsTypeOK'  BY <1>1, <1>2 DEF OriginsInv, OriginsTypeOK, RecordShape
<1>4. ASSUME NEW j \in byHand' \cap OwnFile  PROVE j \in owes' \cup lostTags' \/ fileTags'[j] = TagState(origin[j])
  <2>1. j \in byHand /\ j \in Items /\ (j \in owes \cup lostTags \/ fileTags[j] = TagState(origin[j]))
    BY <1>2, <1>4 DEF OriginsInv, OriginsTypeOK, HandsOwed
  <2>2. CASE UNCHANGED <<fileTags, owes, lostTags, byHand>>  BY <2>1, <2>2
  <2>3. CASE ~UNCHANGED <<fileTags, owes, lostTags, byHand>>
    <3>1. PICK held : /\ fileTags' = [fileTags EXCEPT ![i] = held] /\ owes' \in {owes, owes \ {i}}
                      /\ lostTags' = IF held = writeBack.tags THEN lostTags \ {i} ELSE lostTags \cup {i}
                      /\ byHand' = IF writeBack.tags = TagState(origin[i]) THEN byHand ELSE byHand \ {i}
      BY <2>3 DEF WriteBackAcquisition
    <3>2. CASE j = i
      <4>1. writeBack.tags = TagState(origin[i])  BY <1>4, <3>1, <3>2
      <4>2. fileTags'[i] = held  BY <1>1, <3>1 DEF OriginsInv, OriginsTypeOK
      <4> QED  BY <3>1, <3>2, <4>1, <4>2
    <3>3. CASE j # i
      <4>1. fileTags'[j] = fileTags[j]  BY <2>1, <3>1, <3>3 DEF OriginsInv, OriginsTypeOK
      <4>2. j \in owes \cup lostTags => j \in owes' \cup lostTags'  BY <3>1, <3>3
      <4> QED  BY <2>1, <4>1, <4>2
    <3> QED  BY <3>2, <3>3
  <2> QED  BY <2>2, <2>3
<1>5. HandsOwed'  BY <1>1, <1>4 DEF HandsOwed, TagState
<1> QED  BY <1>1, <1>3, <1>5 DEF OriginsInv, LocksStand

\* Every step keeps the debts and the locks, and fills from an event or not at all.
LEMMA OriginsSteps ==
  ASSUME OriginsInv, [OriginsNext]_originVars
  PROVE  /\ OriginsInv' /\ (OriginsNext => LocksStand)
         /\ OriginsNext /\ lastStep'.by = "fill" =>
              /\ lastStep'.item \in Items
              /\ \E e \in Events : origin'[lastStep'.item] = FilledIn(origin[lastStep'.item], e)
<1>1. ASSUME NEW i \in Items, NEW p \in BOOLEAN, ScanOrigin(i, p)
      PROVE  OriginsInv' /\ lastStep'.by # "fill" /\ LocksStand
  BY <1>1, OriginScanSafe
<1>2. ASSUME NEW i \in Items, NEW f \in Items \cup {""}, ImportPut(i, f)
      PROVE  OriginsInv' /\ lastStep'.by # "fill" /\ LocksStand
  BY <1>2, OriginImportSafe
<1>3. ASSUME StampNothing  PROVE OriginsInv' /\ lastStep'.by # "fill" /\ LocksStand
  <2>1. OriginsInv'
    BY <1>3 DEF StampNothing, OriginsInv, OriginsTypeOK, HandsOwed, RecordShape, TagState
  <2> QED  BY <1>3, <2>1 DEF StampNothing, Wrote, LocksStand
<1>4. ASSUME NEW i \in Items, NEW e \in Events, PutAcquisition(i, e)
      PROVE  OriginsInv' /\ lastStep'.by # "fill" /\ LocksStand
  BY <1>4, OriginPutSafe
<1>5. ASSUME NEW i \in Items, NEW e \in Events, NEW lock \in {"on", "off", ""}, NEW force \in BOOLEAN, NEW wb \in BOOLEAN,
             SetAcquisition(i, e, lock, force, wb)
      PROVE  OriginsInv' /\ lastStep'.by # "fill" /\ LocksStand
  BY <1>5, OriginSetSafe DEF LocksStand
<1>6. ASSUME NEW i \in Items, NEW lock \in {"on", "off", ""}, NEW force \in BOOLEAN, NEW wb \in BOOLEAN,
             ClearAcquisition(i, lock, force, wb)
      PROVE  OriginsInv' /\ lastStep'.by # "fill" /\ LocksStand
  BY <1>6, OriginClearSafe DEF LocksStand
<1>7. ASSUME NEW e \in Events, StampImport(e)
      PROVE  /\ OriginsInv' /\ LocksStand
             /\ lastStep'.by = "fill" => /\ lastStep'.item \in Items
                                         /\ origin'[lastStep'.item] = FilledIn(origin[lastStep'.item], e)
  BY <1>7, OriginStampSafe
<1>8. ASSUME UNCHANGED originVars  PROVE OriginsInv'
  BY <1>8 DEF originVars, OriginsInv, OriginsTypeOK, HandsOwed, RecordShape, TagState
<1>9. CASE OriginsNext
  <2> USE <1>9 DEF OriginsNext
  <2>1. CASE \E e \in Events : StampImport(e)  BY <1>7, <2>1
  <2>2. CASE ~\E e \in Events : StampImport(e)
    <3>1. OriginsInv' /\ lastStep'.by # "fill" /\ LocksStand
      BY <1>1, <1>2, <1>3, <1>4, <1>5, <1>6, OriginWriteBackSafe, <2>2
    <3> QED  BY <3>1
  <2> QED  BY <2>1, <2>2
<1> QED  BY <1>8, <1>9

\* What an operator set or cleared, and nothing changed since, stands in the file's tags
\* or is owed to it, whatever scans, imports and downloads come between and whichever
\* write-back fails (SetAcquisition, ClearAcquisition, writeBackAcquisition).
THEOREM OriginsInvariance == OriginsSpec => []OriginsInv
<1>1. OriginsInv /\ [OriginsNext]_originVars => OriginsInv'  BY OriginsSteps
<1> QED  BY OriginsStart, <1>1, PTL DEF OriginsSpec

\* A locked record is changed by an operator or a scan told to ignore locks, and by
\* nothing else (acquisitionLockedTx).
THEOREM LocksStandHolds == OriginsSpec => [][LocksStand]_originVars
<1>1. OriginsInv /\ [OriginsNext]_originVars => [LocksStand]_originVars
  BY OriginsSteps
<1> QED  BY OriginsInvariance, <1>1, PTL DEF OriginsSpec

\* Imports whose events are each of one acquisition never put one's url beside another's
\* id, nor an id under another provider, and the locks and the debts above hold
\* (fillAcquisitionTx).
THEOREM RecordsHoldAlways ==
  ASSUME EventsOfOne
  PROVE  OriginsSpec => RecordsHold
<1>1. OriginsInv /\ [OriginsNext]_originVars => [OriginsHold]_originVars
  <2> SUFFICES ASSUME OriginsInv, OriginsNext PROVE OriginsHold  OBVIOUS
  <2>1. HandsOwed' /\ LocksStand  BY OriginsSteps DEF OriginsInv
  <2>2. FillsOneAcquisition
    <3>1. SUFFICES ASSUME lastStep'.by = "fill", OneAcquisition(origin[lastStep'.item])
                   PROVE  OneAcquisition(origin'[lastStep'.item])
      BY DEF FillsOneAcquisition
    <3>2. lastStep'.item \in Items  BY <3>1, OriginsSteps
    <3>3. PICK e \in Events : origin'[lastStep'.item] = FilledIn(origin[lastStep'.item], e)  BY <3>1, OriginsSteps
    <3>4. RecordShape(origin[lastStep'.item])  BY <3>2 DEF OriginsInv, OriginsTypeOK
    <3>5. OneAcquisition(FilledIn(origin[lastStep'.item], e))  BY <3>1, <3>4, FillSpeaksOfOne, EventsOfOne DEF EventsOfOne
    <3> QED  BY <3>3, <3>5
  <2> QED  BY <2>1, <2>2 DEF OriginsHold
<1> QED  BY OriginsInvariance, <1>1, PTL DEF OriginsSpec, RecordsHold
=============================================================================
