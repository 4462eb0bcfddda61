------------------------------ MODULE Origins -------------------------------
(***************************************************************************)
(* Where an item came from: its acquisition record, which scans derive     *)
(* from the file's tags, imports record as events, minted items inherit    *)
(* and an operator sets or clears by hand, under the lock of the field.    *)
(*                                                                         *)
(* The acquired-at stamp is left out but for who keeps it; so is the day   *)
(* the date tag is rounded to.  An episode, and an item whose file others  *)
(* share, owe their files nothing and have nothing written back.           *)
(***************************************************************************)
EXTENDS Naturals, FiniteSets

CONSTANTS
    Items,         \* items, the first of them cataloged from the start
    FirstItems,
    OwnFile,       \* the tracks and books whose files are theirs alone
    Acquisitions,  \* what was acquired: records [url, id, provider], nothing of them empty
    Events,        \* what imports record: records of Fields
    OriginTags,    \* the url and id a file's tags may hold
    MaxOrigins     \* operations

VARIABLES
    catalogued,   \* the items there are
    origin,       \* each item's record, or NoOrigin
    originLock,   \* the items whose "acquisition" field is locked
    fileTags,     \* the url and id each item's file says
    owes,         \* the items whose record the file still owes
    lostTags,     \* the items whose last write-back said that their file cannot hold all of it
    pendingStamp, \* an import that has cataloged its file and not recorded its event yet
    writeBack,    \* the write-back a set or clear has yet to do, or NoWriteBack
    byHand,       \* the items whose record is as the last set or clear that changed it left it
    lastStep,     \* [by, item]: who wrote last
    originsLeft

originVars == <<catalogued, origin, originLock, fileTags, owes, lostTags, pendingStamp, writeBack, byHand, lastStep, originsLeft>>

NoTags == [url |-> "", id |-> ""]
NoOrigin == [type |-> "", url |-> "", id |-> "", provider |-> "", version |-> "", options |-> "", at |-> 0]
NoStamp == [item |-> "", made |-> FALSE]
NoWriteBack == [item |-> "", tags |-> NoTags]

Or(a, b) == IF a # "" THEN a ELSE b
TagState(r) == [url |-> r.url, id |-> r.id]

-----------------------------------------------------------------------------
(* The merges.                                                             *)

\* putAcquisitionTx: empty is no evidence, and an id does not outlive its provider
Merged(cur, e) ==
    [type |-> IF e.type # "" THEN e.type ELSE Or(cur.type, "manual"),
     url |-> Or(e.url, cur.url),
     id |-> IF e.id # "" THEN e.id
            ELSE IF e.provider # "" /\ cur.provider # "" /\ e.provider # cur.provider THEN "" ELSE cur.id,
     provider |-> Or(e.provider, cur.provider), version |-> Or(e.version, cur.version),
     options |-> Or(e.options, cur.options), at |-> IF cur = NoOrigin THEN e.at ELSE cur.at]

\* sameAcquisition
SameAcquisition(cur, e) ==
    LET compatible == cur.provider = "" \/ e.provider = "" \/ e.provider = cur.provider
    IN  IF cur.url # ""
        THEN e.url = cur.url /\ ~(cur.id # "" /\ e.id # "" /\ e.id # cur.id /\ cur.provider # "" /\ e.provider = cur.provider)
        ELSE IF cur.id # "" THEN e.id = cur.id /\ compatible
        ELSE compatible

\* without the second look at the provider whose namespace the id is in
FilledByField(cur, e) ==
    IF cur = NoOrigin THEN Merged(cur, e)
    ELSE IF e.type \notin {"", cur.type} THEN cur
    ELSE [cur EXCEPT !.url = Or(@, e.url), !.id = Or(@, e.id), !.provider = Or(@, e.provider)]

\* fillAcquisitionTx
FilledIn(cur, e) ==
    IF cur = NoOrigin THEN Merged(cur, e)
    ELSE IF e.type \notin {"", cur.type} \/ ~SameAcquisition(cur, e) THEN cur
    ELSE LET took == CASE cur.provider = "" /\ cur.id = "" -> [provider |-> e.provider, id |-> e.id]
                       [] e.provider # "" /\ e.provider = cur.provider -> [provider |-> cur.provider, id |-> Or(cur.id, e.id)]
                       [] cur.provider = "" /\ cur.id # "" /\ e.provider # "" /\ e.id = cur.id -> [provider |-> e.provider, id |-> cur.id]
                       [] OTHER -> [provider |-> cur.provider, id |-> cur.id]
             follows == took.provider = e.provider
         IN  [cur EXCEPT !.url = Or(@, e.url), !.provider = took.provider, !.id = took.id,
                         !.options = IF follows THEN Or(@, e.options) ELSE @,
                         !.version = IF follows /\ e.provider # "" THEN Or(@, e.version) ELSE @]

\* insertAcquisitionIfAbsentTx
FromTags(i, preserveLocks) ==
    IF fileTags[i] = NoTags \/ (preserveLocks /\ i \in originLock) \/ origin[i] # NoOrigin THEN origin[i]
    ELSE [NoOrigin EXCEPT !.type = "manual", !.url = fileTags[i].url, !.id = fileTags[i].id, !.at = 1]

-----------------------------------------------------------------------------
(* The writers nobody asked for.                                           *)

Wrote(by, i) == lastStep' = [by |-> by, item |-> i]
Spend == originsLeft > 0 /\ originsLeft' = originsLeft - 1
Store(i, r) == origin' = [origin EXCEPT ![i] = r] /\ byHand' = IF r = origin[i] THEN byHand ELSE byHand \ {i}

\* settleOwedByScanTx: a record the put took from the tags pays what the file owed
OriginPaidByScan(i, own) == owes' = IF own # origin[i] THEN owes \ {i} ELSE owes

\* PutTrack, PutBook: a scan of a file already cataloged
ScanOrigin(i, preserveLocks) ==
    LET own == FromTags(i, preserveLocks)
    IN  /\ Spend /\ i \in catalogued /\ Store(i, own) /\ OriginPaidByScan(i, own)
        /\ Wrote(IF preserveLocks THEN "scan" ELSE "scan ignoring locks", i)
        /\ UNCHANGED <<catalogued, originLock, fileTags, lostTags, pendingStamp, writeBack>>

\* importOne's put: a new item, made from nothing or minted from one that keeps other files, or one that stood
ImportPut(i, from) ==
    /\ Spend /\ pendingStamp = NoStamp
    /\ LET fresh == i \notin catalogued
           own == FromTags(i, TRUE)
       IN  /\ from # i /\ (from # "" => fresh /\ from \in catalogued)
           /\ Store(i, IF from # "" /\ own = NoOrigin THEN origin[from] ELSE own) /\ OriginPaidByScan(i, own)
           /\ pendingStamp' = [item |-> i, made |-> fresh /\ from = ""]
    /\ catalogued' = catalogued \cup {i} /\ Wrote("scan", i)
    /\ UNCHANGED <<originLock, fileTags, lostTags, writeBack>>

\* PutAcquisitionForFile: a copy is stamped with nothing, and the event of a failed write is lost
StampImport(e) ==
    /\ pendingStamp # NoStamp /\ pendingStamp' = NoStamp
    /\ LET i == pendingStamp.item
       IN  IF i \in originLock THEN UNCHANGED <<origin, byHand>> /\ Wrote("event", i)
           ELSE IF pendingStamp.made THEN Store(i, Merged(origin[i], e)) /\ Wrote("event", i)
           ELSE Store(i, FilledIn(origin[i], e)) /\ Wrote("fill", i)
    /\ UNCHANGED <<catalogued, originLock, fileTags, owes, lostTags, writeBack, originsLeft>>
StampNothing ==
    /\ pendingStamp # NoStamp /\ pendingStamp' = NoStamp /\ Wrote("event", pendingStamp.item)
    /\ UNCHANGED <<catalogued, origin, originLock, fileTags, owes, lostTags, writeBack, byHand, originsLeft>>

\* PutAcquisition: the podcast download's record
PutAcquisition(i, e) ==
    /\ Spend /\ i \in catalogued \ originLock /\ Store(i, Merged(origin[i], e)) /\ Wrote("event", i)
    /\ UNCHANGED <<catalogued, originLock, fileTags, owes, lostTags, pendingStamp, writeBack>>

-----------------------------------------------------------------------------
(* The operator.  A lock is "on", "off" or "" to leave it.                 *)

\* noteOwedItemTx: a record an operator changed is owed to the item's own file
NoteOriginOwed(i, changed) ==
    /\ owes' = IF changed THEN owes \cup ({i} \cap OwnFile) ELSE owes
    /\ lostTags' = IF changed THEN lostTags \ {i} ELSE lostTags
    /\ byHand' = IF changed \/ i \in byHand THEN byHand \cup {i} ELSE byHand

Locked(lock, i) == CASE lock = "on" -> originLock \cup {i} [] lock = "off" -> originLock \ {i} [] OTHER -> originLock

\* SetAcquisition, which replaces the whole record but the stamp
SetAcquisition(i, e, lock, force, back) ==
    LET next == [type |-> Or(e.type, "manual"), url |-> e.url, id |-> e.id, provider |-> e.provider, version |-> e.version,
                 options |-> e.options, at |-> IF origin[i] = NoOrigin THEN 2 ELSE origin[i].at]
        changed == origin[i] = NoOrigin \/ TagState(next) # TagState(origin[i])
    IN  /\ Spend /\ i \in catalogued /\ (back => writeBack = NoWriteBack) /\ (force \/ i \notin originLock)
        /\ origin' = [origin EXCEPT ![i] = next] /\ originLock' = Locked(lock, i)
        /\ NoteOriginOwed(i, changed)
        /\ writeBack' = IF back THEN [item |-> i, tags |-> [url |-> e.url, id |-> e.id]] ELSE writeBack
        /\ Wrote("hand", i) /\ UNCHANGED <<catalogued, fileTags, pendingStamp>>

\* ClearAcquisition, which locks unless it is told not to, and is done when it would change nothing
ClearAcquisition(i, lock, force, back) ==
    LET on == lock # "off"
        done == origin[i] = NoOrigin /\ (i \in originLock) = on
    IN  /\ Spend /\ i \in catalogued /\ (back => writeBack = NoWriteBack) /\ (done \/ force \/ i \notin originLock)
        /\ origin' = [origin EXCEPT ![i] = NoOrigin]
        /\ originLock' = IF on THEN originLock \cup {i} ELSE originLock \ {i}
        /\ NoteOriginOwed(i, origin[i] # NoOrigin)
        /\ writeBack' = IF back THEN [item |-> i, tags |-> NoTags] ELSE writeBack
        /\ Wrote("hand", i) /\ UNCHANGED <<catalogued, fileTags, pendingStamp>>

\* writeBackAcquisition, writeBackItemTags: the tags land, less what the file's format cannot
\* hold, which is told, and the debt is paid, if that is not what fails; or nothing is written.
\* Landing after a later set or clear, it leaves the older tags and pays the newer debt.
WriteBackAcquisition ==
    LET i == writeBack.item
    IN  /\ writeBack # NoWriteBack /\ writeBack' = NoWriteBack /\ Wrote("file", i)
        /\ \/ /\ i \in OwnFile
              /\ \E u \in {writeBack.tags.url, fileTags[i].url}, d \in {writeBack.tags.id, fileTags[i].id} :
                   LET held == [url |-> u, id |-> d]
                   IN  /\ fileTags' = [fileTags EXCEPT ![i] = held]
                       /\ lostTags' = IF held = writeBack.tags THEN lostTags \ {i} ELSE lostTags \cup {i}
              /\ owes' \in {owes, owes \ {i}}
              /\ byHand' = IF writeBack.tags = TagState(origin[i]) THEN byHand ELSE byHand \ {i}
           \/ UNCHANGED <<fileTags, owes, lostTags, byHand>>
        /\ UNCHANGED <<catalogued, origin, originLock, pendingStamp, originsLeft>>

OriginsInit ==
    /\ catalogued = FirstItems /\ origin = [i \in Items |-> NoOrigin] /\ originLock = {} /\ fileTags \in [Items -> OriginTags]
    /\ owes = {} /\ lostTags = {} /\ pendingStamp = NoStamp /\ writeBack = NoWriteBack /\ byHand = {} /\ lastStep = [by |-> "", item |-> ""] /\ originsLeft = MaxOrigins

OriginsNext ==
    \/ \E i \in Items, p \in BOOLEAN : ScanOrigin(i, p)
    \/ \E i \in Items, f \in Items \cup {""} : ImportPut(i, f)
    \/ (\E e \in Events : StampImport(e)) \/ StampNothing
    \/ \E i \in Items, e \in Events :
         PutAcquisition(i, e) \/ \E lock \in {"on", "off", ""}, force, back \in BOOLEAN : SetAcquisition(i, e, lock, force, back)
    \/ \E i \in Items, lock \in {"on", "off", ""}, force, back \in BOOLEAN : ClearAcquisition(i, lock, force, back)
    \/ WriteBackAcquisition

OriginsSpec == OriginsInit /\ [][OriginsNext]_originVars

-----------------------------------------------------------------------------
(* Properties.                                                             *)

\* The url and the id are one acquisition's, and the id is one of the provider's.
OneAcquisition(r) ==
    /\ \E a \in Acquisitions : r.url \in {"", a.url} /\ r.id \in {"", a.id}
    /\ \E a \in Acquisitions : r.id \in {"", a.id} /\ r.provider \in {"", a.provider}

(* An import that joins an item never puts one acquisition's url beside    *)
(* another's id, nor an id under another provider, in a record that was    *)
(* right of both (fillAcquisitionTx).                                      *)
FillsOneAcquisition ==
    (lastStep'.by = "fill" /\ OneAcquisition(origin[lastStep'.item])) => OneAcquisition(origin'[lastStep'.item])

(* A locked record, or its absence, is changed by nothing but an operator  *)
(* or a scan that ignores locks (acquisitionLockedTx).                     *)
LocksStand ==
    \A i \in catalogued \cap originLock : origin'[i] # origin[i] => lastStep'.by \in {"hand", "scan ignoring locks"}

(* What a set or clear changed, and nothing since, stands in the item's    *)
(* own file, is owed to it, or was said to be more than the file can hold, *)
(* unless an older write-back landed after it (noteOwedItemTx,             *)
(* writeBackAcquisition).                                                  *)
HandsOwed == \A i \in byHand \cap OwnFile : i \in owes \cup lostTags \/ fileTags[i] = TagState(origin[i])

(* The record of where an item came from is right whoever writes it next.  *)
OriginsHold == FillsOneAcquisition /\ LocksStand /\ HandsOwed'
RecordsHold == [][OriginsHold]_originVars
=============================================================================
