------------------------------- MODULE Thumbs -------------------------------
(***************************************************************************)
(* Thumbnails: callers that ask for a picture at a size, the caches in     *)
(* memory, the one generation that callers who miss together share, and    *)
(* the thumbnail file, a cache of its own beside the catalog that may be   *)
(* damaged, unattached or replaced while it is in use.                     *)
(***************************************************************************)
EXTENDS Naturals, Sequences, FiniteSets, SequencesExt

CONSTANTS
    Callers,
    Pictures,       \* hash -> [longest, displayable, decodes]; longest 0 is an unknown size
    Sizes,          \* the sizes asked for
    Ladder,         \* the rungs
    Weight(_),      \* the bytes of a thumbnail at a rung
    MemMax, MemBytes,  \* thumbCacheMax, thumbCacheBytes
    FailMax,        \* thumbFailMax
    MaxThumbOps

VARIABLES
    sources,        \* the source pictures the catalog holds
    caller,         \* each caller: its request, where it is, and its answer
    calls,          \* thumbFlight.calls: key -> the leader
    thumbMem, thumbFail,  \* most recently used first
    memCharge,      \* thumbCache.bytes
    thumbFile,      \* [rows (newest first), state: "good", "corrupt", "marked"]
    aside,          \* the rows of a file that was moved away while readers had it open
    writer,         \* whether the write connection has the file attached, and not its twin in memory
    readers,        \* what the read pool has attached: "file", "aside", "twin"
    thumbsStored, thumbsDamaged,
    noting,         \* where each call of noteThumbsDamage is; "" is a call about the file as a whole
    lateMark,       \* history: the mark in the file landed in a store that had been reopened meanwhile
    reattaching,    \* somebody found the file unattached and goes for the write lock
    thumbsLeft

thumbVars == <<sources, caller, calls, thumbMem, thumbFail, memCharge, thumbFile, aside, writer, readers, thumbsStored, thumbsDamaged, noting, lateMark, reattaching, thumbsLeft>>

ThumbKey(h, box) == [hash |-> h, box |-> box]
Nobody == ""
Waiting == [st |-> "idle", hash |-> "", size |-> 0, on |-> Nobody, answer |-> <<"none">>]

-----------------------------------------------------------------------------
(* The ladder and the caches.                                              *)

\* Rung
Rung(size) ==
    LET holds == {r \in Ladder : size <= r}
    IN  IF size = 0 \/ holds = {} THEN size ELSE CHOOSE r \in holds : \A q \in holds : r <= q

\* thumbCache.get
Refreshed(lru, k) == <<k>> \o SelectSeq(lru, LAMBDA q : q # k)
Charge(lru) == FoldLeft(LAMBDA n, k : n + Weight(k.box), 0, lru)
\* thumbCache.evict: the newest entry always stays
Evicted(lru) ==
    LET fits(n) == n = 1 \/ (n <= MemMax /\ Charge(SubSeq(lru, 1, n)) <= MemBytes)
    IN  SubSeq(lru, 1, CHOOSE n \in 1..Len(lru) : fits(n) /\ \A j \in (n + 1)..Len(lru) : ~fits(j))
\* thumbCache.put
Put(k) ==
    LET lru == Evicted(Refreshed(thumbMem, k))
    IN  /\ thumbMem' = lru
        /\ memCharge' = memCharge + (IF k \in ToSet(thumbMem) THEN 0 ELSE Weight(k.box))
                          - Charge(SubSeq(Refreshed(thumbMem, k), Len(lru) + 1, Len(Refreshed(thumbMem, k))))
NoteFailed(h) == thumbFail' = SubSeq(Refreshed(thumbFail, h), 1, IF Len(Refreshed(thumbFail, h)) < FailMax THEN Len(Refreshed(thumbFail, h)) ELSE FailMax)

-----------------------------------------------------------------------------
(* Asking.                                                                 *)

Original(h) == <<"original", h>>
Thumb(h, box) == <<"thumb", h, box>>

\* one call for a picture, whatever its size
FlightByHash(h, box) == ThumbKey(h, 0)
\* thumbnail: the key the flight is shared on
FlightKey(h, box) == ThumbKey(h, box)

\* ResolveArt: nothing to scale
AsStored(h, box) ==
    LET pic == Pictures[h]
    IN  box = 0 \/ pic.longest = 0 \/ (pic.longest <= box /\ pic.displayable)

\* ResolveArt, thumbnail, thumbFlight.do up to the wait or to the lead
Ask(c, h, size) ==
    LET box == Rung(size)
        key == FlightKey(h, box)
        failed == h \in ToSet(thumbFail)
        hit == ThumbKey(h, box) \in ToSet(thumbMem)
        asked(st, on, answer) == caller' = [caller EXCEPT ![c] = [st |-> st, hash |-> h, size |-> size, on |-> on, answer |-> answer]]
        join == key \in DOMAIN calls
    IN  /\ thumbsLeft > 0 /\ thumbsLeft' = thumbsLeft - 1 /\ caller[c].st = "idle" /\ h \in sources
        /\ thumbFail' = IF ~AsStored(h, box) /\ failed THEN Refreshed(thumbFail, h) ELSE thumbFail
        /\ thumbMem' = IF ~AsStored(h, box) /\ ~failed /\ hit THEN Refreshed(thumbMem, ThumbKey(h, box)) ELSE thumbMem
        /\ IF AsStored(h, box) \/ failed THEN asked("told", Nobody, Original(h)) /\ UNCHANGED calls
           ELSE IF hit THEN asked("told", Nobody, Thumb(h, box)) /\ UNCHANGED calls
           ELSE IF join THEN asked("waits", calls[key], <<"none">>) /\ UNCHANGED calls
           ELSE asked("reads", c, <<"none">>) /\ calls' = [k \in DOMAIN calls \cup {key} |-> IF k = key THEN c ELSE calls[k]]
        /\ UNCHANGED <<sources, memCharge, thumbFile, aside, writer, readers, thumbsStored, thumbsDamaged, reattaching, noting, lateMark>>

\* thumbFlight.do: the waiter's own context ends
GiveUp(c) ==
    /\ caller[c].st = "waits" /\ caller' = [caller EXCEPT ![c] = [@ EXCEPT !.st = "told", !.on = Nobody, !.answer = <<"canceled">>]]
    /\ UNCHANGED <<sources, calls, thumbMem, thumbFail, memCharge, thumbFile, aside, writer, readers, thumbsStored, thumbsDamaged, thumbsLeft, reattaching, noting, lateMark>>
Leave(c) ==
    /\ caller[c].st = "told" /\ caller' = [caller EXCEPT ![c] = Waiting]
    /\ UNCHANGED <<sources, calls, thumbMem, thumbFail, memCharge, thumbFile, aside, writer, readers, thumbsStored, thumbsDamaged, thumbsLeft, reattaching, noting, lateMark>>

-----------------------------------------------------------------------------
(* Leading.  The leader's context is detached: nobody's leaving stops it.  *)

LeadersKey(c) == CHOOSE k \in DOMAIN calls : calls[k] = c
Box(c) == Rung(caller[c].size)
\* the deferred half of thumbFlight.do: the key is delisted, the waiters are told
FinishCall(c, answer) ==
    /\ calls' = [k \in DOMAIN calls \ {LeadersKey(c)} |-> calls[k]]
    /\ caller' = [d \in Callers |-> IF caller[d].on = c THEN [caller[d] EXCEPT !.st = "told", !.on = Nobody, !.answer = answer] ELSE caller[d]]
Step(c, st) == caller' = [caller EXCEPT ![c].st = st] /\ UNCHANGED calls

RowsRead == CASE readers = "file" -> thumbFile.rows [] readers = "aside" -> aside [] OTHER -> << >>
MayFail == readers = "aside" \/ (readers = "file" /\ thumbFile.state # "good")

\* noteThumbsDamage: a flag, the other, and, where the writer was thought to hold the file, the mark in it, by a
\* write of its own.  Nothing is held from one to the next, so a reopen may come between.
NoteThumbsDamage(n) == noting[n] = "" /\ noting' = [noting EXCEPT ![n] = "damaged"]
SwapDamaged(n) ==
    /\ noting[n] = "damaged" /\ thumbsDamaged' = TRUE
    /\ noting' = [noting EXCEPT ![n] = IF thumbsDamaged THEN "" ELSE "stored"]
    /\ UNCHANGED <<sources, caller, calls, thumbMem, thumbFail, memCharge, thumbFile, aside, writer, readers, thumbsStored, lateMark, reattaching, thumbsLeft>>
SwapStored(n) ==
    /\ noting[n] = "stored" /\ thumbsStored' = FALSE
    /\ noting' = [noting EXCEPT ![n] = IF thumbsStored THEN "mark" ELSE ""]
    /\ UNCHANGED <<sources, caller, calls, thumbMem, thumbFail, memCharge, thumbFile, aside, writer, readers, thumbsDamaged, lateMark, reattaching, thumbsLeft>>
MarkFile(n) ==
    /\ noting[n] = "mark" /\ noting' = [noting EXCEPT ![n] = ""]
    /\ \/ UNCHANGED <<thumbFile, lateMark>>   \* the mark could not be written, or was written in the twin
       \/ writer /\ thumbFile' = [thumbFile EXCEPT !.state = "marked"] /\ lateMark' = (lateMark \/ ~thumbsDamaged)
    /\ UNCHANGED <<sources, caller, calls, thumbMem, thumbFail, memCharge, aside, writer, readers, thumbsStored, thumbsDamaged, reattaching, thumbsLeft>>

\* generateThumb: the row in the file; a read of a damaged file may fail
ReadRow(c) ==
    LET k == ThumbKey(caller[c].hash, Box(c))
    IN  /\ caller[c].st = "reads"
        /\ \/ thumbsDamaged /\ Step(c, "loads") /\ UNCHANGED <<thumbMem, memCharge, noting>>
           \/ ~thumbsDamaged /\ k \in ToSet(RowsRead) /\ Put(k) /\ FinishCall(c, Thumb(k.hash, k.box)) /\ UNCHANGED noting
           \/ ~thumbsDamaged /\ k \notin ToSet(RowsRead) /\ Step(c, "loads") /\ UNCHANGED <<thumbMem, memCharge, noting>>
           \/ ~thumbsDamaged /\ MayFail /\ Step(c, "notes-reads") /\ NoteThumbsDamage(c) /\ UNCHANGED <<thumbMem, memCharge>>
        /\ UNCHANGED <<sources, thumbFail, thumbFile, aside, writer, readers, thumbsStored, thumbsDamaged, thumbsLeft, reattaching, lateMark>>

\* generateThumb, once the damage is noted
Note(c) ==
    /\ noting[c] = ""
    /\ \/ caller[c].st = "notes-reads" /\ Step(c, "loads")
       \/ caller[c].st = "notes-writes" /\ FinishCall(c, Thumb(caller[c].hash, Box(c)))
    /\ UNCHANGED <<sources, thumbMem, thumbFail, memCharge, thumbFile, aside, writer, readers, thumbsStored, thumbsDamaged, thumbsLeft, reattaching, noting, lateMark>>

\* generateThumb: the source, which a collection may have taken, and the decode
Generate(c) ==
    LET h == caller[c].hash
    IN  /\ caller[c].st = "loads"
        /\ IF h \notin sources THEN FinishCall(c, <<"not found">>) /\ UNCHANGED <<thumbMem, memCharge, thumbFail>>
           ELSE IF ~Pictures[h].decodes THEN FinishCall(c, Original(h)) /\ NoteFailed(h) /\ UNCHANGED <<thumbMem, memCharge>>
           ELSE Step(c, "stores") /\ Put(ThumbKey(h, Box(c))) /\ UNCHANGED thumbFail
        /\ UNCHANGED <<sources, thumbFile, aside, writer, readers, thumbsStored, thumbsDamaged, thumbsLeft, reattaching, noting, lateMark>>

\* thumbFlight.do: a generation that does not return still lets go of its key
Panic(c) ==
    /\ thumbsLeft > 0 /\ thumbsLeft' = thumbsLeft - 1
    /\ caller[c].on = c /\ noting[c] = "" /\ FinishCall(c, <<"not completed">>)
    /\ UNCHANGED <<sources, thumbMem, thumbFail, memCharge, thumbFile, aside, writer, readers, thumbsStored, thumbsDamaged, reattaching, noting, lateMark>>

-----------------------------------------------------------------------------
(* The file.                                                               *)

Fresh == [rows |-> << >>, state |-> "good"]
\* attachSome, attachFile, ready, moveAside for the writer: a file found damaged, or not this build's, is moved aside.
\* A corrupt file may pass, a transient failure leaves the twin.
AttachWriter ==
    \/ thumbFile.state # "marked" /\ writer' = TRUE /\ UNCHANGED <<thumbFile, aside>>
    \/ thumbFile.state # "good" /\ writer' = TRUE /\ thumbFile' = Fresh /\ aside' = thumbFile.rows
    \/ writer' = FALSE /\ UNCHANGED <<thumbFile, aside>>

\* reattachThumbs: the flags are read first, the file attached under the write lock if it is still due
ReattachDue ==
    /\ thumbsLeft > 0 /\ thumbsLeft' = thumbsLeft - 1 /\ ~thumbsStored /\ ~thumbsDamaged /\ ~reattaching /\ reattaching' = TRUE
    /\ UNCHANGED <<sources, caller, calls, thumbMem, thumbFail, memCharge, thumbFile, aside, writer, readers, thumbsStored, thumbsDamaged, noting, lateMark>>
Reattach ==
    /\ reattaching /\ reattaching' = FALSE
    /\ IF thumbsStored THEN UNCHANGED <<thumbFile, aside, writer, thumbsStored>> ELSE AttachWriter /\ thumbsStored' = writer'
    /\ readers' = IF thumbFile' # thumbFile /\ readers = "file" THEN "aside" ELSE readers
    /\ UNCHANGED <<sources, caller, calls, thumbMem, thumbFail, memCharge, thumbsDamaged, thumbsLeft, noting>>
    /\ lateMark' = (lateMark /\ thumbFile'.state = "marked")

\* generateThumb: the row is stored where the writer is thought to hold the file
StoreRow(c) ==
    /\ caller[c].st = "stores"
    /\ IF thumbsStored THEN Step(c, "writes") ELSE FinishCall(c, Thumb(caller[c].hash, Box(c)))
    /\ UNCHANGED <<sources, thumbMem, thumbFail, memCharge, thumbFile, aside, writer, readers, thumbsStored, thumbsDamaged, thumbsLeft, reattaching, noting, lateMark>>
\* a write to a damaged file may fail
WriteRow(c) ==
    LET k == ThumbKey(caller[c].hash, Box(c))
        row == IF writer THEN thumbFile' = [thumbFile EXCEPT !.rows = Refreshed(@, k)] ELSE UNCHANGED thumbFile
    IN  /\ caller[c].st = "writes"
        /\ \/ row /\ FinishCall(c, Thumb(k.hash, k.box)) /\ UNCHANGED noting
           \/ writer /\ thumbFile.state # "good" /\ UNCHANGED thumbFile /\ Step(c, "notes-writes") /\ NoteThumbsDamage(c)
        /\ UNCHANGED <<sources, thumbMem, thumbFail, memCharge, aside, writer, readers, thumbsStored, thumbsDamaged, thumbsLeft, reattaching, lateMark>>

\* PruneThumbnails, deleteThumbsTx: rows are dropped oldest first; gcThumbs: those of sources that are gone.
\* Both want the file attached; either may find it damaged.
Prune(keep) ==
    /\ thumbsLeft > 0 /\ thumbsLeft' = thumbsLeft - 1 /\ thumbsStored /\ ~thumbsDamaged /\ thumbFile.rows # keep
    /\ \/ thumbFile' = [thumbFile EXCEPT !.rows = keep] /\ UNCHANGED noting
       \/ thumbFile.state # "good" /\ NoteThumbsDamage(Nobody) /\ UNCHANGED thumbFile
    /\ UNCHANGED <<sources, caller, calls, thumbMem, thumbFail, memCharge, aside, writer, readers, thumbsStored, thumbsDamaged, reattaching, lateMark>>
PruneThumbnails == \E n \in 0..Len(thumbFile.rows) : Prune(SubSeq(thumbFile.rows, 1, n))
GcThumbs == Prune(SelectSeq(thumbFile.rows, LAMBDA k : k.hash \in sources))
\* GCArt, for the sources
GcSources(h) ==
    /\ thumbsLeft > 0 /\ thumbsLeft' = thumbsLeft - 1 /\ h \in sources /\ sources' = sources \ {h}
    /\ UNCHANGED <<caller, calls, thumbMem, thumbFail, memCharge, thumbFile, aside, writer, readers, thumbsStored, thumbsDamaged, reattaching, noting, lateMark>>
\* ThumbCacheStats, VerifyDerived: a census may find the damage
Census ==
    /\ thumbsLeft > 0 /\ thumbsLeft' = thumbsLeft - 1 /\ ~thumbsDamaged /\ MayFail /\ NoteThumbsDamage(Nobody)
    /\ UNCHANGED <<sources, caller, calls, thumbMem, thumbFail, memCharge, thumbFile, aside, writer, readers, thumbsStored, thumbsDamaged, reattaching, lateMark>>
\* the disk
Corrupt ==
    /\ thumbsLeft > 0 /\ thumbsLeft' = thumbsLeft - 1 /\ thumbFile.state = "good" /\ thumbFile' = [thumbFile EXCEPT !.state = "corrupt"]
    /\ UNCHANGED <<sources, caller, calls, thumbMem, thumbFail, memCharge, aside, writer, readers, thumbsStored, thumbsDamaged, reattaching, noting, lateMark>>
\* openPools: a reopen of the same store; the memory caches and the callers stay
Reopen ==
    /\ thumbsLeft > 0 /\ thumbsLeft' = thumbsLeft - 1 /\ thumbsDamaged' = FALSE
    /\ AttachWriter /\ thumbsStored' = writer'
    /\ readers' \in IF thumbFile'.state = "marked" THEN {"twin"} ELSE {"file", "twin"}
    /\ UNCHANGED <<sources, caller, calls, thumbMem, thumbFail, memCharge, reattaching, noting>>
    /\ lateMark' = FALSE

ThumbsInit ==
    /\ sources = DOMAIN Pictures /\ caller = [c \in Callers |-> Waiting] /\ calls = << >>
    /\ thumbMem = << >> /\ thumbFail = << >> /\ memCharge = 0
    /\ thumbFile = Fresh /\ aside = << >> /\ readers = "file" /\ writer \in BOOLEAN
    /\ thumbsStored = writer /\ thumbsDamaged = FALSE /\ reattaching = FALSE
    /\ noting = [n \in Callers \cup {Nobody} |-> ""] /\ lateMark = FALSE /\ thumbsLeft = MaxThumbOps

ThumbsNext ==
    \/ \E c \in Callers, h \in DOMAIN Pictures, size \in Sizes : Ask(c, h, size)
    \/ \E c \in Callers : GiveUp(c) \/ Leave(c) \/ ReadRow(c) \/ Note(c) \/ Generate(c) \/ StoreRow(c) \/ WriteRow(c) \/ Panic(c)
    \/ \E n \in Callers \cup {Nobody} : SwapDamaged(n) \/ SwapStored(n) \/ MarkFile(n)
    \/ ReattachDue \/ Reattach \/ PruneThumbnails \/ GcThumbs \/ Census \/ Corrupt \/ Reopen
    \/ \E h \in DOMAIN Pictures : GcSources(h)

ThumbsSpec == ThumbsInit /\ [][ThumbsNext]_thumbVars

-----------------------------------------------------------------------------
(* Properties.                                                             *)

(* A caller is told of the picture and the rung it asked for, whoever      *)
(* generated it, and gets the original only where ResolveArt serves it; a  *)
(* waiter waits on a call that somebody leads, one leader to a key, so a   *)
(* panic or a leader that walks away strands nobody (thumbFlight.do); the  *)
(* cache's charge is what it holds and stays in bounds (thumbCache.evict); *)
(* and a file marked damaged is attached nowhere in a store that does not  *)
(* know it damaged (noteThumbsDamage, ready), a mark that landed after a   *)
(* reopen aside: the call that saw the damage had swapped the flags, and   *)
(* the reopen had put them back, before it wrote the mark.                 *)
ThumbsAnswer ==
    /\ \A c \in Callers : caller[c].st = "told" =>
         caller[c].answer \in {Thumb(caller[c].hash, Box(c)), <<"canceled">>, <<"not found">>, <<"not completed">>}
           \cup (IF AsStored(caller[c].hash, Box(c)) \/ ~Pictures[caller[c].hash].decodes THEN {Original(caller[c].hash)} ELSE {})
    /\ \A c \in Callers : caller[c].st = "waits" => \E k \in DOMAIN calls : calls[k] = caller[c].on /\ caller[calls[k]].on = calls[k]
    /\ \A k \in DOMAIN calls : caller[calls[k]].st \notin {"idle", "told", "waits"}
    /\ memCharge = Charge(thumbMem) /\ (Len(thumbMem) > 1 => Len(thumbMem) <= MemMax /\ memCharge <= MemBytes)
    /\ thumbFile.state = "marked" => thumbsDamaged \/ lateMark \/ (~writer /\ readers # "file")
=============================================================================
