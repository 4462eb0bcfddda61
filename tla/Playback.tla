------------------------------ MODULE Playback ------------------------------
(***************************************************************************)
(* The playback service (playback/playback.go): resume positions are       *)
(* buffered in memory and written by checkpoints and flushes, from several *)
(* goroutines at once.  s.mu guards the buffer alone and is never held     *)
(* across a write, so a section under it is one step; flushMu is held from *)
(* the swap of the buffer to the last write of the batch.  The plays,      *)
(* stars and ratings the service passes straight to the store are calls of *)
(* PlayState; here the row is written by SetProgress alone.                *)
(*                                                                         *)
(* A position is numbered when its call reaches the buffer, so positions   *)
(* tell the calls apart and are ordered as the calls got there.            *)
(***************************************************************************)
EXTENDS PlayState

CONSTANTS
  Thread,     \* goroutines that call the service
  NoThread,   \* nobody holds flushMu
  MaxCalls,   \* bound: how many ticks, checkpoints, flushes and reads are made
  MaxFaults,  \* bound: how many writes fail (I/O, a canceled context)
  Imports,    \* recorded times a checkpoint may carry, 0 for none
  Reads,      \* whether play state is read meanwhile
  Deletes     \* whether an item may be deleted meanwhile

ASSUME ThreadAssumption == NoThread \notin Thread
ASSUME MaxCallsAssumption == MaxCalls \in Nat
ASSUME MaxFaultsAssumption == MaxFaults \in Nat
ASSUME ImportsAssumption == Imports \subseteq Nat
ASSUME SwitchesAssumption == Reads \in BOOLEAN /\ Deletes \in BOOLEAN

VARIABLES
  pending,   \* Service.pending: per key, the buffered tick
  batch,     \* the ticks the flush in progress has still to write
  flushMu,   \* the thread that holds flushMu
  thread,    \* per thread, how far its call is
  calls,     \* how many calls were made
  faults,    \* how many writes failed
  newest,    \* history: per key, the position that entered the buffer last
  overtaken, \* history: the keys whose newest position was flushed before an older
             \* checkpoint, which had found it buffered, got to its own write
  landed     \* history: per key, the newest buffered position ever written

bufferVars == <<pending, batch, flushMu>>
playVars == <<items, rows, clock, pending, batch, flushMu, thread, calls, faults, newest, overtaken, landed,
              decided, call>>

(***************************************************************************)
(* A tick; position 0 is the absent one.                                   *)
(***************************************************************************)
Tick == [position : Nat, at : Nat, asOf : Nat]
NoTick == [position |-> 0, at |-> 0, asOf |-> 0]
Empty == [k \in Key |-> NoTick]
Held(buffer, k) == buffer[k].position # 0

\* A call at rest keeps its outcome: the position it was to land and whether it failed.
Idle == [pc |-> "idle", key |-> CHOOSE k \in Key : TRUE, time |-> 0, asOf |-> 0,
         position |-> 0, failed |-> FALSE, floor |-> 0]

CallState == [pc : {"idle", "asked", "older", "flush", "writing", "overlay", "shown"}, key : Key,
              time : Nat, asOf : Nat, position : Nat, failed : BOOLEAN, floor : Nat]

PlayInit ==
  /\ StateInit
  /\ pending = Empty
  /\ batch = Empty
  /\ flushMu = NoThread
  /\ thread = [t \in Thread |-> Idle]
  /\ calls = 0
  /\ faults = 0
  /\ newest = [k \in Key |-> 0]
  /\ overtaken = {}
  /\ landed = [k \in Key |-> 0]

Begin(t) ==
  /\ thread[t].pc = "idle"
  /\ calls < MaxCalls
  /\ calls' = calls + 1

(***************************************************************************)
(* The calls, up to where they wait for flushMu.                           *)
(***************************************************************************)
Buffer(k, at, asOf) ==
  /\ pending' = [pending EXCEPT ![k] = [position |-> clock + 1, at |-> at, asOf |-> asOf]]
  /\ clock' = clock + 1
  /\ newest' = [newest EXCEPT ![k] = clock + 1]
  /\ overtaken' = overtaken \ {k}

Progress(t, k) ==
  /\ Begin(t)
  /\ Buffer(k, clock + 1, 0)
  /\ thread' = [thread EXCEPT ![t] = Idle]
  /\ UNCHANGED <<items, rows, batch, flushMu, faults, landed, decided, call>>

Flush(t) ==
  /\ Begin(t)
  /\ thread' = [thread EXCEPT ![t] = [Idle EXCEPT !.pc = "flush"]]
  /\ UNCHANGED <<items, rows, clock, bufferVars, faults, newest, overtaken, landed, decided, call>>

\* The checkpoint finds a later tick buffered, which it must not replace.
OlderThanBuffered(k, at) == Held(pending, k) /\ pending[k].at > at

\* The clock is read before s.mu is taken.
Checkpoint(t, k, asOf) ==
  /\ Begin(t)
  /\ clock' = clock + 1
  /\ thread' = [thread EXCEPT ![t] = [Idle EXCEPT !.pc = "asked", !.key = k, !.time = clock + 1,
                                                  !.asOf = asOf]]
  /\ UNCHANGED <<items, rows, bufferVars, faults, newest, overtaken, landed, decided, call>>

CheckpointBuffers(t) ==
  LET k == thread[t].key
      at == RecencyFor(thread[t].asOf, thread[t].time)
  IN
  /\ thread[t].pc = "asked"
  /\ \/ /\ OlderThanBuffered(k, at)
        /\ thread' = [thread EXCEPT ![t].pc = "older", ![t].position = thread[t].time]
        /\ UNCHANGED <<clock, pending, newest, overtaken>>
     \/ /\ ~OlderThanBuffered(k, at)
        /\ thread' = [thread EXCEPT ![t].pc = "flush", ![t].position = clock + 1]
        /\ Buffer(k, at, thread[t].asOf)
  /\ UNCHANGED <<items, rows, batch, flushMu, calls, faults, landed, decided, call>>

(***************************************************************************)
(* The writes, under flushMu.                                              *)
(***************************************************************************)
SetProgressAt(k, position, asOf) ==
  /\ clock' = clock + 1
  /\ rows' = [rows EXCEPT ![k] = Progressed(@, position, asOf, clock + 1)]

\* The older checkpoint's own write: flushMu is taken and let go around it.
OlderWrites(t) ==
  LET k == thread[t].key IN
  /\ thread[t].pc = "older"
  /\ flushMu = NoThread
  /\ k \in items
  /\ SetProgressAt(k, thread[t].position, thread[t].asOf)
  /\ overtaken' = IF Held(pending, k) THEN overtaken ELSE overtaken \cup {k}
  /\ thread' = [thread EXCEPT ![t] = [Idle EXCEPT !.pc = "flush"]]
  /\ UNCHANGED <<items, bufferVars, calls, faults, newest, landed, decided, call>>

OlderFails(t) ==
  /\ thread[t].pc = "older"
  /\ flushMu = NoThread
  /\ \/ thread[t].key \notin items /\ UNCHANGED faults
     \/ faults < MaxFaults /\ faults' = faults + 1
  /\ thread' = [thread EXCEPT ![t] = [Idle EXCEPT !.failed = TRUE]]
  /\ UNCHANGED <<items, rows, clock, bufferVars, calls, newest, overtaken, landed, decided, call>>

Return(t) == thread' = [thread EXCEPT ![t].pc = "idle"]

\* Mutant: the buffer is copied, not taken.
FlushStartsCopying(t) ==
  /\ thread[t].pc = "flush"
  /\ flushMu = NoThread
  /\ pending # Empty
  /\ flushMu' = t
  /\ batch' = pending
  /\ thread' = [thread EXCEPT ![t].pc = "writing"]
  /\ UNCHANGED <<items, rows, clock, pending, calls, faults, newest, overtaken, landed, decided, call>>

FlushStarts(t) ==
  /\ thread[t].pc = "flush"
  /\ flushMu = NoThread
  /\ pending # Empty
  /\ flushMu' = t
  /\ batch' = pending
  /\ pending' = Empty
  /\ thread' = [thread EXCEPT ![t].pc = "writing"]
  /\ UNCHANGED <<items, rows, clock, calls, faults, newest, overtaken, landed, decided, call>>

FlushFindsNothing(t) ==
  /\ thread[t].pc = "flush"
  /\ flushMu = NoThread
  /\ pending = Empty
  /\ Return(t)
  /\ UNCHANGED <<items, rows, clock, bufferVars, calls, faults, newest, overtaken, landed, decided, call>>

Writing(t, k) == thread[t].pc = "writing" /\ Held(batch, k)

FlushWrites(t, k) ==
  /\ Writing(t, k)
  /\ k \in items
  /\ SetProgressAt(k, batch[k].position, batch[k].asOf)
  /\ landed' = [landed EXCEPT ![k] = Later(@, batch[k].position)]
  /\ batch' = [batch EXCEPT ![k] = NoTick]
  /\ UNCHANGED <<items, pending, flushMu, thread, calls, faults, newest, overtaken, decided, call>>

\* NotFound: the tick is dropped, it would fail for ever.
FlushDrops(t, k) ==
  /\ Writing(t, k)
  /\ k \notin items
  /\ batch' = [batch EXCEPT ![k] = NoTick]
  /\ thread' = [thread EXCEPT ![t].failed = TRUE]
  /\ UNCHANGED <<items, rows, clock, pending, flushMu, calls, faults, newest, overtaken, landed, decided, call>>

\* Mutant: the failed tick replaces the newer one.
RequeuedAlways(k) == [pending EXCEPT ![k] = batch[k]]

\* Mutant: the failed tick is not queued again.
RequeuedNever(k) == pending

\* The failed tick goes back into the buffer unless a newer one came.
Requeued(k) == IF Held(pending, k) THEN pending ELSE [pending EXCEPT ![k] = batch[k]]

FlushFails(t, k) ==
  /\ Writing(t, k)
  /\ faults < MaxFaults
  /\ faults' = faults + 1
  /\ pending' = Requeued(k)
  /\ batch' = [batch EXCEPT ![k] = NoTick]
  /\ thread' = [thread EXCEPT ![t].failed = TRUE]
  /\ UNCHANGED <<items, rows, clock, flushMu, calls, newest, overtaken, landed, decided, call>>

\* Mutant: an early return leaves flushMu held.
FlushEndsLocked(t) ==
  /\ thread[t].pc = "writing"
  /\ batch = Empty
  /\ flushMu' = IF thread[t].failed THEN flushMu ELSE NoThread
  /\ Return(t)
  /\ UNCHANGED <<items, rows, clock, pending, batch, calls, faults, newest, overtaken, landed, decided, call>>

FlushEnds(t) ==
  /\ thread[t].pc = "writing"
  /\ batch = Empty
  /\ flushMu' = NoThread
  /\ Return(t)
  /\ UNCHANGED <<items, rows, clock, pending, batch, calls, faults, newest, overtaken, landed, decided, call>>

(***************************************************************************)
(* State: the row is read, then the buffered tick laid over it.            *)
(***************************************************************************)
StateReads(t, k) ==
  /\ Reads
  /\ Begin(t)
  /\ k \in items
  /\ thread' = [thread EXCEPT ![t] =
       [Idle EXCEPT !.pc = "overlay", !.key = k, !.position = rows[k].position,
                    !.floor = newest[k]]]
  /\ UNCHANGED <<items, rows, clock, bufferVars, faults, newest, overtaken, landed, decided, call>>

Overlaid(t) ==
  IF Held(pending, thread[t].key) THEN pending[thread[t].key].position ELSE thread[t].position

StateReturns(t) ==
  /\ thread[t].pc = "overlay"
  /\ thread' = [thread EXCEPT ![t].pc = "shown", ![t].position = Overlaid(t)]
  /\ UNCHANGED <<items, rows, clock, bufferVars, calls, faults, newest, overtaken, landed, decided, call>>

\* The caller has what it asked for.
StateShown(t) ==
  /\ thread[t].pc = "shown"
  /\ thread' = [thread EXCEPT ![t] = Idle]
  /\ UNCHANGED <<items, rows, clock, bufferVars, calls, faults, newest, overtaken, landed, decided, call>>

Delete(k) ==
  /\ Deletes
  /\ DeleteItem(k)
  /\ UNCHANGED <<bufferVars, thread, calls, faults, newest, overtaken, landed>>

LockSteps(t) == CheckpointBuffers(t) \/ OlderWrites(t) \/ OlderFails(t) \/ FlushStarts(t) \/ FlushFindsNothing(t)
WriteSteps(t) ==
  \/ \E k \in Key : FlushWrites(t, k) \/ FlushDrops(t, k) \/ FlushFails(t, k)
  \/ FlushEnds(t)

PlayNext ==
  \/ \E t \in Thread :
       \/ Flush(t) \/ StateReturns(t) \/ StateShown(t) \/ LockSteps(t) \/ WriteSteps(t)
       \/ \E k \in Key : \/ Progress(t, k) \/ StateReads(t, k)
                         \/ \E asOf \in Imports : Checkpoint(t, k, asOf)
  \/ \E k \in Key : Delete(k)

PlaySpec == PlayInit /\ [][PlayNext]_playVars

(* A goroutine runs on, and a mutex that is let go again and again is handed *)
(* to a goroutine that waits for it (Go's mutex hands over after a             *)
(* millisecond of starvation).                                                 *)
PlayFair ==
  \A t \in Thread : SF_playVars(LockSteps(t)) /\ WF_playVars(WriteSteps(t))

PlayLiveSpec == PlaySpec /\ PlayFair

-----------------------------------------------------------------------------
(***************************************************************************)
(* Properties.                                                             *)
(***************************************************************************)

(* The values the variables take. *)
PlayTypeOK ==
  /\ StateTypeOK
  /\ pending \in [Key -> Tick]
  /\ batch \in [Key -> Tick]
  /\ flushMu \in Thread \cup {NoThread}
  /\ thread \in [Thread -> CallState]
  /\ calls \in Nat
  /\ faults \in Nat
  /\ newest \in [Key -> Nat]
  /\ overtaken \subseteq Key
  /\ landed \in [Key -> Nat]

(* The position buffered last is never lost, through failed writes, ticks    *)
(* that arrive during a flush and flushes that overlap: it is buffered, else *)
(* being written, else it is what the row shows.                             *)
Survives(k) ==
  newest[k] = IF Held(pending, k) THEN pending[k].position
              ELSE IF Held(batch, k) THEN batch[k].position
              ELSE rows[k].position

(* It is, but for the one way it is lost: an older checkpoint's own write    *)
(* that came after the flush of the tick it had found buffered.              *)
NewestSurvivesUnlessOvertaken ==
  \A k \in items \ overtaken : newest[k] # 0 => Survives(k)

(* What waits is newer than what is written: no flush ever puts an older     *)
(* position over a newer one that already landed (the promise of flush and   *)
(* of the re-queue after a failed write).                                    *)
WaitingIsNewer ==
  \A k \in Key : /\ Held(pending, k) => /\ pending[k].position > landed[k]
                                        /\ pending[k].position > batch[k].position
                 /\ Held(batch, k) => batch[k].position > landed[k]

(* A checkpoint that returned without an error has landed, or a newer        *)
(* position of its item has, even when another goroutine's flush took it     *)
(* out of the buffer and failed at it.                                       *)
CheckpointLands ==
  \A t \in Thread :
    LET c == thread[t]
    IN c.pc = "idle" /\ c.position # 0 /\ ~c.failed =>
         landed[c.key] >= c.position \/ c.key \notin items

(* Only the holder of flushMu has a batch, and it has it until the last      *)
(* write.                                                                    *)
BatchHasHolder ==
  /\ \A t \in Thread : thread[t].pc = "writing" <=> flushMu = t
  /\ flushMu = NoThread => \A k \in Key : ~Held(batch, k)

(* No position is numbered ahead of the clock, so a new one is the newest. *)
PositionsPast ==
  \A k \in Key : pending[k].position <= clock /\ batch[k].position <= clock /\ landed[k] <= clock

(* Where the position of a checkpoint under way is: landed, or a newer one,  *)
(* or still in the batch, or, before the call's own flush, in the buffer.    *)
CheckpointAccounted ==
  \A t \in Thread :
    LET c == thread[t]
        safe == landed[c.key] >= c.position \/ batch[c.key].position >= c.position
    IN c.position # 0 /\ c.key \in items =>
         /\ c.pc = "flush" => safe \/ pending[c.key].position >= c.position
         /\ c.pc = "writing" => c.failed \/ safe

(* The invariant the theorems carry through every step. *)
PlayInv ==
  /\ PlayTypeOK
  /\ BatchHasHolder
  /\ PositionsPast
  /\ WaitingIsNewer
  /\ CheckpointAccounted
  /\ CheckpointLands
  /\ NewestSurvivesUnlessOvertaken

(* What a client of the service relies on: no acknowledged checkpoint is     *)
(* lost, what waits is newer than what is stored, and the newest position    *)
(* survives unless an older checkpoint's own late write passed it.           *)
PositionsKept == CheckpointLands /\ WaitingIsNewer /\ NewestSurvivesUnlessOvertaken

(* Every checkpoint and flush returns, whatever the others do and however    *)
(* many writes fail.                                                         *)
CallsReturn ==
  \A t \in Thread :
    (thread[t].pc \in {"asked", "older", "flush", "writing"}) ~> (thread[t].pc = "idle")
=============================================================================
