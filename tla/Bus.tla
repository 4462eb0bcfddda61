-------------------------------- MODULE Bus --------------------------------
(***************************************************************************)
(* The in-process change bus: rows a transaction appended are offered to   *)
(* a listener's channel after the commit, and those another process wrote  *)
(* during a maintenance hand-off when the store is open again.             *)
(*                                                                         *)
(* A catalog replaced during the hand-off, or one that cannot be compared, *)
(* is ChangeFeed's; here the feed runs on.  The listener keeps Subscribe's *)
(* contract: it subscribes, pulls with ChangesSince, then takes rows, and  *)
(* pulls again when it meets a gap.                                        *)
(***************************************************************************)
EXTENDS Integers, Sequences

CONSTANTS
  ChanRoom,  \* room of a listener's channel (256 in the code)
  MaxRows    \* bound: rows of the change log

ASSUME BusAssumption == ChanRoom \in Nat \ {0} /\ MaxRows \in Nat

VARIABLES
  store,     \* "open", "suspended", "half" (a reopen in progress) or "closed"
  logHead,   \* the newest seq of the change log
  mark,      \* the head the suspend or the last catch-up saw, -1 for none
  tx,        \* the transaction under wmu: stage, head before it, whether it notifies
  listener,  \* "none", "subscribed", "primed" or "ended"
  chan,      \* its channel
  cursor,    \* the newest row it knows it has everything up to
  dropped,   \* history: a row met a full channel
  unread,    \* history: the rows to publish could not be read
  blind      \* history: a transaction that looked for listeners before this one came

busVars == <<store, logHead, mark, tx, listener, chan, cursor, dropped, unread, blind>>

NoTx == [at |-> "none", pre |-> 0, notify |-> FALSE]
Subscribed == listener \in {"subscribed", "primed"}

BusInit ==
  /\ store = "open" /\ logHead = 1 /\ mark = -1 /\ tx = NoTx
  /\ listener = "none" /\ chan = <<>> /\ cursor = 0
  /\ dropped = FALSE /\ unread = FALSE /\ blind = FALSE

-----------------------------------------------------------------------------
(***************************************************************************)
(* serialTx, one at a time under wmu.                                      *)
(***************************************************************************)
\* The store takes writes.
Writable == store \in {"open", "half"}

\* hasSubscribers is asked at the start.
Begin ==
  /\ tx = NoTx /\ Writable
  /\ tx' = [at |-> "open", pre |-> logHead, notify |-> Subscribed]
  /\ UNCHANGED <<store, logHead, mark, listener, chan, cursor, dropped, unread, blind>>

Commit(n) ==
  /\ tx.at = "open" /\ logHead + n <= MaxRows
  /\ logHead' = logHead + n
  /\ tx' = IF tx.notify THEN [tx EXCEPT !.at = "publish"] ELSE NoTx
  /\ blind' = (blind \/ (n > 0 /\ ~tx.notify /\ listener = "primed"))
  /\ UNCHANGED <<store, mark, listener, chan, cursor, dropped, unread>>

Rollback ==
  /\ tx.at = "open"
  /\ tx' = NoTx
  /\ UNCHANGED <<store, logHead, mark, listener, chan, cursor, dropped, unread, blind>>

\* publishSince offers the next row after pre: a full channel lets it go.
Publish ==
  /\ tx.at \in {"publish", "catchup"} /\ tx.pre < logHead
  /\ tx' = [tx EXCEPT !.pre = @ + 1]
  /\ IF ~Subscribed THEN UNCHANGED <<chan, dropped>>
     ELSE IF Len(chan) < ChanRoom THEN chan' = Append(chan, tx.pre + 1) /\ UNCHANGED dropped
     ELSE dropped' = TRUE /\ UNCHANGED chan
  /\ UNCHANGED <<store, logHead, mark, listener, cursor, unread, blind>>

\* The rows could not be read: no more of them are published, and nobody is told.
PublishFails ==
  /\ tx.at = "publish" /\ tx.pre < logHead
  /\ tx' = NoTx /\ unread' = TRUE
  /\ UNCHANGED <<store, logHead, mark, listener, chan, cursor, dropped, blind>>

Published ==
  /\ tx.at = "publish" /\ tx.pre = logHead
  /\ tx' = NoTx
  /\ UNCHANGED <<store, logHead, mark, listener, chan, cursor, dropped, unread, blind>>

-----------------------------------------------------------------------------
(***************************************************************************)
(* Suspend, the other process, Reopen and Close.                           *)
(***************************************************************************)
\* teardown waits for wmu.  A suspend of a half-restored store keeps the mark.
Suspend ==
  /\ store \in {"open", "half"} /\ tx = NoTx
  /\ store' = "suspended"
  /\ mark' = IF mark = -1 THEN logHead ELSE mark
  /\ UNCHANGED <<logHead, tx, listener, chan, cursor, dropped, unread, blind>>

WriteElsewhere ==
  /\ store = "suspended" /\ logHead < MaxRows
  /\ logHead' = logHead + 1
  /\ UNCHANGED <<store, mark, tx, listener, chan, cursor, dropped, unread, blind>>

\* Mutant: a store suspended again reopens at the head it finds.
CatchUpSkips == logHead

\* replacedSince publishes the rows after the mark's head.
CatchUpFrom == mark

\* catchUpLocked: what was written since the mark goes to listeners, under wmu.
ReopenStarts ==
  /\ store = "suspended"
  /\ store' = "half"
  /\ tx' = [at |-> "catchup", pre |-> CatchUpFrom, notify |-> TRUE]
  /\ UNCHANGED <<logHead, mark, listener, chan, cursor, dropped, unread, blind>>

CaughtUp ==
  /\ tx.at = "catchup" /\ tx.pre = logHead
  /\ mark' = logHead
  /\ tx' = NoTx
  /\ UNCHANGED <<store, logHead, listener, chan, cursor, dropped, unread, blind>>

\* publishSince returns without a word when it cannot read the rows, as when the reopen's
\* context ends, and the mark moves to the head all the same.
CatchUpFails ==
  /\ tx.at = "catchup" /\ tx.pre < logHead
  /\ mark' = logHead
  /\ tx' = NoTx /\ unread' = TRUE
  /\ UNCHANGED <<store, logHead, listener, chan, cursor, dropped, blind>>

\* The reconciliation after it is done; had a step failed, Suspend would have come.
ReopenEnds ==
  /\ store = "half" /\ tx = NoTx
  /\ store' = "open"
  /\ mark' = -1
  /\ UNCHANGED <<logHead, tx, listener, chan, cursor, dropped, unread, blind>>

\* Close ends every listener's channel.
CloseStore ==
  /\ store # "closed" /\ tx = NoTx
  /\ store' = "closed" /\ mark' = -1
  /\ listener' = IF Subscribed THEN "ended" ELSE listener
  /\ UNCHANGED <<logHead, tx, chan, cursor, dropped, unread, blind>>

-----------------------------------------------------------------------------
(***************************************************************************)
(* The listener.                                                           *)
(***************************************************************************)
Subscribe ==
  /\ listener = "none" /\ store # "closed"
  /\ listener' = "subscribed"
  /\ UNCHANGED <<store, logHead, mark, tx, chan, cursor, dropped, unread, blind>>

\* ChangesSince: committed rows alone.
Prime ==
  /\ listener = "subscribed" /\ store \in {"open", "half"}
  /\ listener' = "primed" /\ cursor' = logHead
  /\ UNCHANGED <<store, logHead, mark, tx, chan, dropped, unread, blind>>

\* A row it has is skipped, the next one taken; past a gap it pulls everything.
Receive ==
  /\ listener = "primed" /\ chan # <<>>
  /\ chan' = Tail(chan)
  /\ LET n == Head(chan) IN
     cursor' = IF n <= cursor THEN cursor ELSE IF n = cursor + 1 THEN n ELSE logHead
  /\ UNCHANGED <<store, logHead, mark, tx, listener, dropped, unread, blind>>

Unsubscribe ==
  /\ Subscribed
  /\ listener' = "ended"
  /\ UNCHANGED <<store, logHead, mark, tx, chan, cursor, dropped, unread, blind>>

BusNext ==
  \/ Begin \/ (\E n \in 0..2 : Commit(n)) \/ Rollback \/ Publish \/ PublishFails \/ Published
  \/ Suspend \/ WriteElsewhere \/ ReopenStarts \/ CaughtUp \/ CatchUpFails \/ ReopenEnds \/ CloseStore
  \/ Subscribe \/ Prime \/ Receive \/ Unsubscribe

BusSpec == BusInit /\ [][BusNext]_busVars

-----------------------------------------------------------------------------
(***************************************************************************)
(* Properties                                                              *)
(***************************************************************************)
\* The rows the listener may still be handed: in the channel, being published, or to be
\* caught up with by a reopen.
ToCome ==
  {chan[n] : n \in 1..Len(chan)}
    \cup (IF tx.at \in {"publish", "catchup"} THEN (tx.pre + 1)..logHead ELSE {})
    \cup (IF store = "suspended" THEN (mark + 1)..logHead ELSE {})

\* Subscribe's contract ("subscribe first, then prime the cursor ... the pull will see
\* it"): a listener that subscribed and then pulled has every row, or will be handed
\* it, as long as its channel had room, through suspends and failed reopens too.
NoGap == listener = "primed" /\ ~dropped => (cursor + 1)..logHead \subseteq ToCome

\* The same, but for a transaction that was open when the listener subscribed and
\* committed after its pull, and for rows that could not be read to be published.
NoGapUnlessBlind == ~blind /\ ~unread => NoGap
=============================================================================
