----------------------------- MODULE PlayState -----------------------------
(***************************************************************************)
(* A user's play state of an item (store/sqlite/playback.go): the resume   *)
(* position, the played and finished flags, the play count, the star and   *)
(* the rating, each with the stamps that order a replayed change against   *)
(* the ones already there.                                                 *)
(*                                                                         *)
(* A key is a pair of a user and an item.  Times are positive; 0 is the    *)
(* NULL of a stamp and the "no recorded time" of a call.  Every write runs *)
(* in a transaction of its own and reads the store's clock, which never    *)
(* shows the same time twice (nowNS).                                      *)
(***************************************************************************)
EXTENDS Integers, FiniteSets

CONSTANTS
  Key,       \* pairs of a user and an item
  Rating,    \* ratings a call may set, positive
  MaxTime,   \* bound: the last time of the clock, and of a recorded time
  MaxCount   \* bound: the highest play count a call names

ASSUME KeyAssumption == Key # {}
ASSUME RatingAssumption == Rating \subseteq Nat \ {0}
ASSUME MaxTimeAssumption == MaxTime \in Nat
ASSUME MaxCountAssumption == MaxCount \in Nat

VARIABLES
  items,     \* the keys whose user and item both exist
  rows,      \* per key, its play_state row
  clock,     \* the last time the store's clock showed
  decided,   \* history: per key, the newest time of a call that decided its flags
  call       \* history: what the last call was, and the time it carried

rowVars == <<items, rows, clock>>
stateVars == <<items, rows, clock, decided, call>>

Time == 0..MaxTime
Keep == -1                       \* the nil play count of SetPlayed

(***************************************************************************)
(* A row, and the absent row: what a reader is shown for either.           *)
(***************************************************************************)
Row == [there : BOOLEAN, position : Nat, played : BOOLEAN, finished : BOOLEAN,
        count : Nat, lastPlayed : Nat, lastProgress : Nat, playedChanged : Nat,
        starredAt : Nat, starredChanged : Nat, rating : Rating \cup {0}, ratingChanged : Nat]

NoRow == [there |-> FALSE, position |-> 0, played |-> FALSE, finished |-> FALSE,
          count |-> 0, lastPlayed |-> 0, lastProgress |-> 0, playedChanged |-> 0,
          starredAt |-> 0, starredChanged |-> 0, rating |-> 0, ratingChanged |-> 0]

Later(a, b) == IF a >= b THEN a ELSE b
Earlier(a, b) == IF a <= b THEN a ELSE b

StampFor(asOf, now) == IF asOf = 0 THEN now ELSE asOf
\* Mutant: the recorded time as it came.
RecencyForUnclamped(asOf, now) == StampFor(asOf, now)

RecencyFor(asOf, now) == Earlier(StampFor(asOf, now), now)
StaleReplay(asOf, changed) == asOf # 0 /\ changed # 0 /\ asOf <= changed

(***************************************************************************)
(* What each call makes of a row.                                          *)
(***************************************************************************)
Progressed(row, position, asOf, now) ==
  [row EXCEPT !.there = TRUE, !.position = position,
              !.lastProgress = Later(@, RecencyFor(asOf, now))]

\* Mutant: a play always sets the flags.
OutdatedNever(row, asOf) == FALSE

\* A play whose flags lose to a flag change recorded after it.
Outdated(row, asOf) == asOf # 0 /\ row.playedChanged > asOf

Marked(row, finished, asOf, now) ==
  [row EXCEPT !.there = TRUE, !.count = @ + 1,
              !.played = Outdated(row, asOf) => @,
              !.finished = @ \/ (finished /\ ~Outdated(row, asOf)),
              !.lastPlayed = Later(@, RecencyFor(asOf, now)),
              !.lastProgress = Later(@, RecencyFor(asOf, now)),
              !.playedChanged = Later(@, StampFor(asOf, now))]

\* Mutant: a kept count is kept at zero.
WantCountKept(row, played, count) == IF count # Keep THEN count ELSE row.count

\* The count SetPlayed leaves: the one named, else the one there, raised to fit the flag.
WantCount(row, played, count) ==
  IF count # Keep THEN count ELSE IF played THEN Later(row.count, 1) ELSE row.count

FlagsChange(row, played, finished) == row.played # played \/ row.finished # finished

\* Mutant: a change stamps its own time, whatever is there.
PlayedStampOwn(row, played, finished, asOf, now) ==
  IF FlagsChange(row, played, finished) THEN StampFor(asOf, now) ELSE row.playedChanged

PlayedStamp(row, played, finished, asOf, now) ==
  IF ~row.there THEN StampFor(asOf, now)
  ELSE IF FlagsChange(row, played, finished) THEN Later(row.playedChanged, StampFor(asOf, now))
  ELSE row.playedChanged

\* The two silent returns of SetPlayed: nothing to change, and a stale replay.
PlayedStands(row, played, finished, count, asOf) ==
  \/ ~FlagsChange(row, played, finished) /\ row.count = WantCount(row, played, count)
  \/ row.there /\ StaleReplay(asOf, row.playedChanged)

PlayedSet(row, played, finished, count, asOf, now) ==
  IF PlayedStands(row, played, finished, count, asOf) THEN row
  ELSE [row EXCEPT !.there = TRUE, !.played = played, !.finished = finished,
                   !.count = WantCount(row, played, count),
                   !.playedChanged = PlayedStamp(row, played, finished, asOf, now)]

StarSet(row, starred, asOf, now) ==
  IF (row.starredAt # 0) = starred \/ StaleReplay(asOf, row.starredChanged) THEN row
  ELSE [row EXCEPT !.there = TRUE, !.starredChanged = StampFor(asOf, now),
                   !.starredAt = IF starred THEN StampFor(asOf, now) ELSE 0]

RatingSet(row, rating, asOf, now) ==
  IF row.rating = rating \/ StaleReplay(asOf, row.ratingChanged) THEN row
  ELSE [row EXCEPT !.there = TRUE, !.rating = rating, !.ratingChanged = StampFor(asOf, now)]

(***************************************************************************)
(* The calls.  Each is one transaction (playStateWrite); a user or item    *)
(* that is gone refuses it, which changes nothing.                         *)
(***************************************************************************)
StateInit ==
  /\ items = Key
  /\ rows = [k \in Key |-> NoRow]
  /\ clock = 0
  /\ decided = [k \in Key |-> 0]
  /\ call = [op |-> "none", key |-> CHOOSE k \in Key : TRUE, asOf |-> 0]

Write(k, row, op, asOf) ==
  /\ k \in items
  /\ clock < MaxTime
  /\ clock' = clock + 1
  /\ rows' = [rows EXCEPT ![k] = row]
  /\ call' = [op |-> op, key |-> k, asOf |-> asOf]
  /\ UNCHANGED items

\* History: the call decided the flags at the time it stands for.
Decide(k, decides, asOf) ==
  decided' = IF decides THEN [decided EXCEPT ![k] = Later(@, StampFor(asOf, clock + 1))]
             ELSE decided

SetProgress(k, asOf) ==
  /\ Write(k, Progressed(rows[k], clock + 1, asOf, clock + 1), "progress", asOf)
  /\ UNCHANGED decided

MarkPlayed(k, finished, asOf) ==
  /\ Write(k, Marked(rows[k], finished, asOf, clock + 1), "play", asOf)
  /\ Decide(k, ~Outdated(rows[k], asOf), asOf)

SetPlayed(k, played, finished, count, asOf) ==
  /\ finished => played
  /\ ~(played /\ count = 0)
  /\ Write(k, PlayedSet(rows[k], played, finished, count, asOf, clock + 1), "set", asOf)
  /\ Decide(k, /\ FlagsChange(rows[k], played, finished)
               /\ ~PlayedStands(rows[k], played, finished, count, asOf), asOf)

SetStar(k, starred, asOf) ==
  /\ Write(k, StarSet(rows[k], starred, asOf, clock + 1), "star", asOf)
  /\ UNCHANGED decided

SetRating(k, rating, asOf) ==
  /\ Write(k, RatingSet(rows[k], rating, asOf, clock + 1), "rate", asOf)
  /\ UNCHANGED decided

\* The item or the user is deleted and its rows with it.
DeleteItem(k) ==
  /\ k \in items
  /\ items' = items \ {k}
  /\ rows' = [rows EXCEPT ![k] = NoRow]
  /\ decided' = [decided EXCEPT ![k] = 0]
  /\ UNCHANGED <<clock, call>>

StateNext ==
  \E k \in Key :
    \/ DeleteItem(k)
    \/ \E asOf \in Time :
         \/ SetProgress(k, asOf)
         \/ \E finished \in BOOLEAN : MarkPlayed(k, finished, asOf)
         \/ \E played, finished \in BOOLEAN, count \in 0..MaxCount \cup {Keep} :
              SetPlayed(k, played, finished, count, asOf)
         \/ \E starred \in BOOLEAN : SetStar(k, starred, asOf)
         \/ \E rating \in Rating \cup {0} : SetRating(k, rating, asOf)

StateSpec == StateInit /\ [][StateNext]_stateVars

-----------------------------------------------------------------------------
(***************************************************************************)
(* Properties.                                                             *)
(***************************************************************************)

(* The values the row and the history variables take. *)
StateTypeOK ==
  /\ items \subseteq Key
  /\ rows \in [Key -> Row]
  /\ clock \in Nat
  /\ decided \in [Key -> Nat]
  /\ call \in [op : {"none", "progress", "play", "set", "star", "rate"}, key : Key, asOf : Nat]

(* After any sequence of plays, un-marks, replays and count resets a        *)
(* finished item is played and a played item has a count: the two things    *)
(* SetPlayed refuses to be asked for (playback.go:267) and MarkPlayed never  *)
(* makes, whatever was replayed late.                                        *)
FlagsConsistent ==
  \A k \in Key : /\ rows[k].finished => rows[k].played
                 /\ rows[k].played => rows[k].count > 0

(* A recorded time in the future does not pin an item to the head of a       *)
(* recency list: the two recency stamps are never ahead of the clock         *)
(* (recencyFor).                                                             *)
RecencyNotAhead ==
  \A k \in Key : rows[k].lastPlayed <= clock /\ rows[k].lastProgress <= clock

(* The stamp that orders the flags never falls behind a call that decided    *)
(* them: what the theorems need of it.                                       *)
StampCovers ==
  \A k \in Key : decided[k] <= rows[k].playedChanged

(* A key without a row is shown as blank. *)
AbsentIsBlank ==
  \A k \in Key : ~rows[k].there => rows[k] = NoRow

(* The invariant the theorems carry through every call. *)
StateInv == StateTypeOK /\ AbsentIsBlank /\ FlagsConsistent /\ RecencyNotAhead /\ StampCovers

(* No write moves a play, progress or flag stamp back, so an old replay      *)
(* cannot reorder the recently played and in-progress lists, nor an un-mark  *)
(* made now undercut a stamp from a clock ahead of this one.                 *)
StampsForward ==
  \A k \in items' : /\ rows[k].lastPlayed <= rows'[k].lastPlayed
                    /\ rows[k].lastProgress <= rows'[k].lastProgress
                    /\ rows[k].playedChanged <= rows'[k].playedChanged
StampsAdvance == [][StampsForward]_stateVars

(* A replay never changes flags that a call of a later time decided: a play  *)
(* recorded before an un-mark does not bring the undone state back           *)
(* (MarkPlayed), a replayed un-mark does not undo a later play (SetPlayed).  *)
ReplayLate ==
  \A k \in items' : call'.asOf # 0 /\ FlagsChange(rows[k], rows'[k].played, rows'[k].finished)
       => decided[k] <= call'.asOf
ReplayKeepsFlags == [][ReplayLate]_stateVars

(* Together: flags and count of an item agree and its stamps are not ahead;  *)
(* no write moves a stamp back, nor lets a replay undo a later decision      *)
(* (playback.go).                                                            *)
PlayHolds ==
  /\ [](FlagsConsistent /\ RecencyNotAhead)
  /\ [][StampsForward /\ ReplayLate]_stateVars
=============================================================================
