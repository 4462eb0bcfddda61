--------------------------- MODULE PlaybackProofs ---------------------------
(***************************************************************************)
(* Proofs about the play state row and the service that buffers positions, *)
(* for any number of users, items, goroutines, calls and failures.         *)
(***************************************************************************)
EXTENDS Playback, TLAPS

(* A row stays a row, and its parts keep agreeing, whatever a call makes of it. *)
RowOK(row, now) ==
  /\ row \in Row
  /\ row.finished => row.played
  /\ row.played => row.count > 0
  /\ row.lastPlayed <= now
  /\ row.lastProgress <= now

(* The absent row is in order. *)
LEMMA NoRowOK == RowOK(NoRow, 0)
  BY RatingAssumption DEF RowOK, NoRow, Row

(* The stamp helpers stay within the times they are given. *)
LEMMA Stamps ==
  ASSUME NEW asOf \in Nat, NEW now \in Nat
  PROVE  /\ StampFor(asOf, now) \in Nat
         /\ RecencyFor(asOf, now) \in Nat
         /\ RecencyFor(asOf, now) <= now
  BY DEF StampFor, RecencyFor, Earlier

(* SetProgress keeps a row in order. *)
LEMMA ProgressedOK ==
  ASSUME NEW row, NEW now \in Nat, NEW next, next = now + 1, RowOK(row, now), NEW asOf \in Nat,
         NEW position \in Nat, NEW new, new = Progressed(row, position, asOf, next)
  PROVE  /\ RowOK(new, next)
         /\ new.there
         /\ new.position = position
         /\ row.lastProgress <= new.lastProgress
         /\ row.lastPlayed <= new.lastPlayed
         /\ row.playedChanged <= new.playedChanged
         /\ ~FlagsChange(row, new.played, new.finished)
  <1> DEFINE r == RecencyFor(asOf, next)
  <1>1. r \in Nat /\ r <= next
    BY Stamps, next \in Nat
  <1>a. new = [row EXCEPT !.there = TRUE, !.position = position, !.lastProgress = Later(@, r)]
    BY Zenon DEF Progressed
  <1>b. row \in Row
    BY DEF RowOK
  <1>2. /\ new = [row EXCEPT !.there = TRUE, !.position = position, !.lastProgress = Later(@, r)]
        /\ row \in Row
    BY <1>a, <1>b
  <1> HIDE DEF r
  <1>3. Later(row.lastProgress, r) \in Nat /\ Later(row.lastProgress, r) >= row.lastProgress
        /\ Later(row.lastProgress, r) <= next
    BY <1>1, <1>2 DEF RowOK, Row, Later
  <1>4. new \in Row
    BY <1>2, <1>3 DEF Row
  <1>5. /\ new.lastProgress = Later(row.lastProgress, r)
        /\ new.there = TRUE
        /\ new.position = position
        /\ new.played = row.played /\ new.finished = row.finished /\ new.count = row.count
        /\ new.lastPlayed = row.lastPlayed /\ new.playedChanged = row.playedChanged
    BY <1>2 DEF Row
  <1>6. RowOK(new, next)
    BY <1>2, <1>3, <1>4, <1>5 DEF RowOK, Row
  <1> QED BY <1>b, <1>3, <1>5, <1>6 DEF FlagsChange, Row

(* MarkPlayed keeps a row in order and moves no stamp back. *)
LEMMA MarkedOK ==
  ASSUME NEW row, NEW now \in Nat, NEW next, next = now + 1, RowOK(row, now), NEW asOf \in Nat, NEW finished \in BOOLEAN
  PROVE  LET new == Marked(row, finished, asOf, next)
         IN /\ RowOK(new, next)
            /\ new.there
            /\ row.lastProgress <= new.lastProgress
            /\ row.lastPlayed <= new.lastPlayed
            /\ row.playedChanged <= new.playedChanged
            /\ StampFor(asOf, next) <= new.playedChanged
            /\ FlagsChange(row, new.played, new.finished) => ~Outdated(row, asOf)
  <1> DEFINE r == RecencyFor(asOf, next)
             s == StampFor(asOf, next)
             old == Outdated(row, asOf)
             new == Marked(row, finished, asOf, next)
  <1>1. r \in Nat /\ r <= next /\ s \in Nat
    BY Stamps, next \in Nat
  <1>a. new = [row EXCEPT !.there = TRUE, !.count = @ + 1,
                             !.played = old => @, !.finished = @ \/ (finished /\ ~old),
                             !.lastPlayed = Later(@, r), !.lastProgress = Later(@, r),
                             !.playedChanged = Later(@, s)]
    BY Zenon DEF Marked
  <1>2. row \in Row /\ old \in BOOLEAN
    BY DEF RowOK, Outdated
  <1> HIDE DEF r, s, new, old
  <1>3. /\ new.there = TRUE
        /\ new.played = (old => row.played)
        /\ new.finished = (row.finished \/ (finished /\ ~old))
        /\ new.count = row.count + 1
        /\ new.lastPlayed = Later(row.lastPlayed, r)
        /\ new.lastProgress = Later(row.lastProgress, r)
        /\ new.playedChanged = Later(row.playedChanged, s)
    BY <1>a, <1>2 DEF Row
  <1>4. /\ Later(row.lastPlayed, r) \in Nat /\ Later(row.lastProgress, r) \in Nat
        /\ Later(row.playedChanged, s) \in Nat
        /\ Later(row.lastPlayed, r) <= next /\ Later(row.lastProgress, r) <= next
        /\ Later(row.lastPlayed, r) >= row.lastPlayed /\ Later(row.lastProgress, r) >= row.lastProgress
        /\ Later(row.playedChanged, s) >= row.playedChanged /\ Later(row.playedChanged, s) >= s
    BY <1>1, <1>2 DEF RowOK, Row, Later
  <1>5. /\ (old => row.played) \in BOOLEAN /\ (row.finished \/ (finished /\ ~old)) \in BOOLEAN
        /\ row.count + 1 \in Nat /\ row.count + 1 > 0
    BY <1>2 DEF Row
  <1>6. new \in Row
    BY <1>a, <1>2, <1>4, <1>5 DEF Row
  <1>7. new.finished => new.played
    BY <1>3 DEF RowOK
  <1>8. RowOK(new, next)
    BY <1>3, <1>4, <1>5, <1>6, <1>7 DEF RowOK
  <1>9. FlagsChange(row, new.played, new.finished) => ~old
    <2> SUFFICES ASSUME old PROVE new.played = row.played /\ new.finished = row.finished
      BY DEF FlagsChange
    <2> QED BY <1>2, <1>3 DEF Row
  <1> QED BY <1>3, <1>4, <1>8, <1>9 DEF new, old, s

(* SetPlayed keeps a row in order, moves no stamp back, and changes flags   *)
(* only with a recorded time no earlier than their stamp.                   *)
LEMMA PlayedSetOK ==
  ASSUME NEW row, NEW now \in Nat, NEW next, next = now + 1, RowOK(row, now), NEW asOf \in Nat,
         NEW played \in BOOLEAN, NEW finished \in BOOLEAN, NEW count \in Nat \cup {Keep},
         finished => played, ~(played /\ count = 0),
         ~row.there => row = NoRow
  PROVE  LET new == PlayedSet(row, played, finished, count, asOf, next)
         IN /\ RowOK(new, next)
            /\ new.there \/ new = row
            /\ row.lastProgress = new.lastProgress
            /\ row.lastPlayed = new.lastPlayed
            /\ row.playedChanged <= new.playedChanged
            /\ /\ FlagsChange(row, played, finished)
               /\ ~PlayedStands(row, played, finished, count, asOf)
               => StampFor(asOf, next) <= new.playedChanged
            /\ FlagsChange(row, new.played, new.finished) /\ asOf # 0 => row.playedChanged <= asOf
  <1> DEFINE s == StampFor(asOf, next)
             stamp == PlayedStamp(row, played, finished, asOf, next)
             want == WantCount(row, played, count)
             stands == PlayedStands(row, played, finished, count, asOf)
             new == PlayedSet(row, played, finished, count, asOf, next)
  <1>1. s \in Nat
    BY Stamps, next \in Nat
  <1>2. row \in Row
    BY DEF RowOK
  <1>3. CASE stands
    <2>1. new = row
      BY <1>3, Zenon DEF PlayedSet
    <2> HIDE DEF new, stands
    <2>2. RowOK(row, next)
      BY <1>2 DEF RowOK, Row
    <2>3. ~FlagsChange(row, new.played, new.finished)
      BY <2>1 DEF FlagsChange
    <2>4. row.playedChanged <= new.playedChanged
      BY <1>2, <2>1 DEF Row
    <2> QED BY <1>3, <2>1, <2>2, <2>3, <2>4 DEF new, stands
  <1>4. CASE ~stands
    <2>1. new = [row EXCEPT !.there = TRUE, !.played = played, !.finished = finished,
                            !.count = want, !.playedChanged = stamp]
      BY <1>4, Zenon DEF PlayedSet
    <2>2. want \in Nat /\ (played => want > 0)
      BY <1>2 DEF WantCount, Keep, Later, Row
    <2>3. /\ stamp \in Nat
          /\ row.playedChanged <= stamp
          /\ FlagsChange(row, played, finished) => s <= stamp
      <3>1. CASE ~row.there
        <4>1. row.playedChanged = 0 /\ stamp = s
          BY <3>1 DEF NoRow, PlayedStamp
        <4> HIDE DEF s, stamp
        <4> QED BY <1>1, <4>1
      <3>2. CASE row.there /\ FlagsChange(row, played, finished)
        <4>1. stamp = Later(row.playedChanged, s)
          BY <3>2 DEF PlayedStamp
        <4> HIDE DEF s, stamp
        <4> QED BY <1>1, <1>2, <4>1 DEF Later, Row
      <3>3. CASE row.there /\ ~FlagsChange(row, played, finished)
        <4>1. stamp = row.playedChanged
          BY <3>3 DEF PlayedStamp
        <4> HIDE DEF s, stamp
        <4> QED BY <1>2, <3>3, <4>1 DEF Row
      <3> QED BY <3>1, <3>2, <3>3
    <2>4. asOf # 0 => row.playedChanged <= asOf
      <3>1. ~(row.there /\ StaleReplay(asOf, row.playedChanged))
        BY <1>4 DEF PlayedStands
      <3>2. CASE ~row.there
        BY <3>2 DEF NoRow
      <3>3. CASE row.there
        BY <1>2, <3>1, <3>3 DEF StaleReplay, Row
      <3> QED BY <3>2, <3>3
    <2> HIDE DEF s, stamp, want, new
    <2>5. /\ new.there = TRUE /\ new.played = played /\ new.finished = finished
          /\ new.count = want /\ new.playedChanged = stamp
          /\ new.lastPlayed = row.lastPlayed /\ new.lastProgress = row.lastProgress
      BY <1>2, <2>1 DEF Row
    <2>6. new \in Row
      BY <1>2, <2>1, <2>2, <2>3 DEF Row
    <2>7. RowOK(new, next)
      BY <1>2, <2>2, <2>5, <2>6 DEF RowOK, Row
    <2> QED BY <2>3, <2>4, <2>5, <2>7 DEF new, s
  <1> QED BY <1>3, <1>4

(* Stars and ratings leave the playback side of a row alone. *)
LEMMA StarRatingOK ==
  ASSUME NEW row, NEW now \in Nat, NEW next, next = now + 1, RowOK(row, now), NEW asOf \in Nat, NEW new,
         \/ \E starred \in BOOLEAN : new = StarSet(row, starred, asOf, next)
         \/ \E rating \in Rating \cup {0} : new = RatingSet(row, rating, asOf, next)
  PROVE  /\ RowOK(new, next)
         /\ new.there \/ new = row
         /\ new.lastProgress = row.lastProgress /\ new.lastPlayed = row.lastPlayed
         /\ new.playedChanged = row.playedChanged
         /\ ~FlagsChange(row, new.played, new.finished)
  <1> DEFINE s == StampFor(asOf, next)
  <1>1. s \in Nat /\ row \in Row
    BY Stamps, next \in Nat DEF RowOK
  <1>2. CASE new = row
    BY <1>1, <1>2 DEF RowOK, Row, FlagsChange
  <1>3. ASSUME NEW at \in Nat,
               new = [row EXCEPT !.there = TRUE, !.starredChanged = s, !.starredAt = at]
        PROVE  /\ new \in Row /\ new.there
               /\ new.played = row.played /\ new.finished = row.finished /\ new.count = row.count
               /\ new.lastProgress = row.lastProgress /\ new.lastPlayed = row.lastPlayed
               /\ new.playedChanged = row.playedChanged
    <2> HIDE DEF s
    <2> QED BY <1>1, <1>3 DEF Row
  <1>4. ASSUME NEW rating \in Rating \cup {0},
               new = [row EXCEPT !.there = TRUE, !.rating = rating, !.ratingChanged = s]
        PROVE  /\ new \in Row /\ new.there
               /\ new.played = row.played /\ new.finished = row.finished /\ new.count = row.count
               /\ new.lastProgress = row.lastProgress /\ new.lastPlayed = row.lastPlayed
               /\ new.playedChanged = row.playedChanged
    <2> HIDE DEF s
    <2> QED BY <1>1, <1>4 DEF Row
  <1>5. \/ new = row
        \/ \E at \in Nat : new = [row EXCEPT !.there = TRUE, !.starredChanged = s, !.starredAt = at]
        \/ \E rating \in Rating \cup {0} :
              new = [row EXCEPT !.there = TRUE, !.rating = rating, !.ratingChanged = s]
    <2>1. ASSUME NEW starred \in BOOLEAN, new = StarSet(row, starred, asOf, next), new # row
          PROVE  new = [row EXCEPT !.there = TRUE, !.starredChanged = s,
                                   !.starredAt = IF starred THEN s ELSE 0]
      BY <2>1, Zenon DEF StarSet
    <2>2. ASSUME NEW starred \in BOOLEAN PROVE (IF starred THEN s ELSE 0) \in Nat
      BY <1>1
    <2>3. ASSUME NEW rating \in Rating \cup {0}, new = RatingSet(row, rating, asOf, next), new # row
          PROVE  new = [row EXCEPT !.there = TRUE, !.rating = rating, !.ratingChanged = s]
      BY <2>3, Zenon DEF RatingSet
    <2> HIDE DEF s
    <2> QED BY <2>1, <2>2, <2>3
  <1>6. CASE new # row
    <2> HIDE DEF s
    <2>1. /\ new \in Row /\ new.there
          /\ new.played = row.played /\ new.finished = row.finished /\ new.count = row.count
          /\ new.lastProgress = row.lastProgress /\ new.lastPlayed = row.lastPlayed
          /\ new.playedChanged = row.playedChanged
      BY <1>3, <1>4, <1>5, <1>6
    <2> QED BY <1>1, <2>1 DEF RowOK, Row, FlagsChange
  <1> QED BY <1>2, <1>6

(* A call keeps the invariant when the row it leaves is in order and its     *)
(* flag stamp covers the time the call decided the flags at, if it did.      *)
LEMMA WriteSafe ==
  ASSUME StateInv, NEW k \in Key, NEW new, NEW asOf \in Nat,
         NEW op \in {"progress", "play", "set", "star", "rate"},
         Write(k, new, op, asOf), RowOK(new, clock + 1), new.there \/ new = rows[k],
         rows[k].playedChanged <= new.playedChanged,
         \/ decided' = decided
         \/ /\ decided' = [decided EXCEPT ![k] = Later(@, StampFor(asOf, clock + 1))]
            /\ StampFor(asOf, clock + 1) <= new.playedChanged
  PROVE  StateInv'
  <1> USE DEF StateInv
  <1>1. /\ clock \in Nat /\ clock' = clock + 1 /\ items' = items
        /\ rows' = [rows EXCEPT ![k] = new] /\ new \in Row
        /\ call' = [op |-> op, key |-> k, asOf |-> asOf]
    BY DEF Write, StateTypeOK, RowOK
  <1>2. StampFor(asOf, clock + 1) \in Nat
    BY <1>1, Stamps, clock + 1 \in Nat
  <1>3. decided' \in [Key -> Nat]
    BY <1>2 DEF StateTypeOK, Later
  <1>4. StateTypeOK'
    <2>1. call' \in [op : {"none", "progress", "play", "set", "star", "rate"}, key : Key, asOf : Nat]
      BY <1>1
    <2>2. rows' \in [Key -> Row] /\ clock' \in Nat /\ items' \subseteq Key
      BY <1>1 DEF StateTypeOK
    <2> QED BY <1>3, <2>1, <2>2 DEF StateTypeOK
  <1>5. \A j \in Key : rows'[j] = IF j = k THEN new ELSE rows[j]
    BY <1>1 DEF StateTypeOK
  <1>6. AbsentIsBlank'
    BY <1>5 DEF AbsentIsBlank
  <1>7. FlagsConsistent'
    BY <1>5 DEF FlagsConsistent, RowOK
  <1>8. RecencyNotAhead'
    <2> SUFFICES ASSUME NEW j \in Key
                 PROVE  rows'[j].lastPlayed <= clock' /\ rows'[j].lastProgress <= clock'
      BY DEF RecencyNotAhead
    <2>1. CASE j = k
      BY <1>1, <1>5, <2>1 DEF RowOK
    <2>2. CASE j # k
      <3>1. rows[j] \in Row
        BY DEF StateTypeOK
      <3> QED BY <1>1, <1>5, <2>2, <3>1 DEF RecencyNotAhead, Row
    <2> QED BY <2>1, <2>2
  <1>9. StampCovers'
    <2> SUFFICES ASSUME NEW j \in Key PROVE decided'[j] <= rows'[j].playedChanged
      BY DEF StampCovers
    <2>1. /\ decided[j] \in Nat /\ rows[j].playedChanged \in Nat /\ new.playedChanged \in Nat
          /\ decided[j] <= rows[j].playedChanged
      BY <1>1 DEF StateTypeOK, Row, StampCovers
    <2>2. CASE j # k
      BY <1>5, <2>1, <2>2 DEF StateTypeOK
    <2>3. CASE j = k
      <3>1. \/ decided'[k] = decided[k]
            \/ /\ decided'[k] = Later(decided[k], StampFor(asOf, clock + 1))
               /\ StampFor(asOf, clock + 1) <= new.playedChanged
        BY DEF StateTypeOK
      <3> QED BY <1>2, <1>5, <2>1, <2>3, <3>1 DEF Later
    <2> QED BY <2>2, <2>3
  <1> QED BY <1>4, <1>6, <1>7, <1>8, <1>9

(* Under the invariant every row is in order at the clock's time. *)
LEMMA RowsInOrder ==
  ASSUME StateInv, NEW k \in Key
  PROVE  RowOK(rows[k], clock) /\ clock \in Nat /\ (~rows[k].there => rows[k] = NoRow)
  BY DEF StateInv, StateTypeOK, FlagsConsistent, RecencyNotAhead, AbsentIsBlank, RowOK

(* What a call does to the row of its key, in one statement: the stamps      *)
(* advance, and a replay that changes flags is no older than their stamp.    *)
CallFair(k) ==
  /\ rows[k].lastPlayed <= rows'[k].lastPlayed
  /\ rows[k].lastProgress <= rows'[k].lastProgress
  /\ rows[k].playedChanged <= rows'[k].playedChanged
  /\ call'.asOf # 0 /\ FlagsChange(rows[k], rows'[k].played, rows'[k].finished)
       => rows[k].playedChanged <= call'.asOf

(* Every call keeps the invariant and is fair to the row of its key. *)
LEMMA CallSafe ==
  ASSUME StateInv, NEW k \in Key, NEW asOf \in Nat,
         \/ SetProgress(k, asOf)
         \/ \E finished \in BOOLEAN : MarkPlayed(k, finished, asOf)
         \/ \E played, finished \in BOOLEAN, count \in Nat \cup {Keep} :
              SetPlayed(k, played, finished, count, asOf)
         \/ \E starred \in BOOLEAN : SetStar(k, starred, asOf)
         \/ \E rating \in Rating \cup {0} : SetRating(k, rating, asOf)
  PROVE  StateInv' /\ CallFair(k)
  <1> DEFINE now == clock
             next == clock + 1
             row == rows[k]
  <1>0. next = now + 1 /\ next \in Nat
    BY RowsInOrder
  <1>1. /\ RowOK(row, now) /\ now \in Nat /\ (~row.there => row = NoRow)
        /\ row \in Row /\ row.playedChanged \in Nat /\ row.lastPlayed \in Nat
        /\ row.lastProgress \in Nat
    BY RowsInOrder DEF RowOK, Row
  <1>2. ASSUME NEW new, NEW op, Write(k, new, op, asOf)
        PROVE  rows'[k] = new /\ call'.asOf = asOf
    BY <1>2 DEF Write, StateInv, StateTypeOK
  <1>3. CASE SetProgress(k, asOf)
    <2> DEFINE new == Progressed(row, next, asOf, next)
    <2>1. Write(k, new, "progress", asOf) /\ decided' = decided
      BY <1>3 DEF SetProgress
    <2>2. /\ RowOK(new, next) /\ new.there /\ row.lastProgress <= new.lastProgress
          /\ row.lastPlayed <= new.lastPlayed /\ row.playedChanged <= new.playedChanged
          /\ ~FlagsChange(row, new.played, new.finished)
      <3> HIDE DEF now, row, next
      <3>1. new = Progressed(row, next, asOf, next)
        OBVIOUS
      <3> HIDE DEF new
      <3> QED BY <1>0, <1>1, <3>1, ProgressedOK
    <2> HIDE DEF new
    <2>3. StateInv'
      BY <2>1, <2>2, WriteSafe
    <2> QED BY <1>2, <2>1, <2>2, <2>3 DEF CallFair
  <1>4. ASSUME NEW finished \in BOOLEAN, MarkPlayed(k, finished, asOf)
        PROVE  StateInv' /\ CallFair(k)
    <2> DEFINE new == Marked(row, finished, asOf, next)
    <2>1. /\ Write(k, new, "play", asOf)
          /\ \/ decided' = decided
             \/ decided' = [decided EXCEPT ![k] = Later(@, StampFor(asOf, clock + 1))]
      BY <1>4 DEF MarkPlayed, Decide
    <2>2. /\ RowOK(new, next) /\ new.there /\ row.lastProgress <= new.lastProgress
          /\ row.lastPlayed <= new.lastPlayed /\ row.playedChanged <= new.playedChanged
          /\ StampFor(asOf, next) <= new.playedChanged
          /\ FlagsChange(row, new.played, new.finished) => ~Outdated(row, asOf)
      <3> HIDE DEF now, row, next
      <3> QED BY <1>0, <1>1, MarkedOK
    <2> HIDE DEF new
    <2>3. StateInv'
      BY <2>1, <2>2, WriteSafe
    <2>4. ~Outdated(row, asOf) /\ asOf # 0 => row.playedChanged <= asOf
      BY <1>1 DEF Outdated
    <2> QED BY <1>2, <2>1, <2>2, <2>3, <2>4 DEF CallFair
  <1>5. ASSUME NEW played \in BOOLEAN, NEW finished \in BOOLEAN, NEW count \in Nat \cup {Keep},
               SetPlayed(k, played, finished, count, asOf)
        PROVE  StateInv' /\ CallFair(k)
    <2> DEFINE new == PlayedSet(row, played, finished, count, asOf, next)
               decides == /\ FlagsChange(row, played, finished)
                          /\ ~PlayedStands(row, played, finished, count, asOf)
    <2>1. /\ Write(k, new, "set", asOf)
          /\ finished => played
          /\ ~(played /\ count = 0)
          /\ \/ decided' = decided
             \/ decides /\ decided' = [decided EXCEPT ![k] = Later(@, StampFor(asOf, clock + 1))]
      BY <1>5 DEF SetPlayed, Decide
    <2>2. /\ RowOK(new, next)
          /\ new.there \/ new = row
          /\ row.lastProgress = new.lastProgress
          /\ row.lastPlayed = new.lastPlayed /\ row.playedChanged <= new.playedChanged
          /\ decides => StampFor(asOf, next) <= new.playedChanged
          /\ FlagsChange(row, new.played, new.finished) /\ asOf # 0 => row.playedChanged <= asOf
      <3> HIDE DEF now, row, next
      <3> QED BY <1>0, <1>1, <2>1, PlayedSetOK
    <2> HIDE DEF new, decides
    <2>3. row.lastProgress <= new.lastProgress /\ row.lastPlayed <= new.lastPlayed
      BY <1>1, <2>2
    <2>4. StateInv'
      BY <2>1, <2>2, WriteSafe
    <2> QED BY <1>2, <2>1, <2>2, <2>3, <2>4 DEF CallFair
  <1>6. ASSUME NEW new, NEW op \in {"star", "rate"}, Write(k, new, op, asOf), decided' = decided,
               \/ \E starred \in BOOLEAN : new = StarSet(row, starred, asOf, next)
               \/ \E rating \in Rating \cup {0} : new = RatingSet(row, rating, asOf, next)
        PROVE  StateInv' /\ CallFair(k)
    <2>1. /\ RowOK(new, next)
          /\ new.there \/ new = row
          /\ new.lastProgress = row.lastProgress /\ new.lastPlayed = row.lastPlayed
          /\ new.playedChanged = row.playedChanged
          /\ ~FlagsChange(row, new.played, new.finished)
      <3> HIDE DEF now, row, next
      <3> QED BY <1>0, <1>1, <1>6, StarRatingOK
    <2>2. /\ row.lastProgress <= new.lastProgress /\ row.lastPlayed <= new.lastPlayed
          /\ row.playedChanged <= new.playedChanged
      BY <1>1, <2>1
    <2>3. StateInv'
      BY <1>6, <2>1, <2>2, WriteSafe
    <2> QED BY <1>2, <1>6, <2>1, <2>2, <2>3 DEF CallFair
  <1>7. ASSUME NEW starred \in BOOLEAN, SetStar(k, starred, asOf)
        PROVE  StateInv' /\ CallFair(k)
    BY <1>6, <1>7 DEF SetStar
  <1>8. ASSUME NEW rating \in Rating \cup {0}, SetRating(k, rating, asOf)
        PROVE  StateInv' /\ CallFair(k)
    BY <1>6, <1>8 DEF SetRating
  <1> QED BY <1>3, <1>4, <1>5, <1>7, <1>8

(* Deleting an item or its user keeps the invariant. *)
LEMMA DeleteItemSafe ==
  ASSUME StateInv, NEW k \in Key, DeleteItem(k)
  PROVE  StateInv'
  <1>1. /\ rows' = [rows EXCEPT ![k] = NoRow] /\ decided' = [decided EXCEPT ![k] = 0]
        /\ clock' = clock /\ call' = call /\ items' = items \ {k}
    BY DEF DeleteItem
  <1>2. NoRow \in Row /\ RowOK(NoRow, 0) /\ NoRow.playedChanged = 0
    BY NoRowOK DEF RowOK, NoRow
  <1>3. \A j \in Key : RowOK(rows[j], clock)
    BY RowsInOrder
  <1>4. StateTypeOK'
    BY <1>1, <1>2 DEF StateInv, StateTypeOK
  <1>5. RowOK(NoRow, clock)
    BY <1>2 DEF StateInv, StateTypeOK, RowOK, NoRow
  <1>6. \A j \in Key : /\ rows'[j] = IF j = k THEN NoRow ELSE rows[j]
                       /\ decided'[j] = IF j = k THEN 0 ELSE decided[j]
    BY <1>1 DEF StateInv, StateTypeOK
  <1>7. AbsentIsBlank' /\ FlagsConsistent' /\ RecencyNotAhead'
    BY <1>1, <1>3, <1>5, <1>6 DEF StateInv, AbsentIsBlank, FlagsConsistent, RecencyNotAhead, RowOK
  <1>8. StampCovers'
    BY <1>2, <1>6 DEF StateInv, StampCovers
  <1> QED BY <1>4, <1>7, <1>8 DEF StateInv

(* The calls a step may be: one of CallSafe's or a deletion. *)
LEMMA StateStepCases ==
  ASSUME StateNext
  PROVE  \/ \E k \in Key : DeleteItem(k)
         \/ \E k \in Key, asOf \in Nat :
              \/ SetProgress(k, asOf)
              \/ \E finished \in BOOLEAN : MarkPlayed(k, finished, asOf)
              \/ \E played, finished \in BOOLEAN, count \in Nat \cup {Keep} :
                   SetPlayed(k, played, finished, count, asOf)
              \/ \E starred \in BOOLEAN : SetStar(k, starred, asOf)
              \/ \E rating \in Rating \cup {0} : SetRating(k, rating, asOf)
  <1>1. Time \subseteq Nat /\ 0..MaxCount \cup {Keep} \subseteq Nat \cup {Keep}
    BY MaxTimeAssumption, MaxCountAssumption DEF Time
  <1> QED BY <1>1, Zenon DEF StateNext

(* A call writes the row of its key alone. *)
LEMMA CallWritesOne ==
  ASSUME StateInv, NEW k \in Key, NEW asOf \in Nat,
         \/ SetProgress(k, asOf)
         \/ \E finished \in BOOLEAN : MarkPlayed(k, finished, asOf)
         \/ \E played, finished \in BOOLEAN, count \in Nat \cup {Keep} :
              SetPlayed(k, played, finished, count, asOf)
         \/ \E starred \in BOOLEAN : SetStar(k, starred, asOf)
         \/ \E rating \in Rating \cup {0} : SetRating(k, rating, asOf)
  PROVE  items' = items /\ \A j \in Key \ {k} : rows'[j] = rows[j]
  <1>1. items' = items /\ \E new : rows' = [rows EXCEPT ![k] = new]
    BY Zenon DEF SetProgress, MarkPlayed, SetPlayed, SetStar, SetRating, Write
  <1> QED BY <1>1 DEF StateInv, StateTypeOK

(* In every reachable state finished items are played, played items have a   *)
(* count, recency stamps are not ahead of the clock and the flag stamp       *)
(* covers every call that decided the flags.                                 *)
THEOREM StateInvariance == StateSpec => []StateInv
  <1>1. StateInit => StateInv
    <2> SUFFICES ASSUME StateInit PROVE StateInv
      OBVIOUS
    <2>1. NoRow \in Row /\ RowOK(NoRow, 0) /\ NoRow.playedChanged = 0
      BY NoRowOK DEF RowOK, NoRow
    <2>2. (CHOOSE k \in Key : TRUE) \in Key
      BY KeyAssumption
    <2> QED BY <2>1, <2>2 DEF StateInit, StateInv, StateTypeOK, AbsentIsBlank, FlagsConsistent,
                              RecencyNotAhead, StampCovers, RowOK
  <1>2. StateInv /\ [StateNext]_stateVars => StateInv'
    <2>1. CASE UNCHANGED stateVars
      BY <2>1 DEF stateVars, StateInv, StateTypeOK, AbsentIsBlank, FlagsConsistent,
                  RecencyNotAhead, StampCovers
    <2>2. ASSUME StateInv, StateNext PROVE StateInv'
      BY <2>2, StateStepCases, CallSafe, DeleteItemSafe
    <2> QED BY <2>1, <2>2
  <1> QED BY <1>1, <1>2, PTL DEF StateSpec

(* Flags and count agree after any sequence of calls. *)
THEOREM FlagsConsistentHolds == StateSpec => []FlagsConsistent
  <1>1. StateInv => FlagsConsistent
    BY DEF StateInv
  <1> QED BY <1>1, StateInvariance, PTL

(* A step is fair to every key that is still there: the two action           *)
(* properties from one statement.                                            *)
LEMMA StepFair ==
  ASSUME StateInv, [StateNext]_stateVars, NEW k \in items'
  PROVE  /\ rows[k].lastPlayed <= rows'[k].lastPlayed
         /\ rows[k].lastProgress <= rows'[k].lastProgress
         /\ rows[k].playedChanged <= rows'[k].playedChanged
         /\ call'.asOf # 0 /\ FlagsChange(rows[k], rows'[k].played, rows'[k].finished)
              => rows[k].playedChanged <= call'.asOf
  <1>1. k \in Key /\ rows[k] \in Row
    <2>1. StateNext => items' \subseteq items
      BY StateStepCases, CallWritesOne DEF DeleteItem
    <2>2. items' \subseteq items
      BY <2>1 DEF stateVars
    <2> QED BY <2>2 DEF StateInv, StateTypeOK
  <1>2. CASE rows'[k] = rows[k]
    BY <1>1, <1>2 DEF Row, FlagsChange
  <1>3. CASE UNCHANGED stateVars
    BY <1>2, <1>3 DEF stateVars
  <1>4. ASSUME NEW j \in Key, DeleteItem(j) PROVE rows'[k] = rows[k]
    BY <1>1, <1>4 DEF DeleteItem, StateInv, StateTypeOK
  <1>5. CASE StateNext
    BY <1>1, <1>2, <1>4, <1>5, StateStepCases, CallSafe, CallWritesOne DEF CallFair
  <1> QED BY <1>3, <1>5

(* No call moves a play, progress or flag stamp back. *)
THEOREM StampsAdvanceHolds == StateSpec => StampsAdvance
  <1>1. StateInv /\ [StateNext]_stateVars =>
          [\A k \in items' : /\ rows[k].lastPlayed <= rows'[k].lastPlayed
                             /\ rows[k].lastProgress <= rows'[k].lastProgress
                             /\ rows[k].playedChanged <= rows'[k].playedChanged]_stateVars
    BY StepFair
  <1> QED BY <1>1, StateInvariance, PTL DEF StateSpec, StampsAdvance, StampsForward

(* No replay changes flags a later call decided. *)
THEOREM ReplayKeepsFlagsHolds == StateSpec => ReplayKeepsFlags
  <1>1. StateInv /\ [StateNext]_stateVars =>
          [\A k \in items' : call'.asOf # 0 /\ FlagsChange(rows[k], rows'[k].played, rows'[k].finished)
             => decided[k] <= call'.asOf]_stateVars
    <2> SUFFICES ASSUME StateInv, StateNext, NEW k \in items', call'.asOf # 0,
                        FlagsChange(rows[k], rows'[k].played, rows'[k].finished)
                 PROVE  decided[k] <= call'.asOf
      OBVIOUS
    <2>1. rows[k].playedChanged <= call'.asOf
      BY StepFair
    <2>2. StateInv' /\ k \in Key
      BY StateStepCases, CallSafe, DeleteItemSafe DEF StateInv, StateTypeOK
    <2>3. call'.asOf \in Nat /\ decided[k] \in Nat /\ rows[k].playedChanged \in Nat
          /\ decided[k] <= rows[k].playedChanged
      BY <2>2 DEF StateInv, StateTypeOK, Row, StampCovers
    <2> QED BY <2>1, <2>3
  <1> QED BY <1>1, StateInvariance, PTL DEF StateSpec, ReplayKeepsFlags, ReplayLate

(* What the rows promise together: flags agree with the count, recency is    *)
(* not ahead of the clock, and neither a write nor a replay goes back.       *)
THEOREM PlayHoldsAlways == StateSpec => PlayHolds
  <1>1. StateInv => FlagsConsistent /\ RecencyNotAhead
    BY DEF StateInv
  <1> QED BY <1>1, StateInvariance, StampsAdvanceHolds, ReplayKeepsFlagsHolds, PTL
          DEF PlayHolds, StampsAdvance, ReplayKeepsFlags

-----------------------------------------------------------------------------
(***************************************************************************)
(* The service.                                                            *)
(***************************************************************************)

(* A position written to a row leaves a row that shows it. *)
LEMMA ProgressedRow ==
  ASSUME NEW row \in Row, NEW position \in Nat, NEW asOf \in Nat, NEW now \in Nat
  PROVE  /\ Progressed(row, position, asOf, now) \in Row
         /\ Progressed(row, position, asOf, now).position = position
  <1> DEFINE r == RecencyFor(asOf, now)
             new == Progressed(row, position, asOf, now)
  <1>1. r \in Nat
    BY Stamps
  <1>2. new = [row EXCEPT !.there = TRUE, !.position = position, !.lastProgress = Later(@, r)]
    BY Zenon DEF Progressed
  <1> HIDE DEF r, new
  <1>3. Later(row.lastProgress, r) \in Nat
    BY <1>1 DEF Later, Row
  <1>4. new \in Row /\ new.position = position
    BY <1>2, <1>3 DEF Row
  <1> QED BY <1>4 DEF new

(* A row shows the position last written to it. *)
LEMMA ProgressedShows ==
  ASSUME NEW row \in Row, NEW position, NEW asOf, NEW now
  PROVE  Progressed(row, position, asOf, now).position = position
  <1> DEFINE r == RecencyFor(asOf, now)
             new == Progressed(row, position, asOf, now)
  <1>1. new = [row EXCEPT !.there = TRUE, !.position = position, !.lastProgress = Later(@, r)]
    BY Zenon DEF Progressed
  <1> HIDE DEF r, new
  <1>2. new.position = position
    BY <1>1 DEF Row
  <1> QED BY <1>2 DEF new

(* What a step makes of the thread that takes it. *)
Moves(t, pc, key, position, failed) ==
  /\ thread' \in [Thread -> CallState]
  /\ thread'[t].pc = pc /\ thread'[t].key = key
  /\ thread'[t].position = position /\ thread'[t].failed = failed
  /\ \A u \in Thread \ {t} : thread'[u] = thread[u]

(* What the types say of the parts the steps use. *)
LEMMA Types ==
  ASSUME PlayTypeOK
  PROVE  /\ clock \in Nat /\ items \subseteq Key /\ overtaken \subseteq Key
         /\ \A k \in Key : /\ pending[k] \in Tick /\ batch[k] \in Tick /\ rows[k] \in Row
                           /\ pending[k].position \in Nat /\ batch[k].position \in Nat
                           /\ landed[k] \in Nat /\ newest[k] \in Nat
                           /\ rows[k].position \in Nat
         /\ \A t \in Thread : /\ thread[t] \in CallState /\ thread[t].key \in Key
                              /\ thread[t].position \in Nat /\ thread[t].time \in Nat
                              /\ thread[t].asOf \in Nat
  BY DEF PlayTypeOK, StateTypeOK, Tick, Row, CallState

(* The outcome a call starts from. *)
LEMMA IdleOK ==
  /\ Idle \in CallState
  /\ Idle.pc = "idle" /\ Idle.position = 0 /\ Idle.failed = FALSE
  BY KeyAssumption DEF Idle, CallState

(* A thread set to a call state moves to it. *)
LEMMA MovesTo ==
  ASSUME PlayTypeOK, NEW t \in Thread, NEW c \in CallState, thread' = [thread EXCEPT ![t] = c]
  PROVE  Moves(t, c.pc, c.key, c.position, c.failed)
  BY DEF PlayTypeOK, Moves, CallState

(* Progress keeps the invariant. *)
LEMMA ProgressSafe ==
  ASSUME PlayInv, NEW t \in Thread, NEW k \in Key, Progress(t, k)
  PROVE  PlayInv'
  <1>1. PlayTypeOK
    BY DEF PlayInv
  <1>2. clock + 1 \in Nat
    BY <1>1, Types
  <1>3. thread[t].pc = "idle"
    BY DEF Progress, Begin, Buffer
  <1>4. Moves(t, "idle", Idle.key, 0, FALSE)
    <2> DEFINE c == Idle
    <2>1. thread' = [thread EXCEPT ![t] = c]
      BY DEF Progress, Begin, Buffer
    <2>2. /\ c \in CallState /\ c.pc = "idle" /\ c.key = Idle.key
          /\ c.position = 0 /\ c.failed = FALSE
      BY <1>1, <1>2, <1>3, IdleOK, Types DEF CallState
    <2> HIDE DEF c
    <2>3. Moves(t, c.pc, c.key, c.position, c.failed)
      BY <1>1, <2>1, <2>2, MovesTo
    <2> QED BY <2>2, <2>3
  <1>5. /\ items' = items /\ flushMu' = flushMu /\ clock' = clock + 1
        /\ overtaken' = overtaken \ {k}
        /\ pending'[k].position = clock + 1 /\ \A j \in Key \ {k} : pending'[j] = pending[j]
        /\ batch' = batch
        /\ landed' = landed
        /\ newest'[k] = clock + 1 /\ \A j \in Key \ {k} : newest'[j] = newest[j]
        /\ rows' = rows
    BY <1>1, Types
       DEF Progress, Begin, Buffer, PlayTypeOK, StateTypeOK, bufferVars, NoTick, Empty, Tick
  <1>6. PlayTypeOK'
    BY <1>1, <1>4, <1>5, Types
       DEF Progress, Begin, Buffer, PlayTypeOK, StateTypeOK, Moves, bufferVars, Empty, NoTick,
           Tick, Later
  <1>7. BatchHasHolder'
    BY <1>1, <1>4, <1>5, <1>3, Types, ThreadAssumption DEF PlayInv, BatchHasHolder, Held, Moves
  <1>8. PositionsPast'
    BY <1>1, <1>4, <1>5, <1>3, Types, ThreadAssumption
       DEF PlayInv, BatchHasHolder, PositionsPast, Held, Later, Moves
  <1>9. WaitingIsNewer'
    BY <1>1, <1>4, <1>5, <1>3, Types, ThreadAssumption
       DEF PlayInv, BatchHasHolder, WaitingIsNewer, PositionsPast, Held, Later, Moves
  <1>10. CheckpointAccounted'
    BY <1>1, <1>4, <1>5, <1>3, Types, ThreadAssumption
       DEF PlayInv, BatchHasHolder, CheckpointAccounted, WaitingIsNewer, PositionsPast, Held,
           Later, Moves
  <1>11. CheckpointLands'
    BY <1>1, <1>4, <1>5, <1>3, Types, ThreadAssumption
       DEF PlayInv, BatchHasHolder, CheckpointLands, CheckpointAccounted, Held, Later, Moves
  <1>12. NewestSurvivesUnlessOvertaken'
    BY <1>1, <1>4, <1>5, <1>3, Types, ThreadAssumption
       DEF PlayInv, BatchHasHolder, NewestSurvivesUnlessOvertaken, Survives, Held, Moves
  <1> QED BY <1>6, <1>7, <1>8, <1>9, <1>10, <1>11, <1>12 DEF PlayInv

(* Flush keeps the invariant. *)
LEMMA FlushSafe ==
  ASSUME PlayInv, NEW t \in Thread, Flush(t)
  PROVE  PlayInv'
  <1>1. PlayTypeOK
    BY DEF PlayInv
  <1>2. clock + 1 \in Nat
    BY <1>1, Types
  <1>3. thread[t].pc = "idle"
    BY DEF Flush, Begin
  <1>4. Moves(t, "flush", Idle.key, 0, FALSE)
    <2> DEFINE c == [Idle EXCEPT !.pc = "flush"]
    <2>1. thread' = [thread EXCEPT ![t] = c]
      BY DEF Flush, Begin
    <2>2. /\ c \in CallState /\ c.pc = "flush" /\ c.key = Idle.key
          /\ c.position = 0 /\ c.failed = FALSE
      BY <1>1, <1>2, <1>3, IdleOK, Types DEF CallState
    <2> HIDE DEF c
    <2>3. Moves(t, c.pc, c.key, c.position, c.failed)
      BY <1>1, <2>1, <2>2, MovesTo
    <2> QED BY <2>2, <2>3
  <1>5. /\ items' = items /\ flushMu' = flushMu /\ clock' = clock
        /\ overtaken' = overtaken
        /\ pending' = pending
        /\ batch' = batch
        /\ landed' = landed
        /\ newest' = newest
        /\ rows' = rows
    BY <1>1, Types DEF Flush, Begin, PlayTypeOK, StateTypeOK, bufferVars, NoTick, Empty, Tick
  <1>6. PlayTypeOK'
    BY <1>1, <1>4, <1>5, Types
       DEF Flush, Begin, PlayTypeOK, StateTypeOK, Moves, bufferVars, Empty, NoTick, Tick, Later
  <1>7. BatchHasHolder'
    BY <1>1, <1>4, <1>5, <1>3, Types, ThreadAssumption DEF PlayInv, BatchHasHolder, Held, Moves
  <1>8. PositionsPast'
    BY <1>1, <1>4, <1>5, <1>3, Types, ThreadAssumption
       DEF PlayInv, BatchHasHolder, PositionsPast, Held, Later, Moves
  <1>9. WaitingIsNewer'
    BY <1>1, <1>4, <1>5, <1>3, Types, ThreadAssumption
       DEF PlayInv, BatchHasHolder, WaitingIsNewer, PositionsPast, Held, Later, Moves
  <1>10. CheckpointAccounted'
    BY <1>1, <1>4, <1>5, <1>3, Types, ThreadAssumption
       DEF PlayInv, BatchHasHolder, CheckpointAccounted, WaitingIsNewer, PositionsPast, Held,
           Later, Moves
  <1>11. CheckpointLands'
    BY <1>1, <1>4, <1>5, <1>3, Types, ThreadAssumption
       DEF PlayInv, BatchHasHolder, CheckpointLands, CheckpointAccounted, Held, Later, Moves
  <1>12. NewestSurvivesUnlessOvertaken'
    BY <1>1, <1>4, <1>5, <1>3, Types, ThreadAssumption
       DEF PlayInv, BatchHasHolder, NewestSurvivesUnlessOvertaken, Survives, Held, Moves
  <1> QED BY <1>6, <1>7, <1>8, <1>9, <1>10, <1>11, <1>12 DEF PlayInv

(* Checkpoint keeps the invariant. *)
LEMMA CheckpointSafe ==
  ASSUME PlayInv, NEW t \in Thread, NEW k \in Key, NEW asOf \in Nat, Checkpoint(t, k, asOf)
  PROVE  PlayInv'
  <1>1. PlayTypeOK
    BY DEF PlayInv
  <1>2. clock + 1 \in Nat
    BY <1>1, Types
  <1>3. thread[t].pc = "idle"
    BY DEF Checkpoint, Begin
  <1>4. Moves(t, "asked", k, 0, FALSE)
    <2> DEFINE c == [Idle EXCEPT !.pc = "asked", !.key = k, !.time = clock + 1, !.asOf = asOf]
    <2>1. thread' = [thread EXCEPT ![t] = c]
      BY DEF Checkpoint, Begin
    <2>2. /\ c \in CallState /\ c.pc = "asked" /\ c.key = k
          /\ c.position = 0 /\ c.failed = FALSE
      BY <1>1, <1>2, <1>3, IdleOK, Types DEF CallState
    <2> HIDE DEF c
    <2>3. Moves(t, c.pc, c.key, c.position, c.failed)
      BY <1>1, <2>1, <2>2, MovesTo
    <2> QED BY <2>2, <2>3
  <1>5. /\ items' = items /\ flushMu' = flushMu /\ clock' = clock + 1
        /\ overtaken' = overtaken
        /\ pending' = pending
        /\ batch' = batch
        /\ landed' = landed
        /\ newest' = newest
        /\ rows' = rows
    BY <1>1, Types DEF Checkpoint, Begin, PlayTypeOK, StateTypeOK, bufferVars, NoTick, Empty, Tick
  <1>6. PlayTypeOK'
    BY <1>1, <1>4, <1>5, Types
       DEF Checkpoint, Begin, PlayTypeOK, StateTypeOK, Moves, bufferVars, Empty, NoTick, Tick,
           Later
  <1>7. BatchHasHolder'
    BY <1>1, <1>4, <1>5, <1>3, Types, ThreadAssumption DEF PlayInv, BatchHasHolder, Held, Moves
  <1>8. PositionsPast'
    BY <1>1, <1>4, <1>5, <1>3, Types, ThreadAssumption
       DEF PlayInv, BatchHasHolder, PositionsPast, Held, Later, Moves
  <1>9. WaitingIsNewer'
    BY <1>1, <1>4, <1>5, <1>3, Types, ThreadAssumption
       DEF PlayInv, BatchHasHolder, WaitingIsNewer, PositionsPast, Held, Later, Moves
  <1>10. CheckpointAccounted'
    BY <1>1, <1>4, <1>5, <1>3, Types, ThreadAssumption
       DEF PlayInv, BatchHasHolder, CheckpointAccounted, WaitingIsNewer, PositionsPast, Held,
           Later, Moves
  <1>11. CheckpointLands'
    BY <1>1, <1>4, <1>5, <1>3, Types, ThreadAssumption
       DEF PlayInv, BatchHasHolder, CheckpointLands, CheckpointAccounted, Held, Later, Moves
  <1>12. NewestSurvivesUnlessOvertaken'
    BY <1>1, <1>4, <1>5, <1>3, Types, ThreadAssumption
       DEF PlayInv, BatchHasHolder, NewestSurvivesUnlessOvertaken, Survives, Held, Moves
  <1> QED BY <1>6, <1>7, <1>8, <1>9, <1>10, <1>11, <1>12 DEF PlayInv

(* A checkpoint that finds a newer tick buffered keeps the invariant. *)
LEMMA CheckpointFindsNewerSafe ==
  ASSUME PlayInv, NEW t \in Thread, CheckpointBuffers(t),
         OlderThanBuffered(thread[t].key, RecencyFor(thread[t].asOf, thread[t].time))
  PROVE  PlayInv'
  <1>1. PlayTypeOK
    BY DEF PlayInv
  <1>2. clock + 1 \in Nat
    BY <1>1, Types
  <1>3. thread[t].pc = "asked"
    BY DEF CheckpointBuffers
  <1>4. Moves(t, "older", thread[t].key, thread[t].time, thread[t].failed)
    <2> DEFINE c == [thread[t] EXCEPT !.pc = "older", !.position = thread[t].time]
    <2>1. thread' = [thread EXCEPT ![t] = c]
      BY DEF CheckpointBuffers
    <2>2. /\ c \in CallState /\ c.pc = "older" /\ c.key = thread[t].key
          /\ c.position = thread[t].time /\ c.failed = thread[t].failed
      BY <1>1, <1>2, <1>3, IdleOK, Types DEF CallState
    <2> HIDE DEF c
    <2>3. Moves(t, c.pc, c.key, c.position, c.failed)
      BY <1>1, <2>1, <2>2, MovesTo
    <2> QED BY <2>2, <2>3
  <1>5. /\ items' = items /\ flushMu' = flushMu /\ clock' = clock
        /\ overtaken' = overtaken
        /\ pending' = pending
        /\ batch' = batch
        /\ landed' = landed
        /\ newest' = newest
        /\ rows' = rows
    BY <1>1, Types DEF CheckpointBuffers, PlayTypeOK, StateTypeOK, bufferVars, NoTick, Empty, Tick
  <1>6. PlayTypeOK'
    BY <1>1, <1>4, <1>5, Types
       DEF CheckpointBuffers, PlayTypeOK, StateTypeOK, Moves, bufferVars, Empty, NoTick, Tick,
           Later
  <1>7. BatchHasHolder'
    BY <1>1, <1>4, <1>5, <1>3, Types, ThreadAssumption DEF PlayInv, BatchHasHolder, Held, Moves
  <1>8. PositionsPast'
    BY <1>1, <1>4, <1>5, <1>3, Types, ThreadAssumption
       DEF PlayInv, BatchHasHolder, PositionsPast, Held, Later, Moves
  <1>9. WaitingIsNewer'
    BY <1>1, <1>4, <1>5, <1>3, Types, ThreadAssumption
       DEF PlayInv, BatchHasHolder, WaitingIsNewer, PositionsPast, Held, Later, Moves
  <1>10. CheckpointAccounted'
    BY <1>1, <1>4, <1>5, <1>3, Types, ThreadAssumption
       DEF PlayInv, BatchHasHolder, CheckpointAccounted, WaitingIsNewer, PositionsPast, Held,
           Later, Moves
  <1>11. CheckpointLands'
    BY <1>1, <1>4, <1>5, <1>3, Types, ThreadAssumption
       DEF PlayInv, BatchHasHolder, CheckpointLands, CheckpointAccounted, Held, Later, Moves
  <1>12. NewestSurvivesUnlessOvertaken'
    BY <1>1, <1>4, <1>5, <1>3, Types, ThreadAssumption
       DEF PlayInv, BatchHasHolder, NewestSurvivesUnlessOvertaken, Survives, Held, Moves
  <1> QED BY <1>6, <1>7, <1>8, <1>9, <1>10, <1>11, <1>12 DEF PlayInv

(* A checkpoint that enters the buffer keeps the invariant. *)
LEMMA CheckpointEntersSafe ==
  ASSUME PlayInv, NEW t \in Thread, CheckpointBuffers(t),
         ~OlderThanBuffered(thread[t].key, RecencyFor(thread[t].asOf, thread[t].time))
  PROVE  PlayInv'
  <1>1. PlayTypeOK
    BY DEF PlayInv
  <1>2. clock + 1 \in Nat
    BY <1>1, Types
  <1>3. thread[t].pc = "asked"
    BY DEF CheckpointBuffers, Buffer
  <1>4. Moves(t, "flush", thread[t].key, clock + 1, thread[t].failed)
    <2> DEFINE c == [thread[t] EXCEPT !.pc = "flush", !.position = clock + 1]
    <2>1. thread' = [thread EXCEPT ![t] = c]
      BY DEF CheckpointBuffers, Buffer
    <2>2. /\ c \in CallState /\ c.pc = "flush" /\ c.key = thread[t].key
          /\ c.position = clock + 1 /\ c.failed = thread[t].failed
      BY <1>1, <1>2, <1>3, IdleOK, Types DEF CallState
    <2> HIDE DEF c
    <2>3. Moves(t, c.pc, c.key, c.position, c.failed)
      BY <1>1, <2>1, <2>2, MovesTo
    <2> QED BY <2>2, <2>3
  <1>5. /\ items' = items /\ flushMu' = flushMu /\ clock' = clock + 1
        /\ overtaken' = overtaken \ {thread[t].key}
        /\ pending'[thread[t].key].position = clock + 1
        /\ \A j \in Key \ {thread[t].key} : pending'[j] = pending[j]
        /\ batch' = batch
        /\ landed' = landed
        /\ newest'[thread[t].key] = clock + 1 /\ \A j \in Key \ {thread[t].key} : newest'[j] = newest[j]
        /\ rows' = rows
    BY <1>1, Types
       DEF CheckpointBuffers, Buffer, PlayTypeOK, StateTypeOK, bufferVars, NoTick, Empty, Tick
  <1>6. PlayTypeOK'
    <2>1. RecencyFor(thread[t].asOf, thread[t].time) \in Nat
      BY <1>1, Types, Stamps
    <2>2. pending' \in [Key -> Tick]
      BY <1>1, <1>2, <2>1, Types DEF CheckpointBuffers, Buffer, PlayTypeOK, Tick
    <2> QED BY <1>1, <1>2, <1>4, <1>5, <2>2, Types
           DEF CheckpointBuffers, Buffer, PlayTypeOK, StateTypeOK, Moves
  <1>7. BatchHasHolder'
    BY <1>1, <1>4, <1>5, <1>3, Types, ThreadAssumption DEF PlayInv, BatchHasHolder, Held, Moves
  <1>8. PositionsPast'
    BY <1>1, <1>4, <1>5, <1>3, Types, ThreadAssumption
       DEF PlayInv, BatchHasHolder, PositionsPast, Held, Later, Moves
  <1>9. WaitingIsNewer'
    BY <1>1, <1>4, <1>5, <1>3, Types, ThreadAssumption
       DEF PlayInv, BatchHasHolder, WaitingIsNewer, PositionsPast, Held, Later, Moves
  <1>10. CheckpointAccounted'
    BY <1>1, <1>4, <1>5, <1>3, Types, ThreadAssumption
       DEF PlayInv, BatchHasHolder, CheckpointAccounted, WaitingIsNewer, PositionsPast, Held,
           Later, Moves
  <1>11. CheckpointLands'
    BY <1>1, <1>4, <1>5, <1>3, Types, ThreadAssumption
       DEF PlayInv, BatchHasHolder, CheckpointLands, CheckpointAccounted, Held, Later, Moves
  <1>12. NewestSurvivesUnlessOvertaken'
    BY <1>1, <1>4, <1>5, <1>3, Types, ThreadAssumption
       DEF PlayInv, BatchHasHolder, NewestSurvivesUnlessOvertaken, Survives, Held, Moves
  <1> QED BY <1>6, <1>7, <1>8, <1>9, <1>10, <1>11, <1>12 DEF PlayInv

(* OlderWrites keeps the invariant. *)
LEMMA OlderWritesSafe ==
  ASSUME PlayInv, NEW t \in Thread, OlderWrites(t)
  PROVE  PlayInv'
  <1>1. PlayTypeOK
    BY DEF PlayInv
  <1>2. clock + 1 \in Nat
    BY <1>1, Types
  <1>3. thread[t].pc = "older" /\ flushMu = NoThread
    BY DEF OlderWrites, SetProgressAt
  <1>4. Moves(t, "flush", Idle.key, 0, FALSE)
    <2> DEFINE c == [Idle EXCEPT !.pc = "flush"]
    <2>1. thread' = [thread EXCEPT ![t] = c]
      BY DEF OlderWrites, SetProgressAt
    <2>2. /\ c \in CallState /\ c.pc = "flush" /\ c.key = Idle.key
          /\ c.position = 0 /\ c.failed = FALSE
      BY <1>1, <1>2, <1>3, IdleOK, Types DEF CallState
    <2> HIDE DEF c
    <2>3. Moves(t, c.pc, c.key, c.position, c.failed)
      BY <1>1, <2>1, <2>2, MovesTo
    <2> QED BY <2>2, <2>3
  <1>5. /\ items' = items /\ flushMu' = flushMu /\ clock' = clock + 1
        /\ overtaken' = IF Held(pending, thread[t].key) THEN overtaken ELSE overtaken \cup {thread[t].key}
        /\ pending' = pending
        /\ batch' = batch
        /\ landed' = landed
        /\ newest' = newest
        /\ rows'[thread[t].key].position = thread[t].position
        /\ \A j \in Key \ {thread[t].key} : rows'[j] = rows[j]
    <2> DEFINE row == Progressed(rows[thread[t].key], thread[t].position, thread[t].asOf, clock + 1)
    <2>1. rows[thread[t].key] \in Row /\ thread[t].position \in Nat /\ thread[t].asOf \in Nat
      BY <1>1, Types DEF Tick
    <2>2. row.position = thread[t].position
      BY <2>1, ProgressedShows
    <2>3. rows' = [rows EXCEPT ![thread[t].key] = row]
      BY DEF OlderWrites, SetProgressAt
    <2> HIDE DEF row
    <2> QED BY <1>1, <2>2, <2>3, Types
           DEF OlderWrites, SetProgressAt, PlayTypeOK, StateTypeOK, NoTick, Tick, bufferVars
  <1>6. PlayTypeOK'
    BY <1>1, <1>4, <1>5, Types, ProgressedRow, <1>2, ZenonT(60)
       DEF OlderWrites, SetProgressAt, PlayTypeOK, StateTypeOK, Moves, bufferVars, Empty,
           NoTick, Tick, Later
  <1>7. BatchHasHolder'
    BY <1>1, <1>4, <1>5, <1>3, Types, ThreadAssumption DEF PlayInv, BatchHasHolder, Held, Moves
  <1>8. PositionsPast'
    BY <1>1, <1>4, <1>5, <1>3, Types, ThreadAssumption
       DEF PlayInv, BatchHasHolder, PositionsPast, Held, Later, Moves
  <1>9. WaitingIsNewer'
    BY <1>1, <1>4, <1>5, <1>3, Types, ThreadAssumption
       DEF PlayInv, BatchHasHolder, WaitingIsNewer, PositionsPast, Held, Later, Moves
  <1>10. CheckpointAccounted'
    BY <1>1, <1>4, <1>5, <1>3, Types, ThreadAssumption
       DEF PlayInv, BatchHasHolder, CheckpointAccounted, WaitingIsNewer, PositionsPast, Held,
           Later, Moves
  <1>11. CheckpointLands'
    BY <1>1, <1>4, <1>5, <1>3, Types, ThreadAssumption
       DEF PlayInv, BatchHasHolder, CheckpointLands, CheckpointAccounted, Held, Later, Moves
  <1>12. NewestSurvivesUnlessOvertaken'
    BY <1>1, <1>4, <1>5, <1>3, Types, ThreadAssumption
       DEF PlayInv, BatchHasHolder, NewestSurvivesUnlessOvertaken, Survives, Held, Moves
  <1> QED BY <1>6, <1>7, <1>8, <1>9, <1>10, <1>11, <1>12 DEF PlayInv

(* OlderFails keeps the invariant. *)
LEMMA OlderFailsSafe ==
  ASSUME PlayInv, NEW t \in Thread, OlderFails(t)
  PROVE  PlayInv'
  <1>1. PlayTypeOK
    BY DEF PlayInv
  <1>2. clock + 1 \in Nat
    BY <1>1, Types
  <1>3. thread[t].pc = "older"
    BY DEF OlderFails
  <1>4. Moves(t, "idle", Idle.key, 0, TRUE)
    <2> DEFINE c == [Idle EXCEPT !.failed = TRUE]
    <2>1. thread' = [thread EXCEPT ![t] = c]
      BY DEF OlderFails
    <2>2. /\ c \in CallState /\ c.pc = "idle" /\ c.key = Idle.key
          /\ c.position = 0 /\ c.failed = TRUE
      BY <1>1, <1>2, <1>3, IdleOK, Types DEF CallState
    <2> HIDE DEF c
    <2>3. Moves(t, c.pc, c.key, c.position, c.failed)
      BY <1>1, <2>1, <2>2, MovesTo
    <2> QED BY <2>2, <2>3
  <1>5. /\ items' = items /\ flushMu' = flushMu /\ clock' = clock
        /\ overtaken' = overtaken
        /\ pending' = pending
        /\ batch' = batch
        /\ landed' = landed
        /\ newest' = newest
        /\ rows' = rows
    BY <1>1, Types DEF OlderFails, PlayTypeOK, StateTypeOK, bufferVars, NoTick, Empty, Tick
  <1>6. PlayTypeOK'
    BY <1>1, <1>4, <1>5, Types
       DEF OlderFails, PlayTypeOK, StateTypeOK, Moves, bufferVars, Empty, NoTick, Tick, Later
  <1>7. BatchHasHolder'
    BY <1>1, <1>4, <1>5, <1>3, Types, ThreadAssumption DEF PlayInv, BatchHasHolder, Held, Moves
  <1>8. PositionsPast'
    BY <1>1, <1>4, <1>5, <1>3, Types, ThreadAssumption
       DEF PlayInv, BatchHasHolder, PositionsPast, Held, Later, Moves
  <1>9. WaitingIsNewer'
    BY <1>1, <1>4, <1>5, <1>3, Types, ThreadAssumption
       DEF PlayInv, BatchHasHolder, WaitingIsNewer, PositionsPast, Held, Later, Moves
  <1>10. CheckpointAccounted'
    BY <1>1, <1>4, <1>5, <1>3, Types, ThreadAssumption
       DEF PlayInv, BatchHasHolder, CheckpointAccounted, WaitingIsNewer, PositionsPast, Held,
           Later, Moves
  <1>11. CheckpointLands'
    BY <1>1, <1>4, <1>5, <1>3, Types, ThreadAssumption
       DEF PlayInv, BatchHasHolder, CheckpointLands, CheckpointAccounted, Held, Later, Moves
  <1>12. NewestSurvivesUnlessOvertaken'
    BY <1>1, <1>4, <1>5, <1>3, Types, ThreadAssumption
       DEF PlayInv, BatchHasHolder, NewestSurvivesUnlessOvertaken, Survives, Held, Moves
  <1> QED BY <1>6, <1>7, <1>8, <1>9, <1>10, <1>11, <1>12 DEF PlayInv

(* FlushStarts keeps the invariant. *)
LEMMA FlushStartsSafe ==
  ASSUME PlayInv, NEW t \in Thread, FlushStarts(t)
  PROVE  PlayInv'
  <1>1. PlayTypeOK
    BY DEF PlayInv
  <1>2. clock + 1 \in Nat
    BY <1>1, Types
  <1>3. thread[t].pc = "flush" /\ flushMu = NoThread
    BY DEF FlushStarts
  <1>4. Moves(t, "writing", thread[t].key, thread[t].position, thread[t].failed)
    <2> DEFINE c == [thread[t] EXCEPT !.pc = "writing"]
    <2>1. thread' = [thread EXCEPT ![t] = c]
      BY DEF FlushStarts
    <2>2. /\ c \in CallState /\ c.pc = "writing" /\ c.key = thread[t].key
          /\ c.position = thread[t].position /\ c.failed = thread[t].failed
      BY <1>1, <1>2, <1>3, IdleOK, Types DEF CallState
    <2> HIDE DEF c
    <2>3. Moves(t, c.pc, c.key, c.position, c.failed)
      BY <1>1, <2>1, <2>2, MovesTo
    <2> QED BY <2>2, <2>3
  <1>5. /\ items' = items /\ flushMu' = t /\ clock' = clock
        /\ overtaken' = overtaken
        /\ \A j \in Key : pending'[j].position = 0
        /\ batch' = pending
        /\ landed' = landed
        /\ newest' = newest
        /\ rows' = rows
    BY <1>1, Types DEF FlushStarts, PlayTypeOK, StateTypeOK, bufferVars, NoTick, Empty, Tick
  <1>6. PlayTypeOK'
    BY <1>1, <1>4, <1>5, Types
       DEF FlushStarts, PlayTypeOK, StateTypeOK, Moves, bufferVars, Empty, NoTick, Tick, Later
  <1>7. BatchHasHolder'
    BY <1>1, <1>4, <1>5, <1>3, Types, ThreadAssumption DEF PlayInv, BatchHasHolder, Held, Moves
  <1>8. PositionsPast'
    BY <1>1, <1>4, <1>5, <1>3, Types, ThreadAssumption
       DEF PlayInv, BatchHasHolder, PositionsPast, Held, Later, Moves
  <1>9. WaitingIsNewer'
    BY <1>1, <1>4, <1>5, <1>3, Types, ThreadAssumption
       DEF PlayInv, BatchHasHolder, WaitingIsNewer, PositionsPast, Held, Later, Moves
  <1>10. CheckpointAccounted'
    BY <1>1, <1>4, <1>5, <1>3, Types, ThreadAssumption
       DEF PlayInv, BatchHasHolder, CheckpointAccounted, WaitingIsNewer, PositionsPast, Held,
           Later, Moves
  <1>11. CheckpointLands'
    BY <1>1, <1>4, <1>5, <1>3, Types, ThreadAssumption
       DEF PlayInv, BatchHasHolder, CheckpointLands, CheckpointAccounted, Held, Later, Moves
  <1>12. NewestSurvivesUnlessOvertaken'
    BY <1>1, <1>4, <1>5, <1>3, Types, ThreadAssumption
       DEF PlayInv, BatchHasHolder, NewestSurvivesUnlessOvertaken, Survives, Held, Moves
  <1> QED BY <1>6, <1>7, <1>8, <1>9, <1>10, <1>11, <1>12 DEF PlayInv

(* FlushFindsNothing keeps the invariant. *)
LEMMA FlushFindsNothingSafe ==
  ASSUME PlayInv, NEW t \in Thread, FlushFindsNothing(t)
  PROVE  PlayInv'
  <1>1. PlayTypeOK
    BY DEF PlayInv
  <1>2. clock + 1 \in Nat
    BY <1>1, Types
  <1>3. thread[t].pc = "flush" /\ flushMu = NoThread /\ \A j \in Key : pending[j].position = 0
    BY DEF FlushFindsNothing, Return, Held, Empty, NoTick
  <1>4. Moves(t, "idle", thread[t].key, thread[t].position, thread[t].failed)
    <2> DEFINE c == [thread[t] EXCEPT !.pc = "idle"]
    <2>1. thread' = [thread EXCEPT ![t] = c]
      BY DEF FlushFindsNothing, Return
    <2>2. /\ c \in CallState /\ c.pc = "idle" /\ c.key = thread[t].key
          /\ c.position = thread[t].position /\ c.failed = thread[t].failed
      BY <1>1, <1>2, <1>3, IdleOK, Types DEF CallState
    <2> HIDE DEF c
    <2>3. Moves(t, c.pc, c.key, c.position, c.failed)
      BY <1>1, <2>1, <2>2, MovesTo
    <2> QED BY <2>2, <2>3
  <1>5. /\ items' = items /\ flushMu' = flushMu /\ clock' = clock
        /\ overtaken' = overtaken
        /\ pending' = pending
        /\ batch' = batch
        /\ landed' = landed
        /\ newest' = newest
        /\ rows' = rows
    BY <1>1, Types
       DEF FlushFindsNothing, Return, PlayTypeOK, StateTypeOK, bufferVars, NoTick, Empty, Tick
  <1>6. PlayTypeOK'
    BY <1>1, <1>4, <1>5, Types
       DEF FlushFindsNothing, Return, PlayTypeOK, StateTypeOK, Moves, bufferVars, Empty, NoTick,
           Tick, Later
  <1>7. BatchHasHolder'
    BY <1>1, <1>4, <1>5, <1>3, Types, ThreadAssumption DEF PlayInv, BatchHasHolder, Held, Moves
  <1>8. PositionsPast'
    BY <1>1, <1>4, <1>5, <1>3, Types, ThreadAssumption
       DEF PlayInv, BatchHasHolder, PositionsPast, Held, Later, Moves
  <1>9. WaitingIsNewer'
    BY <1>1, <1>4, <1>5, <1>3, Types, ThreadAssumption
       DEF PlayInv, BatchHasHolder, WaitingIsNewer, PositionsPast, Held, Later, Moves
  <1>10. CheckpointAccounted'
    BY <1>1, <1>4, <1>5, <1>3, Types, ThreadAssumption
       DEF PlayInv, BatchHasHolder, CheckpointAccounted, WaitingIsNewer, PositionsPast, Held,
           Later, Moves
  <1>11. CheckpointLands'
    BY <1>1, <1>4, <1>5, <1>3, Types, ThreadAssumption
       DEF PlayInv, BatchHasHolder, CheckpointLands, CheckpointAccounted, Held, Later, Moves
  <1>12. NewestSurvivesUnlessOvertaken'
    BY <1>1, <1>4, <1>5, <1>3, Types, ThreadAssumption
       DEF PlayInv, BatchHasHolder, NewestSurvivesUnlessOvertaken, Survives, Held, Moves
  <1> QED BY <1>6, <1>7, <1>8, <1>9, <1>10, <1>11, <1>12 DEF PlayInv

(* FlushWrites keeps the invariant. *)
LEMMA FlushWritesSafe ==
  ASSUME PlayInv, NEW t \in Thread, NEW k \in Key, FlushWrites(t, k)
  PROVE  PlayInv'
  <1>1. PlayTypeOK
    BY DEF PlayInv
  <1>2. clock + 1 \in Nat
    BY <1>1, Types
  <1>3. thread[t].pc = "writing" /\ k \in items /\ Held(batch, k)
    BY DEF FlushWrites, SetProgressAt, Writing, Held, Empty, NoTick
  <1>4. Moves(t, "writing", thread[t].key, thread[t].position, thread[t].failed)
    BY <1>1, Types DEF FlushWrites, SetProgressAt, Writing, Moves, PlayTypeOK
  <1>5. /\ items' = items /\ flushMu' = flushMu /\ clock' = clock + 1
        /\ overtaken' = overtaken
        /\ pending' = pending
        /\ batch'[k].position = 0 /\ \A j \in Key \ {k} : batch'[j] = batch[j]
        /\ landed'[k] = Later(landed[k], batch[k].position) /\ \A j \in Key \ {k} : landed'[j] = landed[j]
        /\ newest' = newest
        /\ rows'[k].position = batch[k].position /\ \A j \in Key \ {k} : rows'[j] = rows[j]
    <2> DEFINE row == Progressed(rows[k], batch[k].position, batch[k].asOf, clock + 1)
    <2>1. rows[k] \in Row /\ batch[k].position \in Nat /\ batch[k].asOf \in Nat
      BY <1>1, Types DEF Tick
    <2>2. row.position = batch[k].position
      BY <2>1, ProgressedShows
    <2>3. rows' = [rows EXCEPT ![k] = row]
      BY DEF FlushWrites, SetProgressAt, Writing
    <2> HIDE DEF row
    <2> QED BY <1>1, <2>2, <2>3, Types
           DEF FlushWrites, SetProgressAt, Writing, PlayTypeOK, StateTypeOK, NoTick, Tick, bufferVars
  <1>6. PlayTypeOK'
    BY <1>1, <1>4, <1>5, Types, ProgressedRow, <1>2
       DEF FlushWrites, SetProgressAt, Writing, PlayTypeOK, StateTypeOK, Moves, bufferVars,
           Empty, NoTick, Tick, Later
  <1>7. BatchHasHolder'
    BY <1>1, <1>4, <1>5, <1>3, Types, ThreadAssumption DEF PlayInv, BatchHasHolder, Held, Moves
  <1>8. PositionsPast'
    BY <1>1, <1>4, <1>5, <1>3, Types, ThreadAssumption
       DEF PlayInv, BatchHasHolder, PositionsPast, Held, Later, Moves
  <1>9. WaitingIsNewer'
    BY <1>1, <1>4, <1>5, <1>3, Types, ThreadAssumption
       DEF PlayInv, BatchHasHolder, WaitingIsNewer, PositionsPast, Held, Later, Moves
  <1>10. CheckpointAccounted'
    BY <1>1, <1>4, <1>5, <1>3, Types, ThreadAssumption
       DEF PlayInv, BatchHasHolder, CheckpointAccounted, WaitingIsNewer, PositionsPast, Held,
           Later, Moves
  <1>11. CheckpointLands'
    BY <1>1, <1>4, <1>5, <1>3, Types, ThreadAssumption
       DEF PlayInv, BatchHasHolder, CheckpointLands, CheckpointAccounted, Held, Later, Moves
  <1>12. NewestSurvivesUnlessOvertaken'
    BY <1>1, <1>4, <1>5, <1>3, Types, ThreadAssumption
       DEF PlayInv, BatchHasHolder, NewestSurvivesUnlessOvertaken, Survives, Held, Moves
  <1> QED BY <1>6, <1>7, <1>8, <1>9, <1>10, <1>11, <1>12 DEF PlayInv

(* FlushDrops keeps the invariant. *)
LEMMA FlushDropsSafe ==
  ASSUME PlayInv, NEW t \in Thread, NEW k \in Key, FlushDrops(t, k)
  PROVE  PlayInv'
  <1>1. PlayTypeOK
    BY DEF PlayInv
  <1>2. clock + 1 \in Nat
    BY <1>1, Types
  <1>3. thread[t].pc = "writing" /\ k \notin items
    BY DEF FlushDrops, Writing
  <1>4. Moves(t, "writing", thread[t].key, thread[t].position, TRUE)
    <2> DEFINE c == [thread[t] EXCEPT !.failed = TRUE]
    <2>1. thread' = [thread EXCEPT ![t] = c]
      BY DEF FlushDrops, Writing
    <2>2. /\ c \in CallState /\ c.pc = "writing" /\ c.key = thread[t].key
          /\ c.position = thread[t].position /\ c.failed = TRUE
      BY <1>1, <1>2, <1>3, IdleOK, Types DEF CallState
    <2> HIDE DEF c
    <2>3. Moves(t, c.pc, c.key, c.position, c.failed)
      BY <1>1, <2>1, <2>2, MovesTo
    <2> QED BY <2>2, <2>3
  <1>5. /\ items' = items /\ flushMu' = flushMu /\ clock' = clock
        /\ overtaken' = overtaken
        /\ pending' = pending
        /\ batch'[k].position = 0 /\ \A j \in Key \ {k} : batch'[j] = batch[j]
        /\ landed' = landed
        /\ newest' = newest
        /\ rows' = rows
    BY <1>1, Types DEF FlushDrops, Writing, PlayTypeOK, StateTypeOK, bufferVars, NoTick, Empty, Tick
  <1>6. PlayTypeOK'
    BY <1>1, <1>4, <1>5, Types
       DEF FlushDrops, Writing, PlayTypeOK, StateTypeOK, Moves, bufferVars, Empty, NoTick, Tick,
           Later
  <1>7. BatchHasHolder'
    BY <1>1, <1>4, <1>5, <1>3, Types, ThreadAssumption DEF PlayInv, BatchHasHolder, Held, Moves
  <1>8. PositionsPast'
    BY <1>1, <1>4, <1>5, <1>3, Types, ThreadAssumption
       DEF PlayInv, BatchHasHolder, PositionsPast, Held, Later, Moves
  <1>9. WaitingIsNewer'
    BY <1>1, <1>4, <1>5, <1>3, Types, ThreadAssumption
       DEF PlayInv, BatchHasHolder, WaitingIsNewer, PositionsPast, Held, Later, Moves
  <1>10. CheckpointAccounted'
    BY <1>1, <1>4, <1>5, <1>3, Types, ThreadAssumption
       DEF PlayInv, BatchHasHolder, CheckpointAccounted, WaitingIsNewer, PositionsPast, Held,
           Later, Moves
  <1>11. CheckpointLands'
    BY <1>1, <1>4, <1>5, <1>3, Types, ThreadAssumption
       DEF PlayInv, BatchHasHolder, CheckpointLands, CheckpointAccounted, Held, Later, Moves
  <1>12. NewestSurvivesUnlessOvertaken'
    BY <1>1, <1>4, <1>5, <1>3, Types, ThreadAssumption
       DEF PlayInv, BatchHasHolder, NewestSurvivesUnlessOvertaken, Survives, Held, Moves
  <1> QED BY <1>6, <1>7, <1>8, <1>9, <1>10, <1>11, <1>12 DEF PlayInv

(* FlushFails keeps the invariant. *)
LEMMA FlushFailsSafe ==
  ASSUME PlayInv, NEW t \in Thread, NEW k \in Key, FlushFails(t, k)
  PROVE  PlayInv'
  <1>1. PlayTypeOK
    BY DEF PlayInv
  <1>2. clock + 1 \in Nat
    BY <1>1, Types
  <1>3. thread[t].pc = "writing" /\ Held(batch, k)
    BY DEF FlushFails, Writing, Requeued, Held, Held, Empty, NoTick
  <1>4. Moves(t, "writing", thread[t].key, thread[t].position, TRUE)
    <2> DEFINE c == [thread[t] EXCEPT !.failed = TRUE]
    <2>1. thread' = [thread EXCEPT ![t] = c]
      BY DEF FlushFails, Writing, Requeued, Held
    <2>2. /\ c \in CallState /\ c.pc = "writing" /\ c.key = thread[t].key
          /\ c.position = thread[t].position /\ c.failed = TRUE
      BY <1>1, <1>2, <1>3, IdleOK, Types DEF CallState
    <2> HIDE DEF c
    <2>3. Moves(t, c.pc, c.key, c.position, c.failed)
      BY <1>1, <2>1, <2>2, MovesTo
    <2> QED BY <2>2, <2>3
  <1>5. /\ items' = items /\ flushMu' = flushMu /\ clock' = clock
        /\ overtaken' = overtaken
        /\ \A j \in Key \ {k} : pending'[j] = pending[j]
        /\ Held(pending, k) => pending'[k] = pending[k]
        /\ ~Held(pending, k) => pending'[k] = batch[k]
        /\ batch'[k].position = 0 /\ \A j \in Key \ {k} : batch'[j] = batch[j]
        /\ landed' = landed
        /\ newest' = newest
        /\ rows' = rows
    BY <1>1, Types
       DEF FlushFails, Writing, Requeued, Held, PlayTypeOK, StateTypeOK, bufferVars, NoTick,
           Empty, Tick
  <1>6. PlayTypeOK'
    BY <1>1, <1>4, <1>5, Types
       DEF FlushFails, Writing, Requeued, Held, PlayTypeOK, StateTypeOK, Moves, bufferVars,
           Empty, NoTick, Tick, Later
  <1>7. BatchHasHolder'
    BY <1>1, <1>4, <1>5, <1>3, Types, ThreadAssumption DEF PlayInv, BatchHasHolder, Held, Moves
  <1>8. PositionsPast'
    BY <1>1, <1>4, <1>5, <1>3, Types, ThreadAssumption
       DEF PlayInv, BatchHasHolder, PositionsPast, Held, Later, Moves
  <1>9. WaitingIsNewer'
    BY <1>1, <1>4, <1>5, <1>3, Types, ThreadAssumption
       DEF PlayInv, BatchHasHolder, WaitingIsNewer, PositionsPast, Held, Later, Moves
  <1>10. CheckpointAccounted'
    BY <1>1, <1>4, <1>5, <1>3, Types, ThreadAssumption
       DEF PlayInv, BatchHasHolder, CheckpointAccounted, WaitingIsNewer, PositionsPast, Held,
           Later, Moves
  <1>11. CheckpointLands'
    BY <1>1, <1>4, <1>5, <1>3, Types, ThreadAssumption
       DEF PlayInv, BatchHasHolder, CheckpointLands, CheckpointAccounted, Held, Later, Moves
  <1>12. NewestSurvivesUnlessOvertaken'
    BY <1>1, <1>4, <1>5, <1>3, Types, ThreadAssumption
       DEF PlayInv, BatchHasHolder, NewestSurvivesUnlessOvertaken, Survives, Held, Moves
  <1> QED BY <1>6, <1>7, <1>8, <1>9, <1>10, <1>11, <1>12 DEF PlayInv

(* FlushEnds keeps the invariant. *)
LEMMA FlushEndsSafe ==
  ASSUME PlayInv, NEW t \in Thread, FlushEnds(t)
  PROVE  PlayInv'
  <1>1. PlayTypeOK
    BY DEF PlayInv
  <1>2. clock + 1 \in Nat
    BY <1>1, Types
  <1>3. thread[t].pc = "writing" /\ \A j \in Key : batch[j].position = 0
    BY DEF FlushEnds, Return, Held, Empty, NoTick
  <1>4. Moves(t, "idle", thread[t].key, thread[t].position, thread[t].failed)
    <2> DEFINE c == [thread[t] EXCEPT !.pc = "idle"]
    <2>1. thread' = [thread EXCEPT ![t] = c]
      BY DEF FlushEnds, Return
    <2>2. /\ c \in CallState /\ c.pc = "idle" /\ c.key = thread[t].key
          /\ c.position = thread[t].position /\ c.failed = thread[t].failed
      BY <1>1, <1>2, <1>3, IdleOK, Types DEF CallState
    <2> HIDE DEF c
    <2>3. Moves(t, c.pc, c.key, c.position, c.failed)
      BY <1>1, <2>1, <2>2, MovesTo
    <2> QED BY <2>2, <2>3
  <1>5. /\ items' = items /\ flushMu' = NoThread /\ clock' = clock
        /\ overtaken' = overtaken
        /\ pending' = pending
        /\ batch' = batch
        /\ landed' = landed
        /\ newest' = newest
        /\ rows' = rows
    BY <1>1, Types DEF FlushEnds, Return, PlayTypeOK, StateTypeOK, bufferVars, NoTick, Empty, Tick
  <1>6. PlayTypeOK'
    BY <1>1, <1>4, <1>5, Types
       DEF FlushEnds, Return, PlayTypeOK, StateTypeOK, Moves, bufferVars, Empty, NoTick, Tick,
           Later
  <1>7. BatchHasHolder'
    BY <1>1, <1>4, <1>5, <1>3, Types, ThreadAssumption DEF PlayInv, BatchHasHolder, Held, Moves
  <1>8. PositionsPast'
    BY <1>1, <1>4, <1>5, <1>3, Types, ThreadAssumption
       DEF PlayInv, BatchHasHolder, PositionsPast, Held, Later, Moves
  <1>9. WaitingIsNewer'
    BY <1>1, <1>4, <1>5, <1>3, Types, ThreadAssumption
       DEF PlayInv, BatchHasHolder, WaitingIsNewer, PositionsPast, Held, Later, Moves
  <1>10. CheckpointAccounted'
    BY <1>1, <1>4, <1>5, <1>3, Types, ThreadAssumption
       DEF PlayInv, BatchHasHolder, CheckpointAccounted, WaitingIsNewer, PositionsPast, Held,
           Later, Moves
  <1>11. CheckpointLands'
    BY <1>1, <1>4, <1>5, <1>3, Types, ThreadAssumption
       DEF PlayInv, BatchHasHolder, CheckpointLands, CheckpointAccounted, Held, Later, Moves
  <1>12. NewestSurvivesUnlessOvertaken'
    BY <1>1, <1>4, <1>5, <1>3, Types, ThreadAssumption
       DEF PlayInv, BatchHasHolder, NewestSurvivesUnlessOvertaken, Survives, Held, Moves
  <1> QED BY <1>6, <1>7, <1>8, <1>9, <1>10, <1>11, <1>12 DEF PlayInv

(* StateReads keeps the invariant. *)
LEMMA StateReadsSafe ==
  ASSUME PlayInv, NEW t \in Thread, NEW k \in Key, StateReads(t, k)
  PROVE  PlayInv'
  <1>1. PlayTypeOK
    BY DEF PlayInv
  <1>2. clock + 1 \in Nat
    BY <1>1, Types
  <1>3. thread[t].pc = "idle"
    BY DEF StateReads, Begin
  <1>4. Moves(t, "overlay", k, rows[k].position, FALSE)
    <2> DEFINE c == [Idle EXCEPT !.pc = "overlay", !.key = k, !.position = rows[k].position,
                             !.floor = newest[k]]
    <2>1. thread' = [thread EXCEPT ![t] = c]
      BY DEF StateReads, Begin
    <2>2. /\ c \in CallState /\ c.pc = "overlay" /\ c.key = k
          /\ c.position = rows[k].position /\ c.failed = FALSE
      BY <1>1, <1>2, <1>3, IdleOK, Types DEF CallState
    <2> HIDE DEF c
    <2>3. Moves(t, c.pc, c.key, c.position, c.failed)
      BY <1>1, <2>1, <2>2, MovesTo
    <2> QED BY <2>2, <2>3
  <1>5. /\ items' = items /\ flushMu' = flushMu /\ clock' = clock
        /\ overtaken' = overtaken
        /\ pending' = pending
        /\ batch' = batch
        /\ landed' = landed
        /\ newest' = newest
        /\ rows' = rows
    BY <1>1, Types DEF StateReads, Begin, PlayTypeOK, StateTypeOK, bufferVars, NoTick, Empty, Tick
  <1>6. PlayTypeOK'
    BY <1>1, <1>4, <1>5, Types
       DEF StateReads, Begin, PlayTypeOK, StateTypeOK, Moves, bufferVars, Empty, NoTick, Tick,
           Later
  <1>7. BatchHasHolder'
    BY <1>1, <1>4, <1>5, <1>3, Types, ThreadAssumption DEF PlayInv, BatchHasHolder, Held, Moves
  <1>8. PositionsPast'
    BY <1>1, <1>4, <1>5, <1>3, Types, ThreadAssumption
       DEF PlayInv, BatchHasHolder, PositionsPast, Held, Later, Moves
  <1>9. WaitingIsNewer'
    BY <1>1, <1>4, <1>5, <1>3, Types, ThreadAssumption
       DEF PlayInv, BatchHasHolder, WaitingIsNewer, PositionsPast, Held, Later, Moves
  <1>10. CheckpointAccounted'
    BY <1>1, <1>4, <1>5, <1>3, Types, ThreadAssumption
       DEF PlayInv, BatchHasHolder, CheckpointAccounted, WaitingIsNewer, PositionsPast, Held,
           Later, Moves
  <1>11. CheckpointLands'
    BY <1>1, <1>4, <1>5, <1>3, Types, ThreadAssumption
       DEF PlayInv, BatchHasHolder, CheckpointLands, CheckpointAccounted, Held, Later, Moves
  <1>12. NewestSurvivesUnlessOvertaken'
    BY <1>1, <1>4, <1>5, <1>3, Types, ThreadAssumption
       DEF PlayInv, BatchHasHolder, NewestSurvivesUnlessOvertaken, Survives, Held, Moves
  <1> QED BY <1>6, <1>7, <1>8, <1>9, <1>10, <1>11, <1>12 DEF PlayInv

(* StateReturns keeps the invariant. *)
LEMMA StateReturnsSafe ==
  ASSUME PlayInv, NEW t \in Thread, StateReturns(t)
  PROVE  PlayInv'
  <1>1. PlayTypeOK
    BY DEF PlayInv
  <1>2. clock + 1 \in Nat
    BY <1>1, Types
  <1>3. thread[t].pc = "overlay"
    BY DEF StateReturns, Overlaid
  <1>4. Moves(t, "shown", thread[t].key, Overlaid(t), thread[t].failed)
    <2> DEFINE c == [thread[t] EXCEPT !.pc = "shown", !.position = Overlaid(t)]
    <2>a. Overlaid(t) \in Nat
      BY <1>1, Types DEF Overlaid
    <2>1. thread' = [thread EXCEPT ![t] = c]
      BY DEF StateReturns, Overlaid
    <2>2. /\ c \in CallState /\ c.pc = "shown" /\ c.key = thread[t].key
          /\ c.position = Overlaid(t) /\ c.failed = thread[t].failed
      BY <1>1, <1>2, <1>3, <2>a, IdleOK, Types DEF CallState
    <2> HIDE DEF c
    <2>3. Moves(t, c.pc, c.key, c.position, c.failed)
      BY <1>1, <2>1, <2>2, MovesTo
    <2> QED BY <2>2, <2>3
  <1>5. /\ items' = items /\ flushMu' = flushMu /\ clock' = clock
        /\ overtaken' = overtaken
        /\ pending' = pending
        /\ batch' = batch
        /\ landed' = landed
        /\ newest' = newest
        /\ rows' = rows
    BY <1>1, Types
       DEF StateReturns, Overlaid, PlayTypeOK, StateTypeOK, bufferVars, NoTick, Empty, Tick
  <1>6. PlayTypeOK'
    BY <1>1, <1>4, <1>5, Types
       DEF StateReturns, Overlaid, PlayTypeOK, StateTypeOK, Moves, bufferVars, Empty, NoTick,
           Tick, Later
  <1>7. BatchHasHolder'
    BY <1>1, <1>4, <1>5, <1>3, Types, ThreadAssumption DEF PlayInv, BatchHasHolder, Held, Moves
  <1>8. PositionsPast'
    BY <1>1, <1>4, <1>5, <1>3, Types, ThreadAssumption
       DEF PlayInv, BatchHasHolder, PositionsPast, Held, Later, Moves
  <1>9. WaitingIsNewer'
    BY <1>1, <1>4, <1>5, <1>3, Types, ThreadAssumption
       DEF PlayInv, BatchHasHolder, WaitingIsNewer, PositionsPast, Held, Later, Moves
  <1>10. CheckpointAccounted'
    BY <1>1, <1>4, <1>5, <1>3, Types, ThreadAssumption
       DEF PlayInv, BatchHasHolder, CheckpointAccounted, WaitingIsNewer, PositionsPast, Held,
           Later, Moves
  <1>11. CheckpointLands'
    BY <1>1, <1>4, <1>5, <1>3, Types, ThreadAssumption
       DEF PlayInv, BatchHasHolder, CheckpointLands, CheckpointAccounted, Held, Later, Moves
  <1>12. NewestSurvivesUnlessOvertaken'
    BY <1>1, <1>4, <1>5, <1>3, Types, ThreadAssumption
       DEF PlayInv, BatchHasHolder, NewestSurvivesUnlessOvertaken, Survives, Held, Moves
  <1> QED BY <1>6, <1>7, <1>8, <1>9, <1>10, <1>11, <1>12 DEF PlayInv

(* StateShown keeps the invariant. *)
LEMMA StateShownSafe ==
  ASSUME PlayInv, NEW t \in Thread, StateShown(t)
  PROVE  PlayInv'
  <1>1. PlayTypeOK
    BY DEF PlayInv
  <1>2. clock + 1 \in Nat
    BY <1>1, Types
  <1>3. thread[t].pc = "shown"
    BY DEF StateShown
  <1>4. Moves(t, "idle", Idle.key, 0, FALSE)
    <2> DEFINE c == Idle
    <2>1. thread' = [thread EXCEPT ![t] = c]
      BY DEF StateShown
    <2>2. /\ c \in CallState /\ c.pc = "idle" /\ c.key = Idle.key
          /\ c.position = 0 /\ c.failed = FALSE
      BY <1>1, <1>2, <1>3, IdleOK, Types DEF CallState
    <2> HIDE DEF c
    <2>3. Moves(t, c.pc, c.key, c.position, c.failed)
      BY <1>1, <2>1, <2>2, MovesTo
    <2> QED BY <2>2, <2>3
  <1>5. /\ items' = items /\ flushMu' = flushMu /\ clock' = clock
        /\ overtaken' = overtaken
        /\ pending' = pending
        /\ batch' = batch
        /\ landed' = landed
        /\ newest' = newest
        /\ rows' = rows
    BY <1>1, Types DEF StateShown, PlayTypeOK, StateTypeOK, bufferVars, NoTick, Empty, Tick
  <1>6. PlayTypeOK'
    BY <1>1, <1>4, <1>5, Types
       DEF StateShown, PlayTypeOK, StateTypeOK, Moves, bufferVars, Empty, NoTick, Tick, Later
  <1>7. BatchHasHolder'
    BY <1>1, <1>4, <1>5, <1>3, Types, ThreadAssumption DEF PlayInv, BatchHasHolder, Held, Moves
  <1>8. PositionsPast'
    BY <1>1, <1>4, <1>5, <1>3, Types, ThreadAssumption
       DEF PlayInv, BatchHasHolder, PositionsPast, Held, Later, Moves
  <1>9. WaitingIsNewer'
    BY <1>1, <1>4, <1>5, <1>3, Types, ThreadAssumption
       DEF PlayInv, BatchHasHolder, WaitingIsNewer, PositionsPast, Held, Later, Moves
  <1>10. CheckpointAccounted'
    BY <1>1, <1>4, <1>5, <1>3, Types, ThreadAssumption
       DEF PlayInv, BatchHasHolder, CheckpointAccounted, WaitingIsNewer, PositionsPast, Held,
           Later, Moves
  <1>11. CheckpointLands'
    BY <1>1, <1>4, <1>5, <1>3, Types, ThreadAssumption
       DEF PlayInv, BatchHasHolder, CheckpointLands, CheckpointAccounted, Held, Later, Moves
  <1>12. NewestSurvivesUnlessOvertaken'
    BY <1>1, <1>4, <1>5, <1>3, Types, ThreadAssumption
       DEF PlayInv, BatchHasHolder, NewestSurvivesUnlessOvertaken, Survives, Held, Moves
  <1> QED BY <1>6, <1>7, <1>8, <1>9, <1>10, <1>11, <1>12 DEF PlayInv

(* Deleting an item or its user keeps the invariant: what waits for it stays *)
(* in the buffer, and no property speaks of its row any more.                *)
LEMMA DeleteSafe ==
  ASSUME PlayInv, NEW k \in Key, Delete(k)
  PROVE  PlayInv'
  <1>1. PlayTypeOK
    BY DEF PlayInv
  <1>2. /\ items' = items \ {k} /\ clock' = clock /\ call' = call
        /\ rows' = [rows EXCEPT ![k] = NoRow] /\ decided' = [decided EXCEPT ![k] = 0]
        /\ pending' = pending /\ batch' = batch /\ flushMu' = flushMu
        /\ thread' = thread /\ calls' = calls /\ faults' = faults
        /\ newest' = newest /\ overtaken' = overtaken /\ landed' = landed
    BY DEF Delete, DeleteItem, bufferVars
  <1>3. NoRow \in Row
    BY NoRowOK DEF RowOK
  <1>4. PlayTypeOK'
    BY <1>1, <1>2, <1>3 DEF PlayTypeOK, StateTypeOK
  <1>5. \A j \in Key \ {k} : rows'[j] = rows[j]
    BY <1>1, <1>2 DEF PlayTypeOK, StateTypeOK
  <1>6. BatchHasHolder' /\ PositionsPast' /\ WaitingIsNewer'
    BY <1>2 DEF PlayInv, BatchHasHolder, PositionsPast, WaitingIsNewer, Held
  <1>7. CheckpointAccounted' /\ CheckpointLands'
    BY <1>2 DEF PlayInv, CheckpointAccounted, CheckpointLands
  <1>8. NewestSurvivesUnlessOvertaken'
    BY <1>1, <1>2, <1>5, Types DEF PlayInv, NewestSurvivesUnlessOvertaken, Survives, Held
  <1> QED BY <1>4, <1>6, <1>7, <1>8 DEF PlayInv

(* A step of one thread keeps the invariant. *)
LEMMA ThreadStepSafe ==
  ASSUME PlayInv, NEW t \in Thread,
         \/ Flush(t) \/ StateReturns(t) \/ StateShown(t) \/ LockSteps(t) \/ WriteSteps(t)
         \/ \E k \in Key : \/ Progress(t, k) \/ StateReads(t, k)
                           \/ \E asOf \in Imports : Checkpoint(t, k, asOf)
  PROVE  PlayInv'
  <1>1. CASE Flush(t)
    BY <1>1, FlushSafe
  <1>2. CASE StateReturns(t)
    BY <1>2, StateReturnsSafe
  <1>3. CASE StateShown(t)
    BY <1>3, StateShownSafe
  <1>4. CASE LockSteps(t)
    <2>1. CASE CheckpointBuffers(t)
      BY <2>1, CheckpointFindsNewerSafe, CheckpointEntersSafe
    <2>2. CASE OlderWrites(t)
      BY <2>2, OlderWritesSafe
    <2>3. CASE OlderFails(t)
      BY <2>3, OlderFailsSafe
    <2>4. CASE FlushStarts(t)
      BY <2>4, FlushStartsSafe
    <2>5. CASE FlushFindsNothing(t)
      BY <2>5, FlushFindsNothingSafe
    <2> QED BY <1>4, <2>1, <2>2, <2>3, <2>4, <2>5 DEF LockSteps
  <1>5. CASE WriteSteps(t)
    <2>1. ASSUME NEW k \in Key, FlushWrites(t, k) PROVE PlayInv'
      BY <2>1, FlushWritesSafe
    <2>2. ASSUME NEW k \in Key, FlushDrops(t, k) PROVE PlayInv'
      BY <2>2, FlushDropsSafe
    <2>3. ASSUME NEW k \in Key, FlushFails(t, k) PROVE PlayInv'
      BY <2>3, FlushFailsSafe
    <2>4. CASE FlushEnds(t)
      BY <2>4, FlushEndsSafe
    <2> QED BY <1>5, <2>1, <2>2, <2>3, <2>4 DEF WriteSteps
  <1>6. ASSUME NEW k \in Key, Progress(t, k) PROVE PlayInv'
    BY <1>6, ProgressSafe
  <1>7. ASSUME NEW k \in Key, StateReads(t, k) PROVE PlayInv'
    BY <1>7, StateReadsSafe
  <1>8. ASSUME NEW k \in Key, NEW asOf \in Imports, Checkpoint(t, k, asOf) PROVE PlayInv'
    <2>1. asOf \in Nat
      BY ImportsAssumption
    <2> QED BY <1>8, <2>1, CheckpointSafe
  <1> QED BY <1>1, <1>2, <1>3, <1>4, <1>5, <1>6, <1>7, <1>8

(* The service starts with nothing buffered, which satisfies the invariant. *)
LEMMA PlayInitSafe ==
  ASSUME PlayInit
  PROVE  PlayInv
  <1>1. NoRow \in Row /\ NoRow.position = 0
    BY NoRowOK DEF RowOK, NoRow
  <1>2. (CHOOSE k \in Key : TRUE) \in Key
    BY KeyAssumption
  <1>3. NoTick \in Tick /\ NoTick.position = 0
    BY DEF NoTick, Tick
  <1>4. PlayTypeOK
    BY <1>1, <1>2, <1>3, IdleOK DEF PlayInit, StateInit, PlayTypeOK, StateTypeOK, Empty
  <1>5. /\ \A k \in Key : /\ pending[k].position = 0 /\ batch[k].position = 0
                          /\ landed[k] = 0 /\ newest[k] = 0
        /\ \A t \in Thread : thread[t] = Idle
        /\ flushMu = NoThread /\ clock = 0 /\ items = Key
    BY <1>3 DEF PlayInit, StateInit, Empty
  <1>6. BatchHasHolder /\ PositionsPast /\ WaitingIsNewer
    BY <1>5, IdleOK, ThreadAssumption DEF BatchHasHolder, PositionsPast, WaitingIsNewer, Held
  <1>7. CheckpointAccounted /\ CheckpointLands /\ NewestSurvivesUnlessOvertaken
    BY <1>5, IdleOK DEF CheckpointAccounted, CheckpointLands, NewestSurvivesUnlessOvertaken
  <1> QED BY <1>4, <1>6, <1>7 DEF PlayInv

(* However ticks, checkpoints, flushes, failed writes and deletions          *)
(* interleave, the buffer, the batch under way and the rows keep agreeing.   *)
THEOREM PlayInvariance == PlaySpec => []PlayInv
  <1>1. PlayInit => PlayInv
    BY PlayInitSafe
  <1>2. PlayInv /\ [PlayNext]_playVars => PlayInv'
    <2>1. ASSUME PlayInv, UNCHANGED playVars PROVE PlayInv'
      BY <2>1 DEF playVars, PlayInv, PlayTypeOK, StateTypeOK, BatchHasHolder, PositionsPast,
                  WaitingIsNewer, CheckpointAccounted, CheckpointLands,
                  NewestSurvivesUnlessOvertaken, Survives, Held
    <2>2. ASSUME PlayInv, NEW k \in Key, Delete(k) PROVE PlayInv'
      BY <2>2, DeleteSafe
    <2>3. ASSUME PlayInv, PlayNext PROVE PlayInv'
      BY <2>2, <2>3, ThreadStepSafe DEF PlayNext
    <2> QED BY <2>1, <2>3
  <1> QED BY <1>1, <1>2, PTL DEF PlaySpec

(* A checkpoint that returned without an error has landed, or a newer        *)
(* position has.                                                             *)
THEOREM CheckpointLandsHolds == PlaySpec => []CheckpointLands
  <1>1. PlayInv => CheckpointLands
    BY DEF PlayInv
  <1> QED BY <1>1, PlayInvariance, PTL

(* No flush and no re-queue ever puts an older position over one that landed. *)
THEOREM WaitingIsNewerHolds == PlaySpec => []WaitingIsNewer
  <1>1. PlayInv => WaitingIsNewer
    BY DEF PlayInv
  <1> QED BY <1>1, PlayInvariance, PTL

(* The position buffered last is buffered, being written or shown by the     *)
(* row, unless an older checkpoint wrote over it.                            *)
THEOREM NewestSurvivesHolds == PlaySpec => []NewestSurvivesUnlessOvertaken
  <1>1. PlayInv => NewestSurvivesUnlessOvertaken
    BY DEF PlayInv
  <1> QED BY <1>1, PlayInvariance, PTL

(* The three together.                                                       *)
THEOREM PositionsKeptHold == PlaySpec => []PositionsKept
  <1>1. PlayInv => PositionsKept
    BY DEF PlayInv, PositionsKept
  <1> QED BY <1>1, PlayInvariance, PTL
=============================================================================
