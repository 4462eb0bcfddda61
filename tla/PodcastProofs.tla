--------------------------- MODULE PodcastProofs ---------------------------
(***************************************************************************)
(* Proofs about podcasts: subscriptions, for any callers, addresses and    *)
(* logins, and the episode files of a show, for any callers, episodes and  *)
(* file names; both for any number of calls, of changes at the source and  *)
(* of faults.                                                              *)
(***************************************************************************)
EXTENDS Podcast, Feeds, TLAPS

(***************************************************************************)
(* Subscriptions.                                                          *)
(***************************************************************************)
Key == Url \cup {Guid}
Tag == [url : Url \cup {NoUrl}, n : Nat]
LiveRow == [url : Url, key : Key, tag : Tag, login : Login \cup {NoLogin}]
Row == LiveRow \cup {NoShow}
Entry == [show : Show, key : Key, n : Nat]
Call == [at : {"idle", "ask", "decide", "write", "unchanged"}, op : {"none", "add", "sync"}, pid : Show \cup {0},
         url : Url \cup {NoUrl}, login : Login \cup {NoLogin}, asked : Row, got : Tag, key : Key \cup {NoUrl},
         moved : Url \cup {NoUrl}, replace : BOOLEAN]

FeedsTypeOK ==
  /\ served \in [Url -> [n : Nat, guid : BOOLEAN, moved : Url \cup {NoUrl}]]
  /\ shows \in [Show -> Row]
  /\ entries \subseteq Entry
  /\ feedCall \in [Caller -> Call]
  /\ callsLeft \in Int

\* What a call under way knows: the show it read, the address it asked and was
\* answered from, and, when it keeps to that show, that the address is the show's.
CallOK(call) ==
  /\ call.at = "idle" => call = NoCaller
  /\ call.pid = 0 => call.asked = NoShow /\ call.op # "sync"
  /\ call.pid # 0 => call.asked \in LiveRow
  /\ call.at # "idle" => call.url \in Url /\ call.op \in {"add", "sync"}
  /\ call.at \in {"decide", "write", "unchanged"} => call.moved \in Url /\ call.key \in Key
  /\ call.at = "unchanged" => call.op = "sync"
  /\ call.at = "decide" => call.op = "add"
  /\ call.op = "add" /\ call.at \in {"ask", "decide"} /\ call.pid # 0 => call.asked.url = call.url
  /\ call.at = "decide" => call.moved = call.url
  /\ call.op = "add" /\ call.at = "write" /\ call.pid # 0 /\ ~call.replace =>
       call.login = NoLogin /\ call.moved = call.asked.url

CallsOK == \A c \in Caller : CallOK(feedCall[c])

\* The inductive invariant of FeedsSpec.
FeedsInv == FeedsTypeOK /\ CallsOK /\ EpisodesKeyed /\ ValidatorsProve

(***************************************************************************)
(* Rows.                                                                   *)
(***************************************************************************)
LEMMA NoShowFacts == NoShow \notin LiveRow /\ NoUrl \notin Url /\ 0 \notin Show /\ NoTag \in Tag /\ Show \subseteq Nat
  BY FeedsAssumption DEF NoShow, LiveRow, NoUrl, Show, NoTag, Tag

\* The live shows are those that have a row.
LEMMA LiveRows ==
  ASSUME FeedsTypeOK
  PROVE  \A p \in Show : p \in Live <=> shows[p] \in LiveRow
  BY NoShowFacts DEF FeedsTypeOK, Row, Live

(* An answer is of an address and numbers its episodes. *)
LEMMA Answers ==
  ASSUME FeedsTypeOK, NEW u \in Url
  PROVE  Answered(u) \in Url /\ TagOf(u) \in Tag /\ KeyOf(u) \in Key
<1>1. Answered(u) \in Url
  BY DEF Answered, FeedsTypeOK
<1>2. QED
  BY <1>1 DEF FeedsTypeOK, TagOf, KeyOf, Tag, Key

(***************************************************************************)
(* UpsertFeed.                                                             *)
(***************************************************************************)
\* A show's new key and address are no other show's.
LEMMA KeysApart ==
  ASSUME FeedsInv, NEW p \in Live, NEW key \in Key, NEW u \in Url
  PROVE  /\ KeyFor(p, key) \in Key /\ UrlFor(p, u) \in Url
         /\ \A q \in Live \ {p} : shows[q].key # KeyFor(p, key) /\ shows[q].url # UrlFor(p, u)
<1>1. p \in Show /\ shows[p] \in LiveRow
  BY LiveRows DEF FeedsInv, Live
<1>2. \A q \in Live : q # p => shows[q].key # shows[p].key /\ shows[q].url # shows[p].url
  BY DEF FeedsInv, EpisodesKeyed
<1>3. shows[p].key \in Key /\ shows[p].url \in Url
  BY <1>1 DEF LiveRow
<1>4. QED
  BY <1>2, <1>3 DEF KeyFor, UrlFor

\* Rekeying keeps every episode, in its show, under its number.
LEMMA Rekeyed ==
  ASSUME FeedsInv, NEW p \in Live, NEW key \in Key
  PROVE  /\ Rekey(p, key) \subseteq Entry
         /\ \A i \in Rekey(p, key) : i.show \in Live /\ i.key = (IF i.show = p THEN key ELSE shows[i.show].key)
         /\ \A i, j \in Rekey(p, key) : i.show = j.show /\ i.n = j.n => i = j
         /\ \A i \in entries : \E j \in Rekey(p, key) : j.show = i.show /\ j.n = i.n
<1> DEFINE R(i) == IF i.show = p /\ i.key = shows[p].key THEN [i EXCEPT !.key = key] ELSE i
<1>1. Rekey(p, key) = {R(i) : i \in entries}
  BY DEF Rekey
<1>2. \A i \in entries : /\ i \in Entry /\ i.show \in Live /\ i.key = shows[i.show].key
  BY DEF FeedsInv, FeedsTypeOK, EpisodesKeyed
<1>3. ASSUME NEW i \in entries
      PROVE  /\ R(i) \in Entry /\ R(i).show = i.show /\ R(i).n = i.n
             /\ R(i).key = IF i.show = p THEN key ELSE shows[i.show].key
  <2>1. i \in Entry /\ i.key = shows[i.show].key
    BY <1>2
  <2>2. CASE i.show = p
    <3>1. R(i) = [i EXCEPT !.key = key]
      BY <2>1, <2>2
    <3>2. QED
      BY <2>1, <2>2, <3>1 DEF Entry
  <2>3. CASE i.show # p
    BY <2>1, <2>3
  <2>4. QED
    BY <2>2, <2>3
<1>4. \A i, j \in entries : i.show = j.show /\ i.n = j.n => i = j
  BY DEF FeedsInv, EpisodesKeyed
<1> HIDE DEF R
<1>5. \A e \in Rekey(p, key) : \E i \in entries : e = R(i)
  BY <1>1
<1>6. QED
  <2>1. Rekey(p, key) \subseteq Entry
    BY <1>3, <1>5
  <2>2. ASSUME NEW e \in Rekey(p, key)
        PROVE  e.show \in Live /\ e.key = (IF e.show = p THEN key ELSE shows[e.show].key)
    <3>1. PICK i \in entries : e = R(i)
      BY <1>5
    <3>2. QED
      BY <1>2, <1>3, <3>1
  <2>3. ASSUME NEW e \in Rekey(p, key), NEW f \in Rekey(p, key), e.show = f.show, e.n = f.n
        PROVE  e = f
    <3>1. PICK i \in entries : e = R(i)
      BY <1>5
    <3>2. PICK j \in entries : f = R(j)
      BY <1>5
    <3>3. i = j
      BY <1>3, <1>4, <2>3, <3>1, <3>2
    <3>4. QED
      BY <3>1, <3>2, <3>3
  <2>4. ASSUME NEW i \in entries
        PROVE  \E j \in Rekey(p, key) : j.show = i.show /\ j.n = i.n
    <3>1. R(i) \in Rekey(p, key)
      BY <1>1
    <3>2. QED
      BY <1>3, <3>1
  <2>5. QED
    BY <2>1, <2>2, <2>3, <2>4

\* What an ingest leaves: the known episodes, and one of the show for each number
\* that no known episode of its key has.
LEMMA Ingested ==
  ASSUME NEW known \in SUBSET Entry, NEW p \in Show, NEW key \in Key, NEW n \in Nat
  PROVE  /\ Ingest(known, p, key, n) \subseteq Entry
         /\ known \subseteq Ingest(known, p, key, n)
         /\ \A e \in Ingest(known, p, key, n) \ known :
              /\ e.show = p /\ e.key = key
              /\ ~\E i \in known : i.key = key /\ i.n = e.n
         /\ \A e, f \in Ingest(known, p, key, n) \ known : e.n = f.n => e = f
         /\ \A m \in 1..n : \E i \in Ingest(known, p, key, n) : i.key = key /\ i.n = m
<1> DEFINE M == {x \in 1..n : ~\E i \in known : i.key = key /\ i.n = x}
           E(m) == [show |-> p, key |-> key, n |-> m]
<1>1. Ingest(known, p, key, n) = known \cup {E(m) : m \in M}
  BY DEF Ingest
<1>2. \A m \in M : E(m) \in Entry /\ E(m).show = p /\ E(m).key = key /\ E(m).n = m
  BY DEF Entry
<1>3. \A m \in M : ~\E i \in known : i.key = key /\ i.n = m
  OBVIOUS
<1>4. \A m \in 1..n : m \in M \/ \E i \in known : i.key = key /\ i.n = m
  OBVIOUS
<1> HIDE DEF M, E
<1>5. \A e \in Ingest(known, p, key, n) \ known : \E m \in M : e = E(m)
  BY <1>1
<1>6. \A m \in M : E(m) \in Ingest(known, p, key, n)
  BY <1>1
<1>7. QED
  <2>1. Ingest(known, p, key, n) \subseteq Entry
    BY <1>2, <1>5
  <2>2. known \subseteq Ingest(known, p, key, n)
    BY <1>1
  <2>3. \A e \in Ingest(known, p, key, n) \ known :
          e.show = p /\ e.key = key /\ ~\E i \in known : i.key = key /\ i.n = e.n
    BY <1>2, <1>3, <1>5
  <2>4. \A e, f \in Ingest(known, p, key, n) \ known : e.n = f.n => e = f
    BY <1>2, <1>5
  <2>5. \A m \in 1..n : \E i \in Ingest(known, p, key, n) : i.key = key /\ i.n = m
    BY <1>2, <1>4, <1>6, <2>2
  <2>6. QED
    BY <2>1, <2>2, <2>3, <2>4, <2>5

\* A row changed in place: it has its key and its validators still, and an address
\* no other show has.
LEMMA RowRelabelled ==
  ASSUME FeedsInv, NEW p \in Live, shows' \in [Show -> Row], entries' = entries,
         shows'[p] \in LiveRow, shows'[p].key = shows[p].key, shows'[p].tag = shows[p].tag,
         \A q \in Live \ {p} : shows[q].url # shows'[p].url,
         \A q \in Show \ {p} : shows'[q] = shows[q]
  PROVE  EpisodesKeyed' /\ ValidatorsProve'
<1>1. Live' = Live
  BY NoShowFacts DEF Live
<1>2. EpisodesKeyed'
  <2>1. \A q, r \in Live : q # r => shows'[q].url # shows'[r].url /\ shows'[q].key # shows'[r].key
    BY DEF FeedsInv, EpisodesKeyed, Live
  <2>2. \A i \in entries : i.show \in Live /\ i.key = shows'[i.show].key
    BY DEF FeedsInv, EpisodesKeyed, Live
  <2>3. QED
    BY <1>1, <2>1, <2>2 DEF FeedsInv, EpisodesKeyed
<1>3. ValidatorsProve'
  <2>1. \A q \in Live : shows'[q].tag = shows[q].tag
    BY DEF Live
  <2>2. QED
    BY <1>1, <2>1 DEF FeedsInv, ValidatorsProve
<1>4. QED
  BY <1>2, <1>3

\* An answer written to the show it was asked for.
LEMMA WriteToKeeps ==
  ASSUME FeedsInv, NEW c \in Caller, feedCall[c].at = "write", NEW p \in Live, WriteTo(c, p)
  PROVE  /\ shows' \in [Show -> Row] /\ shows'[p] \in LiveRow
         /\ entries' \subseteq Entry
         /\ EpisodesKeyed' /\ ValidatorsProve'
<1> DEFINE call == feedCall[c]
           key == KeyFor(p, call.key)
           url == UrlFor(p, call.moved)
           known == Rekey(p, key)
<1>1. call \in Call /\ CallOK(call) /\ p \in Show /\ shows[p] \in LiveRow /\ shows \in [Show -> Row]
  BY LiveRows DEF FeedsInv, FeedsTypeOK, CallsOK, Live
<1>2. call.moved \in Url /\ call.key \in Key /\ call.got \in Tag /\ call.login \in Login \cup {NoLogin}
  BY <1>1 DEF CallOK, Call
<1>3. LoginAfter(call, p, url) \in Login \cup {NoLogin}
  BY <1>1, <1>2 DEF LoginAfter, LiveRow
<1>4. /\ key \in Key /\ url \in Url
      /\ \A q \in Live \ {p} : shows[q].key # key /\ shows[q].url # url
  BY <1>2, KeysApart
<1>5. shows' = [shows EXCEPT ![p] = [url |-> url, key |-> key, tag |-> call.got, login |-> LoginAfter(call, p, url)]]
  BY DEF WriteTo
<1>6. shows' \in [Show -> Row] /\ shows'[p] \in LiveRow /\ shows'[p].key = key /\ shows'[p].url = url
        /\ shows'[p].tag = call.got /\ \A q \in Show \ {p} : shows'[q] = shows[q]
  BY <1>1, <1>2, <1>3, <1>4, <1>5 DEF LiveRow, Row
<1>7. Live' = Live
  BY <1>1, <1>6, NoShowFacts DEF Live
<1>8. entries' = Ingest(known, p, key, call.got.n)
  BY DEF WriteTo
<1>9. /\ known \subseteq Entry
      /\ \A i \in known : i.show \in Live /\ i.key = (IF i.show = p THEN key ELSE shows[i.show].key)
      /\ \A i, j \in known : i.show = j.show /\ i.n = j.n => i = j
      /\ \A i \in entries : \E j \in known : j.show = i.show /\ j.n = i.n
  BY <1>4, Rekeyed
<1>10. call.got.n \in Nat
  BY <1>2 DEF Tag
<1> HIDE DEF key, url, known
<1>11. /\ entries' \subseteq Entry
       /\ known \subseteq entries'
       /\ \A e \in entries' \ known :
              /\ e.show = p /\ e.key = key
              /\ ~\E i \in known : i.key = key /\ i.n = e.n
       /\ \A e, f \in entries' \ known : e.n = f.n => e = f
       /\ \A m \in 1..call.got.n : \E i \in entries' : i.key = key /\ i.n = m
  <2> HIDE DEF call
  <2>1. QED
    BY <1>1, <1>4, <1>8, <1>9, <1>10, Ingested
<1>12. \A i \in entries' : i.show \in Live /\ i.key = shows'[i.show].key
  <2>1. ASSUME NEW i \in entries', i \in known
        PROVE  i.show \in Live /\ i.key = shows'[i.show].key
    BY <1>6, <1>9, <2>1 DEF Live
  <2>2. ASSUME NEW i \in entries', i \notin known
        PROVE  i.show \in Live /\ i.key = shows'[i.show].key
    BY <1>6, <1>11, <2>2
  <2>3. QED
    BY <2>1, <2>2
<1>13. \A i \in entries' : i.key = key => i.show = p
  BY <1>4, <1>6, <1>12 DEF Live
<1>14. EpisodesKeyed'
  <2>1. \A q, r \in Live : q # r => shows'[q].url # shows'[r].url /\ shows'[q].key # shows'[r].key
    BY <1>4, <1>6 DEF FeedsInv, EpisodesKeyed, Live
  <2>2. ASSUME NEW i \in entries', NEW j \in entries', i.show = j.show, i.n = j.n
        PROVE  i = j
    <3>1. CASE i \in known /\ j \in known
      BY <1>9, <2>2, <3>1
    <3>2. CASE i \notin known /\ j \notin known
      BY <1>11, <2>2, <3>2
    <3>3. ASSUME NEW x \in entries', NEW y \in entries', x.show = y.show, x.n = y.n, x \in known, y \notin known
          PROVE  FALSE
      <4>1. y.show = p /\ ~\E k \in known : k.key = key /\ k.n = y.n
        BY <1>11, <3>3
      <4>2. x.key = key
        BY <1>9, <3>3, <4>1
      <4>3. QED
        BY <3>3, <4>1, <4>2
    <3>4. QED
      BY <2>2, <3>1, <3>2, <3>3
  <2>3. QED
    BY <1>7, <1>12, <2>1, <2>2 DEF EpisodesKeyed
<1>15. ValidatorsProve'
  <2>1. ASSUME NEW n \in 1..(shows'[p].tag.n)
        PROVE  \E i \in entries' : i.show = p /\ i.n = n
    BY <1>6, <1>11, <1>13
  <2>2. ASSUME NEW q \in Live, q # p, NEW n \in 1..(shows'[q].tag.n)
        PROVE  \E i \in entries' : i.show = q /\ i.n = n
    <3>1. shows'[q] = shows[q]
      BY <1>6, <2>2 DEF Live
    <3>2. PICK i \in entries : i.show = q /\ i.n = n
      BY <2>2, <3>1 DEF FeedsInv, ValidatorsProve
    <3>3. QED
      BY <1>9, <1>11, <3>2
  <2>3. QED
    BY <1>7, <2>1, <2>2 DEF ValidatorsProve
<1>16. QED
  BY <1>6, <1>11, <1>14, <1>15

\* An answer written as a show of its own.
LEMMA InsertKeeps ==
  ASSUME FeedsInv, NEW p \in Show \ Live, NEW row \in LiveRow,
         \A q \in Live : shows[q].url # row.url /\ shows[q].key # row.key,
         shows' = [shows EXCEPT ![p] = row],
         entries' = Ingest(entries, p, row.key, row.tag.n)
  PROVE  /\ shows' \in [Show -> Row]
         /\ entries' \subseteq Entry
         /\ EpisodesKeyed' /\ ValidatorsProve'
<1>1. shows \in [Show -> Row] /\ entries \subseteq Entry /\ row.key \in Key /\ row.tag.n \in Nat
  BY DEF FeedsInv, FeedsTypeOK, LiveRow, Tag
<1>2. shows' \in [Show -> Row] /\ shows'[p] = row /\ \A q \in Show \ {p} : shows'[q] = shows[q]
  BY <1>1 DEF Row
<1>3. Live' = Live \cup {p}
  BY <1>2, NoShowFacts DEF Live
<1>4. \A i \in entries : i.show \in Live /\ i.show # p /\ i.key = shows[i.show].key /\ i.key # row.key
  BY DEF FeedsInv, EpisodesKeyed
<1>5. /\ entries' \subseteq Entry
      /\ entries \subseteq entries'
      /\ \A e \in entries' \ entries : e.show = p /\ e.key = row.key
      /\ \A e, f \in entries' \ entries : e.n = f.n => e = f
      /\ \A m \in 1..(row.tag.n) : \E i \in entries' : i.key = row.key /\ i.n = m
  BY <1>1, Ingested
<1>6. EpisodesKeyed'
  <2>1. \A q, r \in Live' : q # r => shows'[q].url # shows'[r].url /\ shows'[q].key # shows'[r].key
    BY <1>2, <1>3 DEF FeedsInv, EpisodesKeyed, Live
  <2>2. \A i \in entries' : i.show \in Live' /\ i.key = shows'[i.show].key
    BY <1>2, <1>3, <1>4, <1>5 DEF Live
  <2>3. \A i, j \in entries' : i.show = j.show /\ i.n = j.n => i = j
    BY <1>4, <1>5 DEF FeedsInv, EpisodesKeyed
  <2>4. QED
    BY <2>1, <2>2, <2>3 DEF EpisodesKeyed
<1>7. ValidatorsProve'
  <2>1. ASSUME NEW n \in 1..(row.tag.n)
        PROVE  \E i \in entries' : i.show = p /\ i.n = n
    BY <1>4, <1>5
  <2>2. ASSUME NEW q \in Live, NEW n \in 1..(shows'[q].tag.n)
        PROVE  \E i \in entries' : i.show = q /\ i.n = n
    <3>1. shows'[q] = shows[q]
      BY <1>2 DEF Live
    <3>2. QED
      BY <1>5, <3>1 DEF FeedsInv, ValidatorsProve
  <2>3. QED
    BY <1>2, <1>3, <2>1, <2>2 DEF ValidatorsProve
<1>8. QED
  BY <1>2, <1>5, <1>6, <1>7

(***************************************************************************)
(* The calls.                                                              *)
(***************************************************************************)
\* Everything but one call stays; the call becomes one in order.
CallBecomes(c, call) == feedCall' = [feedCall EXCEPT ![c] = call]

LEMMA CallsKept ==
  ASSUME FeedsInv, NEW c \in Caller, NEW call, CallBecomes(c, call), call \in Call, CallOK(call)
  PROVE  feedCall' \in [Caller -> Call] /\ CallsOK'
<1>1. \A d \in Caller : feedCall'[d] = IF d = c THEN call ELSE feedCall[d]
  BY DEF FeedsInv, FeedsTypeOK, CallBecomes
<1>2. \A d \in Caller : CallOK(feedCall'[d])
  BY <1>1 DEF FeedsInv, CallsOK
<1>3. QED
  BY <1>2 DEF CallBecomes, FeedsInv, FeedsTypeOK, CallsOK, CallOK

LEMMA IdleOK == NoCaller \in Call /\ CallOK(NoCaller)
  BY NoShowFacts DEF NoCaller, Call, CallOK, Row, NoLogin, NoUrl

\* What the shows and episodes keep when a step leaves them alone.
LEMMA ShowsStay ==
  ASSUME FeedsInv, UNCHANGED <<shows, entries>>
  PROVE  EpisodesKeyed' /\ ValidatorsProve'
  BY DEF FeedsInv, EpisodesKeyed, ValidatorsProve, Live

LEMMA PublishKeeps ==
  ASSUME FeedsInv, NEW u \in Url, Publish(u)
  PROVE  FeedsInv'
<1>1. served' \in [Url -> [n : Nat, guid : BOOLEAN, moved : Url \cup {NoUrl}]]
  <2>1. CASE served' = [served EXCEPT ![u].n = served[u].n + 1]
    BY <2>1 DEF FeedsInv, FeedsTypeOK
  <2>2. CASE served' = [served EXCEPT ![u].guid = TRUE]
    BY <2>2 DEF FeedsInv, FeedsTypeOK
  <2>3. ASSUME NEW to \in Url \ {u}, served' = [served EXCEPT ![u].moved = to]
        PROVE  served' \in [Url -> [n : Nat, guid : BOOLEAN, moved : Url \cup {NoUrl}]]
    BY <2>3 DEF FeedsInv, FeedsTypeOK
  <2>4. QED
    BY <2>1, <2>2, <2>3 DEF Publish
<1>2. EpisodesKeyed' /\ ValidatorsProve'
  BY ShowsStay DEF Publish
<1>3. QED
  BY <1>1, <1>2 DEF Publish, FeedsInv, FeedsTypeOK, CallsOK, CallOK

\* A call that begins knows the show it read.
LEMMA AsksOK ==
  ASSUME FeedsInv, NEW op \in {"add", "sync"}, NEW p \in Show \cup {0}, p # 0 => p \in Live,
         op = "sync" => p # 0, NEW u \in Url, p # 0 => shows[p].url = u,
         NEW login \in Login \cup {NoLogin}, NEW replace \in BOOLEAN
  PROVE  Asks(op, p, u, login, replace) \in Call /\ CallOK(Asks(op, p, u, login, replace))
<1> DEFINE asked == IF p = 0 THEN NoShow ELSE shows[p]
<1>1. asked \in Row /\ (p = 0 => asked = NoShow) /\ (p # 0 => asked \in LiveRow /\ asked.url = u)
  BY LiveRows, NoShowFacts DEF FeedsInv, Row, Live
<1>2. Asks(op, p, u, login, replace) =
        [at |-> "ask", op |-> op, pid |-> p, url |-> u, login |-> login, asked |-> asked,
         got |-> NoTag, key |-> NoUrl, moved |-> NoUrl, replace |-> replace]
  BY DEF Asks
<1> HIDE DEF asked
<1>3. QED
  BY <1>1, <1>2, NoShowFacts DEF Call, CallOK

LEMMA StartSyncKeeps ==
  ASSUME FeedsInv, NEW c \in Caller, NEW p \in Show, StartSync(c, p)
  PROVE  FeedsInv'
<1> DEFINE call == Asks("sync", p, shows[p].url, NoLogin, FALSE)
<1>1. p \in Live /\ p # 0 /\ shows[p].url \in Url
  BY LiveRows, NoShowFacts DEF StartSync, FeedsInv, LiveRow
<1>2. call \in Call /\ CallOK(call)
  BY <1>1, AsksOK
<1>3. CallBecomes(c, call) /\ Begins(c, call)
  BY DEF StartSync, Begins, CallBecomes
<1> HIDE DEF call
<1>4. feedCall' \in [Caller -> Call] /\ CallsOK'
  BY <1>2, <1>3, CallsKept
<1>5. EpisodesKeyed' /\ ValidatorsProve'
  BY <1>3, ShowsStay DEF Begins
<1>6. QED
  BY <1>3, <1>4, <1>5 DEF Begins, FeedsInv, FeedsTypeOK

LEMMA StartAddKeeps ==
  ASSUME FeedsInv, NEW c \in Caller, NEW u \in Url, NEW login \in Login \cup {NoLogin}, NEW replace \in BOOLEAN,
         StartAdd(c, u, login, replace)
  PROVE  FeedsInv'
<1> DEFINE here == {q \in Live : shows[q].url = u}
           p == IF here = {} THEN 0 ELSE CHOOSE x \in here : TRUE
           call == Asks("add", p, u, login, replace)
<1>1. p \in Show \cup {0} /\ (p # 0 => p \in Live /\ shows[p].url = u)
  BY DEF Live
<1>3. CallBecomes(c, call) /\ Begins(c, call)
  BY DEF StartAdd, Begins, CallBecomes
<1> HIDE DEF p
<1>2. call \in Call /\ CallOK(call)
  BY <1>1, AsksOK
<1> HIDE DEF call
<1>4. feedCall' \in [Caller -> Call] /\ CallsOK'
  BY <1>2, <1>3, CallsKept
<1>5. EpisodesKeyed' /\ ValidatorsProve'
  BY <1>3, ShowsStay DEF Begins
<1>6. QED
  BY <1>3, <1>4, <1>5 DEF Begins, FeedsInv, FeedsTypeOK

LEMMA EnumerateKeeps ==
  ASSUME FeedsInv, NEW c \in Caller, Enumerate(c)
  PROVE  FeedsInv'
<1> DEFINE call == feedCall[c]
           u == call.url
           next == [at |-> IF call.op = "add" THEN "decide" ELSE IF call.asked.tag = TagOf(u) THEN "unchanged" ELSE "write",
                    got |-> TagOf(u), key |-> IF call.op = "add" THEN KeyOf(u) ELSE call.asked.key,
                    moved |-> IF call.op = "add" THEN u ELSE Answered(u),
                    op |-> call.op, pid |-> call.pid, url |-> u, login |-> call.login, asked |-> call.asked,
                    replace |-> call.replace]
<1>1. call \in Call /\ CallOK(call) /\ call.at = "ask"
  BY DEF FeedsInv, FeedsTypeOK, CallsOK, Enumerate
<1>2. u \in Url
  BY <1>1 DEF CallOK
<1>3. Answered(u) \in Url /\ TagOf(u) \in Tag /\ KeyOf(u) \in Key
  BY <1>2, Answers DEF FeedsInv
<1>4. CallBecomes(c, NoCaller) \/ CallBecomes(c, next)
  BY DEF Enumerate, Finishes, CallBecomes
<1> HIDE DEF call
<1>5. next \in Call /\ CallOK(next)
  <2>1. call.op = "sync" => call.asked.key \in Key
    BY <1>1 DEF CallOK, LiveRow
  <2>2. next \in Call
    BY <1>1, <1>2, <1>3, <2>1 DEF Call, CallOK
  <2>3. CallOK(next)
    BY <1>1, <1>2, <1>3, <2>1 DEF CallOK
  <2>4. QED
    BY <2>2, <2>3
<1> HIDE DEF next
<1>6. feedCall' \in [Caller -> Call] /\ CallsOK'
  BY <1>4, <1>5, CallsKept, IdleOK
<1>7. EpisodesKeyed' /\ ValidatorsProve'
  BY ShowsStay DEF Enumerate
<1>8. QED
  BY <1>6, <1>7 DEF Enumerate, FeedsInv, FeedsTypeOK

LEMMA DecideShowKeeps ==
  ASSUME FeedsInv, NEW c \in Caller, DecideShow(c)
  PROVE  FeedsInv'
<1> DEFINE call == feedCall[c]
           keyed == {q \in Live : shows[q].key = call.key}
           p == IF call.pid # 0 THEN call.pid ELSE IF keyed = {} THEN 0 ELSE CHOOSE x \in keyed : TRUE
           prior == IF call.pid # 0 THEN call.asked ELSE shows[p]
           asIs == call.pid # 0 /\ call.login \in {NoLogin, prior.login}
           asked == IF p = 0 THEN NoShow ELSE prior
           login == IF p = 0 \/ call.replace THEN call.login ELSE NoLogin
           next == [at |-> "write", pid |-> p, asked |-> asked, login |-> login,
                    op |-> call.op, url |-> call.url, got |-> call.got, key |-> call.key, moved |-> call.moved,
                    replace |-> call.replace]
<1>1. call \in Call /\ CallOK(call) /\ call.at = "decide"
  BY DEF FeedsInv, FeedsTypeOK, CallsOK, DecideShow
<1>2. CallBecomes(c, NoCaller) \/ (CallBecomes(c, next) /\ ~GivesWay(call, p, asIs))
  BY DEF DecideShow, Finishes, CallBecomes
<1> HIDE DEF call
<1>3. p \in Show \cup {0} /\ (call.pid = 0 /\ p # 0 => p \in Live) /\ (call.pid # 0 => p = call.pid)
  BY <1>1 DEF Call, Live
<1> HIDE DEF p
<1>4. asked \in Row /\ (p = 0 => asked = NoShow) /\ (p # 0 => asked \in LiveRow)
  BY <1>1, <1>3, LiveRows, NoShowFacts DEF CallOK, FeedsInv, Row
<1>5. ~GivesWay(call, p, asIs) /\ p # 0 /\ ~call.replace => login = NoLogin /\ call.moved = asked.url
  BY <1>1, <1>3 DEF GivesWay, CallOK
<1>6. login \in Login \cup {NoLogin}
  BY <1>1 DEF Call
<1> HIDE DEF asked, login, asIs
<1>7. ~GivesWay(call, p, asIs) => next \in Call /\ CallOK(next)
  <2>1. next \in Call
    BY <1>1, <1>3, <1>4, <1>6 DEF Call
  <2>2. ~GivesWay(call, p, asIs) => CallOK(next)
    BY <1>1, <1>3, <1>4, <1>5 DEF CallOK
  <2>3. QED
    BY <2>1, <2>2
<1> HIDE DEF next
<1>8. feedCall' \in [Caller -> Call] /\ CallsOK'
  BY <1>2, <1>7, CallsKept, IdleOK
<1>9. EpisodesKeyed' /\ ValidatorsProve'
  BY ShowsStay DEF DecideShow
<1>10. QED
  BY <1>8, <1>9 DEF DecideShow, FeedsInv, FeedsTypeOK

\* A call that finishes leaves the other calls in order.
LEMMA FinishesKeeps ==
  ASSUME FeedsInv, NEW c \in Caller, Finishes(c)
  PROVE  feedCall' \in [Caller -> Call] /\ CallsOK'
<1>1. CallBecomes(c, NoCaller)
  BY DEF Finishes, CallBecomes
<1>2. QED
  BY <1>1, CallsKept, IdleOK

LEMMA WriteFeedKeeps ==
  ASSUME FeedsInv, NEW c \in Caller, WriteFeed(c)
  PROVE  FeedsInv'
<1> DEFINE call == feedCall[c]
           at == {q \in Live : shows[q].url = call.moved}
           keyed == {q \in Live : shows[q].key = call.key}
           found == IF call.pid # 0 THEN {call.pid} \cap Live ELSE IF at # {} THEN at ELSE keyed
           used == Live \cup crossed
           new == {p \in Show \ used : \A q \in Show : q < p => q \in used}
           row == [url |-> call.moved, key |-> call.key, tag |-> call.got, login |-> call.login]
<1>1. call \in Call /\ CallOK(call) /\ call.at = "write"
  BY DEF FeedsInv, FeedsTypeOK, CallsOK, WriteFeed
<1>2. feedCall' \in [Caller -> Call] /\ CallsOK'
  BY FinishesKeeps DEF WriteFeed
<1>3. shows' \in [Show -> Row] /\ entries' \subseteq Entry /\ EpisodesKeyed' /\ ValidatorsProve'
  <2>1. CASE found # {} /\ WriteTo(c, CHOOSE q \in found : TRUE)
    <3>1. (CHOOSE q \in found : TRUE) \in Live
      BY <2>1
    <3>2. QED
      BY <1>1, <2>1, <3>1, WriteToKeeps
  <2>2. CASE UNCHANGED <<shows, entries, crossed>>
    BY <2>2, ShowsStay DEF FeedsInv, FeedsTypeOK
  <2>3. ASSUME found = {}, call.pid = 0, NEW p \in new,
               shows' = [shows EXCEPT ![p] = row], entries' = Ingest(entries, p, call.key, call.got.n)
        PROVE  shows' \in [Show -> Row] /\ entries' \subseteq Entry /\ EpisodesKeyed' /\ ValidatorsProve'
    <3>1. \A q \in Live : shows[q].url # call.moved /\ shows[q].key # call.key
      BY <2>3
    <3>2. p \in Show \ Live
      OBVIOUS
    <3>3. row \in LiveRow /\ row.key = call.key /\ row.tag = call.got /\ row.url = call.moved
      <4> HIDE DEF call
      <4>1. QED
        BY <1>1 DEF Call, CallOK, LiveRow
    <3> HIDE DEF row
    <3>4. QED
      BY <2>3, <3>1, <3>2, <3>3, InsertKeeps
  <2>4. QED
    BY <2>1, <2>2, <2>3 DEF WriteFeed
<1>4. QED
  BY <1>2, <1>3 DEF WriteFeed, FeedsInv, FeedsTypeOK

LEMMA MoveFeedKeeps ==
  ASSUME FeedsInv, NEW c \in Caller, MoveFeed(c)
  PROVE  FeedsInv'
<1> DEFINE call == feedCall[c]
           p == call.pid
<1>1. call \in Call /\ CallOK(call) /\ call.at = "unchanged"
  BY DEF FeedsInv, FeedsTypeOK, CallsOK, MoveFeed
<1>2. feedCall' \in [Caller -> Call] /\ CallsOK'
  BY FinishesKeeps DEF MoveFeed
<1>3. shows' \in [Show -> Row] /\ EpisodesKeyed' /\ ValidatorsProve'
  <2>1. CASE shows' = shows
    BY <2>1, ShowsStay DEF MoveFeed, FeedsInv, FeedsTypeOK
  <2>2. CASE p \in Live /\ shows' = [shows EXCEPT ![p].url = UrlFor(p, call.moved)]
    <3>1. call.moved \in Url /\ call.key \in Key /\ p \in Show /\ shows[p] \in LiveRow /\ shows \in [Show -> Row]
      BY <1>1, <2>2, LiveRows DEF CallOK, FeedsInv, FeedsTypeOK, Live
    <3>2. UrlFor(p, call.moved) \in Url /\ \A q \in Live \ {p} : shows[q].url # UrlFor(p, call.moved)
      BY <2>2, <3>1, KeysApart
    <3>3. /\ shows' \in [Show -> Row] /\ shows'[p] \in LiveRow /\ shows'[p].url = UrlFor(p, call.moved)
          /\ shows'[p].key = shows[p].key /\ shows'[p].tag = shows[p].tag
          /\ \A q \in Show \ {p} : shows'[q] = shows[q]
      BY <2>2, <3>1, <3>2 DEF LiveRow, Row
    <3>4. entries' = entries
      BY DEF MoveFeed
    <3> HIDE DEF p
    <3>5. QED
      BY <2>2, <3>2, <3>3, <3>4, RowRelabelled
  <2>3. QED
    BY <2>1, <2>2 DEF MoveFeed
<1>4. QED
  BY <1>2, <1>3 DEF MoveFeed, FeedsInv, FeedsTypeOK

LEMMA SetAuthKeeps ==
  ASSUME FeedsInv, NEW p \in Show, NEW login \in Login \cup {NoLogin}, SetAuth(p, login)
  PROVE  FeedsInv'
<1>1. p \in Live /\ shows[p] \in LiveRow /\ shows \in [Show -> Row]
  BY LiveRows DEF SetAuth, FeedsInv, FeedsTypeOK
<1>2. /\ shows' \in [Show -> Row] /\ shows'[p] \in LiveRow /\ shows'[p].url = shows[p].url
      /\ shows'[p].key = shows[p].key /\ shows'[p].tag = shows[p].tag
      /\ \A q \in Show \ {p} : shows'[q] = shows[q]
  BY <1>1 DEF SetAuth, LiveRow, Row
<1>3. \A q \in Live \ {p} : shows[q].url # shows'[p].url
  BY <1>1, <1>2 DEF FeedsInv, EpisodesKeyed
<1>4. EpisodesKeyed' /\ ValidatorsProve'
  BY <1>1, <1>2, <1>3, RowRelabelled DEF SetAuth
<1>5. QED
  BY <1>2, <1>4 DEF SetAuth, FeedsInv, FeedsTypeOK, CallsOK, CallOK

LEMMA RemoveShowKeeps ==
  ASSUME FeedsInv, NEW p \in Show, RemoveShow(p)
  PROVE  FeedsInv'
<1>1. shows' \in [Show -> Row] /\ shows'[p] = NoShow /\ \A q \in Show \ {p} : shows'[q] = shows[q]
  BY DEF RemoveShow, FeedsInv, FeedsTypeOK, Row
<1>2. Live' = Live \ {p}
  BY <1>1 DEF Live
<1>3. entries' = {i \in entries : i.show # p}
  BY DEF RemoveShow
<1>4. EpisodesKeyed'
  <2>1. \A q, r \in Live' : q # r => shows'[q].url # shows'[r].url /\ shows'[q].key # shows'[r].key
    BY <1>1, <1>2 DEF FeedsInv, EpisodesKeyed, Live
  <2>2. \A i \in entries' : i.show \in Live' /\ i.key = shows'[i.show].key
    BY <1>1, <1>2, <1>3 DEF FeedsInv, EpisodesKeyed, Live
  <2>3. QED
    BY <1>3, <2>1, <2>2 DEF FeedsInv, EpisodesKeyed
<1>5. ValidatorsProve'
  <2>1. ASSUME NEW q \in Live', NEW n \in 1..(shows'[q].tag.n)
        PROVE  \E i \in entries' : i.show = q /\ i.n = n
    <3>1. q \in Live /\ q # p /\ shows'[q] = shows[q]
      BY <1>1, <1>2 DEF Live
    <3>2. QED
      BY <1>3, <2>1, <3>1 DEF FeedsInv, ValidatorsProve
  <2>2. QED
    BY <2>1 DEF ValidatorsProve
<1>6. QED
  BY <1>1, <1>3, <1>4, <1>5 DEF RemoveShow, FeedsInv, FeedsTypeOK, CallsOK, CallOK

\* FeedsInv holds at first and every step keeps it.
THEOREM FeedsInvariance == FeedsSpec => []FeedsInv
<1>1. FeedsInit => FeedsInv
  <2> SUFFICES ASSUME FeedsInit PROVE FeedsInv
    OBVIOUS
  <2>1. Live = {}
    BY DEF FeedsInit, Live
  <2>2. FeedsTypeOK
    BY IdleOK, FeedsAssumption DEF FeedsInit, FeedsTypeOK, Row
  <2>3. CallsOK
    BY IdleOK DEF FeedsInit, CallsOK
  <2>4. QED
    BY <2>1, <2>2, <2>3 DEF FeedsInit, FeedsInv, EpisodesKeyed, ValidatorsProve
<1>2. FeedsInv /\ [FeedsNext]_feedVars => FeedsInv'
  <2> SUFFICES ASSUME FeedsInv, [FeedsNext]_feedVars PROVE FeedsInv'
    OBVIOUS
  <2>1. CASE UNCHANGED feedVars
    BY <2>1 DEF feedVars, FeedsInv, FeedsTypeOK, CallsOK, CallOK, EpisodesKeyed, ValidatorsProve, Live
  <2>2. CASE \E u \in Url : Publish(u)
    BY <2>2, PublishKeeps
  <2>3. ASSUME NEW c \in Caller, NEW p \in Show, StartSync(c, p) PROVE FeedsInv'
    BY <2>3, StartSyncKeeps
  <2>4. ASSUME NEW c \in Caller, NEW u \in Url, NEW login \in Login \cup {NoLogin}, NEW replace \in BOOLEAN,
               StartAdd(c, u, login, replace)
        PROVE  FeedsInv'
    BY <2>4, StartAddKeeps
  <2>5. ASSUME NEW c \in Caller, Enumerate(c) \/ DecideShow(c) \/ WriteFeed(c) \/ MoveFeed(c) PROVE FeedsInv'
    BY <2>5, EnumerateKeeps, DecideShowKeeps, WriteFeedKeeps, MoveFeedKeeps
  <2>6. ASSUME NEW p \in Show, RemoveShow(p) \/ \E login \in Login \cup {NoLogin} : SetAuth(p, login) PROVE FeedsInv'
    BY <2>6, RemoveShowKeeps, SetAuthKeeps
  <2>7. QED
    BY <2>1, <2>2, <2>3, <2>4, <2>5, <2>6 DEF FeedsNext
<1>3. QED
  BY <1>1, <1>2, PTL DEF FeedsSpec

(***************************************************************************)
(* "A show already subscribed keeps its stored address and login."         *)
(***************************************************************************)
\* A write that saw the show as it was leaves its address and login, unless it is
\* to replace them.
LEMMA WriteSaw ==
  ASSUME FeedsInv, NEW c \in Caller, feedCall[c].at = "write", NEW p \in Live, WriteTo(c, p),
         feedCall[c].asked = shows[p], feedCall[c].pid # 0
  PROVE  \/ feedCall[c].replace
         \/ feedCall[c].op = "sync" /\ shows'[p].login = shows[p].login
         \/ shows'[p].url = shows[p].url /\ shows'[p].login = shows[p].login
<1> DEFINE call == feedCall[c]
           key == KeyFor(p, call.key)
           url == UrlFor(p, call.moved)
<1>1. call \in Call /\ CallOK(call) /\ p \in Show /\ shows \in [Show -> Row]
  BY DEF FeedsInv, FeedsTypeOK, CallsOK, Live
<1>2. shows' = [shows EXCEPT ![p] = [url |-> url, key |-> key, tag |-> call.got, login |-> LoginAfter(call, p, url)]]
  BY DEF WriteTo
<1>3. shows'[p].url = url /\ shows'[p].login = LoginAfter(call, p, url)
  BY <1>1, <1>2
<1>4. CASE call.op = "sync"
  BY <1>3, <1>4 DEF LoginAfter
<1>5. CASE call.op = "add" /\ ~call.replace
  <2>1. call.login = NoLogin /\ call.moved = shows[p].url
    BY <1>1, <1>5 DEF CallOK
  <2>2. url = shows[p].url
    BY <2>1 DEF UrlFor
  <2>3. QED
    BY <1>3, <1>5, <2>1, <2>2 DEF LoginAfter
<1>6. QED
  BY <1>1, <1>4, <1>5 DEF CallOK, Call

\* Every step keeps the address and the login of the shows no call crossed.
LEMMA AddressStep ==
  ASSUME FeedsInv, [FeedsNext]_feedVars
  PROVE  AddressKept
<1> DEFINE Kept(p) ==
             shows'[p] # NoShow /\ (shows'[p].url # shows[p].url \/ shows'[p].login # shows[p].login) =>
    \/ \E c \in Caller : feedCall[c].pid = p /\ feedCall[c].at \in {"write", "unchanged"} /\ feedCall'[c] = NoCaller
                         /\ (feedCall[c].replace \/ (feedCall[c].op = "sync" /\ shows'[p].login = shows[p].login))
    \/ callsLeft' < callsLeft
<1> SUFFICES ASSUME NEW p \in Live \ crossed' PROVE Kept(p)
  BY DEF AddressKept
<1>1. p \in Show /\ p # 0 /\ shows[p] \in LiveRow /\ shows \in [Show -> Row] /\ callsLeft \in Int
      /\ feedCall \in [Caller -> Call]
  BY LiveRows, NoShowFacts DEF FeedsInv, FeedsTypeOK, Live
<1>2. ASSUME shows'[p] = shows[p] PROVE Kept(p)
  BY <1>2
<1>3. ASSUME NEW c \in Caller, WriteFeed(c) PROVE Kept(p)
  <2> DEFINE call == feedCall[c]
             at == {q \in Live : shows[q].url = call.moved}
             keyed == {q \in Live : shows[q].key = call.key}
             found == IF call.pid # 0 THEN {call.pid} \cap Live ELSE IF at # {} THEN at ELSE keyed
             x == CHOOSE q \in found : TRUE
  <2>1. CallOK(call) /\ call.at = "write" /\ feedCall'[c] = NoCaller
    BY <1>1, <1>3 DEF WriteFeed, FeedsInv, CallsOK, Finishes
  <2>2. CASE found # {} /\ WriteTo(c, x)
    <3>1. x \in Live /\ (call.pid # 0 => x = call.pid)
      BY <2>2
    <3> HIDE DEF x
    <3>2. CASE x # p
      <4>1. shows'[p] = shows[p]
        BY <1>1, <2>2, <3>2 DEF WriteTo
      <4>2. QED
        BY <4>1, <1>2
    <3>3. CASE x = p
      <4>1. call.asked = shows[p]
        BY <2>2, <3>3 DEF WriteTo
      <4>2. call.pid # 0
        BY <1>1, <2>1, <4>1, NoShowFacts DEF CallOK
      <4>3. \/ call.replace
            \/ call.op = "sync" /\ shows'[p].login = shows[p].login
            \/ shows'[p].url = shows[p].url /\ shows'[p].login = shows[p].login
        BY <2>1, <2>2, <3>1, <3>3, <4>1, <4>2, WriteSaw
      <4>4. QED
        BY <2>1, <3>1, <3>3, <4>2, <4>3
    <3>4. QED
      BY <3>2, <3>3
  <2>3. CASE UNCHANGED <<shows, entries, crossed>>
    BY <1>2, <2>3
  <2>4. ASSUME NEW q \in Show \ (Live \cup crossed), NEW row, shows' = [shows EXCEPT ![q] = row]
        PROVE  Kept(p)
    <3>1. shows'[p] = shows[p]
      BY <1>1, <2>4
    <3>2. QED
      BY <1>2, <3>1
  <2>5. QED
    BY <1>3, <2>2, <2>3, <2>4 DEF WriteFeed
<1>4. ASSUME NEW c \in Caller, MoveFeed(c) PROVE Kept(p)
  <2>1. CallOK(feedCall[c]) /\ feedCall[c].at = "unchanged" /\ feedCall'[c] = NoCaller /\ feedCall[c].op = "sync"
    BY <1>1, <1>4 DEF MoveFeed, FeedsInv, CallsOK, CallOK, Finishes
  <2>2. CASE shows' = shows
    BY <1>2, <2>2
  <2>3. CASE shows' = [shows EXCEPT ![feedCall[c].pid].url = UrlFor(feedCall[c].pid, feedCall[c].moved)]
    <3>1. CASE feedCall[c].pid = p
      <4>1. shows'[p].login = shows[p].login
        BY <1>1, <2>3, <3>1 DEF LiveRow
      <4>2. QED
        BY <2>1, <3>1, <4>1
    <3>2. CASE feedCall[c].pid # p
      <4>1. shows'[p] = shows[p]
        BY <1>1, <2>3, <3>2
      <4>2. QED
        BY <1>2, <4>1
    <3>3. QED
      BY <3>1, <3>2
  <2>4. QED
    BY <1>4, <2>2, <2>3 DEF MoveFeed
<1>5. ASSUME NEW q \in Show, RemoveShow(q) \/ \E login \in Login \cup {NoLogin} : SetAuth(q, login) PROVE Kept(p)
  <2>1. callsLeft' < callsLeft
    BY <1>1, <1>5 DEF RemoveShow, SetAuth
  <2>2. QED
    BY <2>1
<1> HIDE DEF Kept
<1>6. ASSUME UNCHANGED shows PROVE Kept(p)
  BY <1>2, <1>6
<1>7. CASE \E u \in Url : Publish(u)
  BY <1>6, <1>7 DEF Publish
<1>8. ASSUME NEW c \in Caller, Enumerate(c) \/ DecideShow(c) PROVE Kept(p)
  BY <1>6, <1>8 DEF Enumerate, DecideShow
<1>9. ASSUME NEW c \in Caller, NEW call, Begins(c, call) PROVE Kept(p)
  BY <1>6, <1>9 DEF Begins
<1>10. ASSUME NEW c \in Caller, NEW q \in Show, StartSync(c, q) PROVE Kept(p)
  BY <1>9, <1>10 DEF StartSync
<1>11. ASSUME NEW c \in Caller, NEW u \in Url, NEW login \in Login \cup {NoLogin}, NEW replace \in BOOLEAN,
              StartAdd(c, u, login, replace)
       PROVE  Kept(p)
  BY <1>9, <1>11 DEF StartAdd
<1>12. CASE UNCHANGED feedVars
  BY <1>6, <1>12 DEF feedVars
<1>13. QED
  BY <1>3, <1>4, <1>5, <1>7, <1>8, <1>10, <1>11, <1>12 DEF FeedsNext

\* Whatever callers add, sync, move and remove, and however their calls cross: episodes
\* stay keyed one by one, stored validators prove what was committed, and a subscribed
\* show keeps its address and login (podcast.go).
THEOREM FeedsHoldAlways == FeedsSpec => FeedsHold
<1>1. FeedsInv => EpisodesKeyed /\ ValidatorsProve
  BY DEF FeedsInv
<1>2. FeedsInv /\ [FeedsNext]_feedVars => [AddressKept]_feedVars
  BY AddressStep
<1>3. QED
  BY <1>1, <1>2, FeedsInvariance, PTL DEF FeedsSpec, FeedsHold

-----------------------------------------------------------------------------
(***************************************************************************)
(* Episode files.  Whoever has the lease is the only one to change rows    *)
(* and files in place, and a call that has it has read the rows since, so  *)
(* what a call notes of its episode holds at each of its steps; a part     *)
(* file has one writer unless two calls for the episode overlap, which     *)
(* excuses it.                                                             *)
(***************************************************************************)
File == [chunks : SUBSET Whole, writers : SUBSET Worker, there : BOOLEAN]
EpisodeRow == [in : BOOLEAN, row : Name \cup {0}, name : Name, pinned : BOOLEAN]

\* Where a call stands that puts a file in place, or that drops files, and where it has
\* the lease.
Puts == {"create", "fetch1", "fetch2", "leaseWait", "leaseImport", "rename", "move", "attach", "supersede"}
Drops == {"unlink", "drop", "remove"}
HasLease == {"rename", "move", "attach", "supersede"} \cup Drops

PodCall == [at : {"idle"} \cup Puts \cup Drops, ep : Episode \cup {0}, dst : Name \cup {0}, prior : Name \cup {0},
            left : SUBSET (Episode \X Name), import : BOOLEAN]

PodTypeOK ==
  /\ episodes \in [Episode -> EpisodeRow]
  /\ tree \in [Place -> File]
  /\ podLease \in Worker \cup {NoWorker}
  /\ pod \in [Worker -> PodCall]

CallFits(call) ==
  /\ call.at = "idle" => call = NoOp
  /\ call.at \in Puts => call.ep \in Episode /\ call.dst \in Name /\ call.left = {}
  /\ call.at \in Drops => call.ep = 0
  /\ call.import => call.at \in {"leaseImport", "move", "attach", "supersede"} /\ call.prior = 0
  /\ call.at \in {"leaseImport", "move"} => call.import

LeaseOK == \A w \in Worker : CallFits(pod[w]) /\ (podLease = w <=> pod[w].at \in HasLease)

\* A file is written by the fetches of its episode only.
WritersOK == \A p \in Place, w \in Worker :
  w \in tree[p].writers => pod[w].at \in {"fetch1", "fetch2"} /\ pod[w].ep = p[1]

\* Rows change under the lease only: a call's notes of them hold while it has it.
RowsOK ==
  /\ \A e \in Episode : ~episodes[e].in => episodes[e].row = 0
  /\ \A w \in Worker : pod[w].at = "supersede" => episodes[pod[w].ep].row = pod[w].dst
  /\ \A w \in Worker : pod[w].at \in {"unlink", "drop"} => \A f \in pod[w].left : episodes[f[1]].row = f[2]
  /\ \A w \in Worker : pod[w].at = "remove" => \A f \in pod[w].left : ~episodes[f[1]].in

(* One call at a time puts a file in place for the episode. *)
Alone(e) == \A v, w \in Worker : pod[v].ep = e /\ pod[w].ep = e => v = w

\* What the call that puts a file in place for e has of it, and the row it finds.
PutOK(w, e) ==
  /\ pod[w].at \in {"fetch1", "fetch2"} => w \in tree[Part(e, pod[w].dst)].writers
  /\ pod[w].at = "fetch2" => 1 \in tree[Part(e, pod[w].dst)].chunks
  /\ pod[w].at \in {"leaseWait", "rename"} => tree[Part(e, pod[w].dst)].chunks = Whole
  /\ pod[w].at = "attach" => There(At(e, pod[w].dst)) /\ tree[At(e, pod[w].dst)].chunks = Whole
  /\ ~pod[w].import /\ pod[w].at # "supersede" => episodes[e].row \in {0, pod[w].prior}

Dropped(e) == \E w \in Worker : pod[w].at = "drop" /\ \E f \in pod[w].left : Heads(w, f) /\ f[1] = e

\* The row's file is whole, but between the unlink and the drop of the row.
Intact(e) ==
  Filed(e) => \/ There(At(e, episodes[e].row)) /\ tree[At(e, episodes[e].row)].chunks = Whole
              \/ Dropped(e)

\* A file no row names has been put there by a call that has yet to attach it, or waits
\* for the call that has its removal to do.
Accounted(e) == \A n \in Name : There(At(e, n)) /\ episodes[e].row # n =>
  \E w \in Worker :
    \/ pod[w].ep = e /\ pod[w].at = "attach" /\ pod[w].dst = n
    \/ pod[w].ep = e /\ pod[w].at = "supersede" /\ ~pod[w].import /\ pod[w].prior = n
    \/ pod[w].at = "remove" /\ <<e, n>> \in pod[w].left

\* The file of the episode whose row is about to be dropped is gone.
GoneFirst == \A w \in Worker : pod[w].at = "drop" => \A f \in pod[w].left : Heads(w, f) => ~There(At(f[1], f[2]))

EpisodeOK(e) ==
  /\ Alone(e)
  /\ \A w \in Worker : pod[w].ep = e => PutOK(w, e)
  /\ Intact(e)
  /\ Accounted(e)

\* The inductive invariant of PodSpec.
PodInv ==
  /\ PodTypeOK /\ LeaseOK /\ WritersOK /\ RowsOK /\ GoneFirst
  /\ \A e \in Episode \ excuse : EpisodeOK(e)

(***************************************************************************)
(* Places.                                                                 *)
(***************************************************************************)
LEMMA Places ==
  ASSUME NEW e \in Episode, NEW n \in Name
  PROVE  /\ At(e, n) \in Place /\ Part(e, n) \in Place /\ At(e, n)[1] = e /\ Part(e, n)[1] = e
         /\ \A d \in Episode, m \in Name : /\ At(e, n) # Part(d, m)
                                           /\ At(e, n) = At(d, m) <=> e = d /\ n = m
                                           /\ Part(e, n) = Part(d, m) <=> e = d /\ n = m
  BY DEF Place, At, Part

LEMMA PodNames == 0 \notin Episode /\ 0 \notin Name /\ NoWorker \notin Worker /\ NoFile \in File /\ WholeFile \in File
                  /\ FirstName \in Name
  BY PodcastAssumption DEF NoWorker, NoFile, WholeFile, File, Whole, FirstName

LEMMA IdlePod == NoOp \in PodCall /\ CallFits(NoOp)
  BY PodNames DEF NoOp, PodCall, CallFits, Puts, Drops

\* An invariant of PodSpec that implies what the runs check.
LEMMA PodInvHolds == PodInv => EpisodesHold
<1> SUFFICES ASSUME PodInv PROVE EpisodesHold
  OBVIOUS
<1>1. PresentIsWhole
  <2> SUFFICES ASSUME NEW e \in Episode \ excuse, Filed(e)
               PROVE  \/ There(At(e, episodes[e].row)) /\ tree[At(e, episodes[e].row)].chunks = Whole
                      \/ podLease # NoWorker /\ \E f \in pod[podLease].left : f[1] = e
    BY DEF PresentIsWhole
  <2>1. Intact(e)
    BY DEF PodInv, EpisodeOK
  <2>2. CASE Dropped(e)
    <3>1. PICK w \in Worker : pod[w].at = "drop" /\ \E f \in pod[w].left : f[1] = e
      BY <2>2 DEF Dropped
    <3>2. podLease = w
      BY <3>1 DEF PodInv, LeaseOK, HasLease, Drops
    <3>3. QED
      BY <3>1, <3>2, PodNames
  <2>3. QED
    BY <2>1, <2>2 DEF Intact
<1>2. NoOrphan
  <2> SUFFICES ASSUME \A w \in Worker : pod[w] = NoOp, NEW e \in Episode, NEW n \in Name,
                      There(At(e, n)), episodes[e].row # n, e \notin excuse
               PROVE  FALSE
    BY DEF NoOrphan, Orphans
  <2>1. Accounted(e)
    BY DEF PodInv, EpisodeOK
  <2>2. \A w \in Worker : pod[w].ep = 0 /\ pod[w].at = "idle"
    BY DEF NoOp
  <2>3. QED
    BY <2>1, <2>2, PodNames DEF Accounted
<1>3. QED
  BY <1>1, <1>2 DEF EpisodesHold

(***************************************************************************)
(* What a step of one worker leaves of the others and of other episodes.   *)
(***************************************************************************)
Stays(w) == \A v \in Worker \ {w} : pod'[v] = pod[v]

LEMMA PodTypes ==
  ASSUME PodInv
  PROVE  /\ PodTypeOK /\ LeaseOK /\ WritersOK /\ RowsOK /\ GoneFirst
         /\ \A e \in Episode : episodes[e] \in EpisodeRow
         /\ \A p \in Place : tree[p] \in File
         /\ \A w \in Worker : pod[w] \in PodCall /\ CallFits(pod[w])
  BY DEF PodInv, PodTypeOK, LeaseOK

\* An episode that the step's call is not for stays in order.
LEMMA OtherEpisode ==
  ASSUME PodInv, NEW w \in Worker, NEW e \in Episode \ excuse,
         Stays(w), pod[w].ep # e, pod'[w].ep # e,
         \A f \in pod[w].left : pod[w].at = "drop" /\ Heads(w, f) => f[1] # e,
         \A n \in Name : pod[w].at = "remove" /\ <<e, n>> \in pod[w].left => pod'[w].at = "remove" /\ <<e, n>> \in pod'[w].left,
         episodes'[e].row = episodes[e].row,
         \A n \in Name : /\ tree'[At(e, n)].there = tree[At(e, n)].there
                         /\ tree'[At(e, n)].chunks = tree[At(e, n)].chunks
                         /\ tree'[Part(e, n)].chunks = tree[Part(e, n)].chunks
                         /\ \A v \in Worker \ {w} : v \in tree[Part(e, n)].writers => v \in tree'[Part(e, n)].writers
  PROVE  EpisodeOK(e)'
<1>1. EpisodeOK(e)
  BY DEF PodInv
<1>2. \A v \in Worker : pod'[v].ep = e <=> v # w /\ pod[v].ep = e
  BY DEF Stays
<1>3. Alone(e)'
  BY <1>1, <1>2 DEF EpisodeOK, Alone
<1>4. ASSUME NEW v \in Worker, pod'[v].ep = e
      PROVE  PutOK(v, e)'
  <2>1. v # w /\ pod'[v] = pod[v] /\ pod[v].ep = e /\ PutOK(v, e)
    BY <1>1, <1>2, <1>4 DEF Stays, EpisodeOK
  <2>2. pod[v].at \in Puts => pod[v].dst \in Name
    BY PodTypes DEF CallFits
  <2>3. QED
    BY <2>1, <2>2 DEF PutOK, There, Puts
<1>5. Intact(e)'
  <2>1. ASSUME Filed(e)' PROVE episodes[e].row \in Name /\ Filed(e)
    BY <2>1, PodTypes DEF EpisodeRow, Filed
  <2>2. ASSUME Dropped(e) PROVE Dropped(e)'
    <3>1. PICK v \in Worker : pod[v].at = "drop" /\ \E f \in pod[v].left : Heads(v, f) /\ f[1] = e
      BY <2>2 DEF Dropped
    <3>2. v # w /\ pod'[v] = pod[v]
      BY <3>1 DEF Stays
    <3>3. QED
      BY <3>1, <3>2 DEF Dropped, Heads
  <2>3. QED
    BY <1>1, <2>1, <2>2 DEF EpisodeOK, Intact, There, Filed
<1>6. Accounted(e)'
  BY <1>1 DEF EpisodeOK, Accounted, There, Stays
<1>7. QED
  BY <1>3, <1>4, <1>5, <1>6 DEF EpisodeOK

\* A step that leaves the rows and only moves one call within the calls of its kind.
LEMMA CallStep ==
  ASSUME PodInv, NEW w \in Worker, NEW call \in PodCall, CallFits(call), pod' = [pod EXCEPT ![w] = call],
         podLease' \in Worker \cup {NoWorker},
         podLease' = w <=> call.at \in HasLease,
         podLease' # w => podLease' = (IF podLease = w THEN NoWorker ELSE podLease),
         podLease' = w => podLease \in {w, NoWorker}
  PROVE  pod' \in [Worker -> PodCall] /\ LeaseOK' /\ Stays(w) /\ pod'[w] = call
<1>1. pod \in [Worker -> PodCall]
  BY DEF PodInv, PodTypeOK
<1>2. pod' \in [Worker -> PodCall] /\ Stays(w) /\ pod'[w] = call
  BY <1>1 DEF Stays
<1>3. \A v \in Worker : CallFits(pod'[v]) /\ (podLease' = v <=> pod'[v].at \in HasLease)
  BY <1>2, PodNames DEF PodInv, LeaseOK, Stays
<1>4. LeaseOK'
  BY <1>3 DEF LeaseOK, CallFits
<1>5. QED
  BY <1>2, <1>4

(***************************************************************************)
(* Downloads and imports.                                                  *)
(***************************************************************************)
\* The part of the invariant that is not about single episodes, for a step that leaves
\* the rows and the tree.
LEMMA QuietStep ==
  ASSUME PodInv, NEW w \in Worker, UNCHANGED <<episodes, tree>>, Stays(w),
         pod'[w].at # "supersede",
         pod[w].at \notin {"fetch1", "fetch2"},
         pod'[w].at \in {"unlink", "drop"} =>
           \A f \in pod'[w].left : episodes[f[1]].row = f[2],
         pod'[w].at = "remove" => pod[w].at = "remove" /\ pod'[w].left = pod[w].left,
         pod'[w].at # "drop"
  PROVE  WritersOK' /\ RowsOK' /\ GoneFirst'
<1>1. WritersOK'
  BY PodTypes DEF WritersOK, Stays
<1>2. RowsOK'
  BY PodTypes DEF RowsOK, Stays
<1>3. \A v \in Worker : pod'[v].at = "drop" => v # w /\ pod'[v] = pod[v] /\ pod[v].at = "drop"
  BY DEF Stays
<1>4. GoneFirst'
  BY <1>3, PodTypes DEF GoneFirst, Heads, There
<1>5. QED
  BY <1>1, <1>2, <1>4

LEMMA StartPutKeeps ==
  ASSUME PodInv, NEW w \in Worker, NEW e \in Episode, NEW call \in PodCall,
         call.at \in {"create", "leaseImport"}, call.ep = e, CallFits(call),
         call.at = "create" => call.prior = episodes[e].row,
         pod[w] = NoOp, pod' = [pod EXCEPT ![w] = call],
         UNCHANGED <<episodes, tree, podLease>>,
         excuse' = IF Overlaps(w, e) THEN excuse \cup {e} ELSE excuse
  PROVE  PodInv'
<1>1. /\ pod[w].at = "idle" /\ pod[w].ep = 0 /\ pod[w].left = {}
      /\ podLease # w /\ call.at \notin HasLease
  BY DEF PodInv, LeaseOK, NoOp, HasLease, Drops
<1>2. pod' \in [Worker -> PodCall] /\ LeaseOK' /\ Stays(w) /\ pod'[w] = call
  BY <1>1, CallStep, PodTypes DEF PodTypeOK
<1>3. WritersOK' /\ RowsOK' /\ GoneFirst'
  BY <1>1, <1>2, QuietStep
<1>4. ASSUME NEW d \in Episode \ excuse', d # e
      PROVE  EpisodeOK(d)'
  BY <1>1, <1>2, <1>4, PodNames, OtherEpisode
<1>5. ASSUME e \notin excuse'
      PROVE  EpisodeOK(e)'
  <2>1. ~Overlaps(w, e) /\ e \notin excuse /\ EpisodeOK(e)
    BY <1>5 DEF PodInv
  <2>2. \A v \in Worker \ {w} : pod[v].ep # e
    <3> SUFFICES ASSUME NEW v \in Worker \ {w}, pod[v].ep = e PROVE FALSE
      OBVIOUS
    <3>1. pod[v].at = "idle"
      BY <2>1 DEF Overlaps
    <3>2. QED
      BY <3>1, PodTypes, PodNames DEF CallFits, NoOp
  <2>3. \A v \in Worker : pod'[v].ep = e <=> v = w
    BY <1>2, <2>2 DEF Stays
  <2>4. Alone(e)'
    BY <2>3 DEF Alone
  <2>5. \A v \in Worker : pod'[v].ep = e => PutOK(v, e)'
    BY <1>2, <2>3, PodTypes DEF PutOK, CallFits
  <2>6. Intact(e)'
    <3>1. ASSUME Dropped(e) PROVE Dropped(e)'
      BY <1>1, <1>2, <3>1 DEF Dropped, Heads, Stays
    <3>2. QED
      BY <2>1, <3>1 DEF EpisodeOK, Intact, There, Filed
  <2>7. Accounted(e)'
    BY <1>1, <1>2, <2>1 DEF EpisodeOK, Accounted, There, Stays
  <2>8. QED
    BY <2>4, <2>5, <2>6, <2>7 DEF EpisodeOK
<1>6. QED
  BY <1>2, <1>3, <1>4, <1>5, PodTypes DEF PodInv, PodTypeOK

LEMMA StartDownloadKeeps ==
  ASSUME PodInv, NEW w \in Worker, NEW e \in Episode, StartDownload(w, e)
  PROVE  PodInv'
<1> DEFINE call == [at |-> "create", ep |-> e, dst |-> episodes[e].name, prior |-> episodes[e].row, left |-> {}, import |-> FALSE]
<1>1. call \in PodCall /\ CallFits(call)
  BY PodTypes DEF PodCall, CallFits, EpisodeRow, Puts, Drops
<1>2. /\ pod[w] = NoOp /\ pod' = [pod EXCEPT ![w] = call] /\ UNCHANGED <<episodes, tree, podLease>>
      /\ excuse' = IF Overlaps(w, e) THEN excuse \cup {e} ELSE excuse
  BY DEF StartDownload, Starts
<1>3. call.at = "create" /\ call.ep = e /\ call.prior = episodes[e].row
  OBVIOUS
<1> HIDE DEF call
<1>4. QED
  BY <1>1, <1>2, <1>3, StartPutKeeps

LEMMA StartImportKeeps ==
  ASSUME PodInv, NEW w \in Worker, NEW e \in Episode, NEW n \in Name, StartImport(w, e, n)
  PROVE  PodInv'
<1> DEFINE call == [at |-> "leaseImport", ep |-> e, dst |-> n, prior |-> 0, left |-> {}, import |-> TRUE]
<1>1. call \in PodCall /\ CallFits(call)
  BY DEF PodCall, CallFits, Puts, Drops
<1>2. /\ pod[w] = NoOp /\ pod' = [pod EXCEPT ![w] = call] /\ UNCHANGED <<episodes, tree, podLease>>
      /\ excuse' = IF Overlaps(w, e) THEN excuse \cup {e} ELSE excuse
  BY DEF StartImport, Starts
<1>3. call.at = "leaseImport" /\ call.ep = e
  OBVIOUS
<1> HIDE DEF call
<1>4. QED
  BY <1>1, <1>2, <1>3, StartPutKeeps

\* A call that moves on keeps what it knows; one that returns is idle.
LEMMA MovesTo ==
  ASSUME PodInv, NEW w \in Worker, pod[w].at \in Puts, NEW at \in Puts, Moves(w, at),
         pod[w].import => at \in {"leaseImport", "move", "attach", "supersede"},
         at \in {"leaseImport", "move"} => pod[w].import,
         podLease' \in Worker \cup {NoWorker},
         podLease' = w <=> at \in HasLease,
         podLease' # w => podLease' = (IF podLease = w THEN NoWorker ELSE podLease),
         podLease' = w => podLease \in {w, NoWorker}
  PROVE  /\ pod' \in [Worker -> PodCall] /\ LeaseOK' /\ Stays(w)
         /\ pod'[w].at = at /\ pod'[w].ep = pod[w].ep /\ pod'[w].dst = pod[w].dst
         /\ pod'[w].prior = pod[w].prior /\ pod'[w].left = {} /\ pod'[w].import = pod[w].import
         /\ pod[w].left = {} /\ pod[w].ep \in Episode /\ pod[w].dst \in Name
<1> DEFINE call == [pod[w] EXCEPT !.at = at]
<1>1. pod[w] \in PodCall /\ CallFits(pod[w])
  BY PodTypes
<1>2. call \in PodCall /\ CallFits(call)
  BY <1>1 DEF PodCall, CallFits, Puts, Drops
<1>3. pod' = [pod EXCEPT ![w] = call]
  BY DEF Moves
<1>4. /\ call.at = at /\ call.ep = pod[w].ep /\ call.dst = pod[w].dst
      /\ call.prior = pod[w].prior /\ call.left = pod[w].left /\ call.import = pod[w].import
  BY <1>1 DEF PodCall
<1> HIDE DEF call
<1>5. pod' \in [Worker -> PodCall] /\ LeaseOK' /\ Stays(w) /\ pod'[w] = call
  BY <1>2, <1>3, <1>4, CallStep
<1>6. QED
  BY <1>1, <1>4, <1>5 DEF CallFits

LEMMA ReturnsTo ==
  ASSUME PodInv, NEW w \in Worker, Returns(w)
  PROVE  /\ pod' \in [Worker -> PodCall] /\ LeaseOK' /\ Stays(w)
         /\ pod'[w] = NoOp /\ pod'[w].at = "idle" /\ pod'[w].ep = 0 /\ pod'[w].left = {}
         /\ podLease' \in Worker \cup {NoWorker}
<1>1. pod' = [pod EXCEPT ![w] = NoOp] /\ podLease' = (IF podLease = w THEN NoWorker ELSE podLease)
  BY DEF Returns
<1>2. NoOp.at \notin HasLease /\ NoOp.at = "idle" /\ NoOp.ep = 0 /\ NoOp.left = {}
  BY DEF NoOp, HasLease, Drops
<1>3. podLease' \in Worker \cup {NoWorker} /\ podLease' # w
  BY <1>1, PodNames, PodTypes DEF PodTypeOK
<1>4. QED
  BY <1>1, <1>2, <1>3, IdlePod, CallStep

\* Nobody else has the lease, or drops files, beside a call that has it.
LEMMA LeasedAlone ==
  ASSUME PodInv, NEW w \in Worker, pod[w].at \in HasLease
  PROVE  podLease = w /\ \A v \in Worker \ {w} : pod[v].at \notin HasLease
  BY DEF PodInv, LeaseOK

\* A step of a call that puts a file in place for e is about e alone, and about its
\* rows and files under the lease.
LEMMA PutStep ==
  ASSUME PodInv, NEW w \in Worker, NEW e \in Episode, pod[w].ep = e, pod[w].at \in Puts,
         pod' \in [Worker -> PodCall], LeaseOK', Stays(w), pod'[w].ep \in {e, 0}, pod'[w].at \notin Drops,
         podLease' \in Worker \cup {NoWorker}, tree' \in [Place -> File], WritersOK',
         episodes' \in [Episode -> EpisodeRow], \A d \in Episode \ {e} : episodes'[d] = episodes[d],
         ~episodes'[e].in => episodes'[e].row = 0,
         pod'[w].at = "supersede" => pod'[w].ep = e /\ episodes'[e].row = pod'[w].dst,
         \A d \in Episode \ {e}, m \in Name :
           /\ tree'[At(d, m)].there = tree[At(d, m)].there
           /\ tree'[At(d, m)].chunks = tree[At(d, m)].chunks
           /\ tree'[Part(d, m)].chunks = tree[Part(d, m)].chunks
           /\ \A v \in Worker \ {w} : v \in tree[Part(d, m)].writers => v \in tree'[Part(d, m)].writers,
         \/ pod[w].at \in HasLease
         \/ episodes' = episodes /\ \A m \in Name : tree'[At(e, m)].there = tree[At(e, m)].there,
         excuse \subseteq excuse',
         e \notin excuse' => /\ pod'[w].ep = e => PutOK(w, e)'
                             /\ Intact(e)' /\ Accounted(e)'
  PROVE  PodInv'
<1>1. pod[w].left = {} /\ pod[w].at \notin Drops
  BY PodTypes DEF CallFits, Puts, Drops
<1>2. ASSUME NEW v \in Worker \ {w}, pod[v].at \in {"supersede", "unlink", "drop", "remove"}
      PROVE  episodes' = episodes /\ \A m \in Name : tree'[At(e, m)].there = tree[At(e, m)].there
  BY <1>2, LeasedAlone DEF HasLease, Drops
<1>3. RowsOK'
  <2>1. \A d \in Episode : ~episodes'[d].in => episodes'[d].row = 0
    BY PodTypes DEF RowsOK
  <2>2. ASSUME NEW v \in Worker, pod'[v].at = "supersede" PROVE episodes'[pod'[v].ep].row = pod'[v].dst
    BY <1>2, <2>2, PodTypes DEF RowsOK, Stays
  <2>3. ASSUME NEW v \in Worker, pod'[v].at \in {"unlink", "drop"}, NEW f \in pod'[v].left
        PROVE  episodes'[f[1]].row = f[2]
    <3>1. v # w /\ pod'[v] = pod[v]
      BY <2>3 DEF Stays, Drops
    <3>2. QED
      BY <1>2, <2>3, <3>1, PodTypes DEF RowsOK
  <2>4. ASSUME NEW v \in Worker, pod'[v].at = "remove", NEW f \in pod'[v].left
        PROVE  ~episodes'[f[1]].in
    <3>1. v # w /\ pod'[v] = pod[v]
      BY <2>4 DEF Stays, Drops
    <3>2. QED
      BY <1>2, <2>4, <3>1, PodTypes DEF RowsOK
  <2>5. QED
    BY <2>1, <2>2, <2>3, <2>4 DEF RowsOK
<1>4. GoneFirst'
  <2>1. ASSUME NEW v \in Worker, pod'[v].at = "drop", NEW f \in pod'[v].left, Heads(v, f)'
        PROVE  ~There(At(f[1], f[2]))'
    <3>1. v # w /\ pod'[v] = pod[v] /\ f \in pod[v].left /\ Heads(v, f)
      BY <2>1 DEF Stays, Drops, Heads
    <3>2. ~There(At(f[1], f[2]))
      BY <2>1, <3>1, PodTypes DEF GoneFirst
    <3>3. f[1] \in Episode /\ f[2] \in Name
      BY <3>1, PodTypes DEF PodCall
    <3>4. QED
      BY <1>2, <2>1, <3>1, <3>2, <3>3 DEF There
  <2>2. QED
    BY <2>1 DEF GoneFirst
<1>5. ASSUME NEW d \in Episode \ excuse', d # e
      PROVE  EpisodeOK(d)'
  <2>1. pod'[w].ep # d /\ d \notin excuse
    BY <1>5, PodNames
  <2>2. QED
    BY <1>1, <1>5, <2>1, OtherEpisode DEF Drops
<1>6. ASSUME e \notin excuse'
      PROVE  EpisodeOK(e)'
  <2>1. Alone(e)
    BY <1>6 DEF PodInv, EpisodeOK
  <2>2. \A v \in Worker : pod'[v].ep = e => v = w
    BY <2>1 DEF Alone, Stays
  <2>3. QED
    BY <1>6, <2>2 DEF EpisodeOK, Alone
<1>7. QED
  BY <1>3, <1>4, <1>5, <1>6, PodTypes DEF PodInv, PodTypeOK

\* What holds of the episode of a call before its step.
LEMMA OwnEpisode ==
  ASSUME PodInv, NEW w \in Worker, NEW e \in Episode, pod[w].ep = e, pod[w].at \in Puts, e \notin excuse
  PROVE  /\ PutOK(w, e) /\ Intact(e) /\ Accounted(e)
         /\ \A v \in Worker \ {w} : pod[v].ep # e
         /\ pod[w].at \in HasLease =>
              /\ Filed(e) => There(At(e, episodes[e].row)) /\ tree[At(e, episodes[e].row)].chunks = Whole
              /\ \A m \in Name : There(At(e, m)) /\ episodes[e].row # m =>
                   \/ pod[w].at = "attach" /\ pod[w].dst = m
                   \/ pod[w].at = "supersede" /\ ~pod[w].import /\ pod[w].prior = m
<1>1. EpisodeOK(e) /\ pod[w].left = {} /\ pod[w].at \notin Drops
  BY PodTypes DEF PodInv, CallFits, Puts, Drops
<1>2. \A v \in Worker \ {w} : pod[v].ep # e
  BY <1>1 DEF EpisodeOK, Alone
<1>3. ASSUME pod[w].at \in HasLease, NEW v \in Worker PROVE pod[v].at \notin Drops
  BY <1>1, <1>3, LeasedAlone DEF HasLease
<1>4. ASSUME pod[w].at \in HasLease PROVE ~Dropped(e)
  BY <1>3, <1>4 DEF Dropped, Drops
<1>5. QED
  BY <1>1, <1>2, <1>3, <1>4 DEF EpisodeOK, Intact, Accounted, Drops

\* A step that leaves the files in place and the rows as they were leaves what holds
\* of them.
LEMMA FilesStay ==
  ASSUME PodInv, NEW w \in Worker, NEW e \in Episode, pod[w].at \in Puts, Stays(w), UNCHANGED episodes,
         \A m \in Name : /\ tree'[At(e, m)].there = tree[At(e, m)].there
                         /\ tree[At(e, m)].chunks = Whole => tree'[At(e, m)].chunks = Whole,
         pod[w].at \in {"attach", "supersede"} => pod'[w] = pod[w],
         Intact(e), Accounted(e)
  PROVE  Intact(e)' /\ Accounted(e)'
<1>1. pod[w].at \notin Drops
  BY DEF Puts, Drops
<1>2. Intact(e)'
  <2>1. ASSUME Dropped(e) PROVE Dropped(e)'
    BY <1>1, <2>1 DEF Dropped, Heads, Stays, Drops
  <2>2. Filed(e) => episodes[e].row \in Name
    BY PodTypes DEF EpisodeRow, Filed
  <2>3. QED
    BY <2>1, <2>2 DEF Intact, There, Filed
<1>3. Accounted(e)'
  BY <1>1 DEF Accounted, There, Stays, Drops
<1>4. QED
  BY <1>2, <1>3

LEMMA CreatePartKeeps ==
  ASSUME PodInv, NEW w \in Worker, NEW e \in Episode, NEW n \in Name, pod[w].ep = e, pod[w].dst = n, CreatePart(w)
  PROVE  PodInv'
<1>1. pod[w].at = "create" /\ pod[w].at \in Puts /\ pod[w].at \notin HasLease /\ podLease # w /\ ~pod[w].import
  BY PodTypes DEF CreatePart, Puts, LeaseOK, HasLease, Drops, CallFits
<1>2. /\ pod' \in [Worker -> PodCall] /\ LeaseOK' /\ Stays(w)
      /\ pod'[w].at = "fetch1" /\ pod'[w].ep = e /\ pod'[w].dst = n
      /\ pod'[w].prior = pod[w].prior /\ ~pod'[w].import
  BY <1>1, MovesTo, PodTypes DEF CreatePart, PodTypeOK, Puts, HasLease, Drops
<1>3. Part(e, n) \in Place /\ Part(e, n)[1] = e
  BY Places
<1>4. /\ tree' \in [Place -> File]
      /\ tree'[Part(e, n)].writers = tree[Part(e, n)].writers \cup {w}
      /\ \A q \in Place \ {Part(e, n)} : tree'[q] = tree[q]
  BY <1>3, PodTypes DEF CreatePart, PodTypeOK, File
<1>5. \A d \in Episode, m \in Name :
        /\ At(d, m) \in Place /\ Part(d, m) \in Place /\ tree'[At(d, m)] = tree[At(d, m)]
        /\ d # e => tree'[Part(d, m)] = tree[Part(d, m)]
  BY <1>4, Places
<1>6. WritersOK'
  BY <1>1, <1>2, <1>3, <1>4, PodTypes DEF WritersOK, Stays
<1>7. episodes' = episodes /\ excuse' = excuse /\ podLease' = podLease
  BY DEF CreatePart, NoFault
<1>8. ASSUME e \notin excuse
      PROVE  PutOK(w, e)' /\ Intact(e)' /\ Accounted(e)'
  <2>1. PutOK(w, e) /\ Intact(e) /\ Accounted(e)
    BY <1>1, <1>8, OwnEpisode
  <2>2. PutOK(w, e)'
    BY <1>1, <1>2, <1>4, <1>7, <2>1 DEF PutOK
  <2>3. QED
    BY <1>1, <1>2, <1>5, <1>7, <2>1, <2>2, FilesStay
<1>9. QED
  BY <1>1, <1>2, <1>4, <1>5, <1>6, <1>7, <1>8, PutStep, PodTypes DEF PodTypeOK, RowsOK, Drops

LEMMA WriteChunkKeeps ==
  ASSUME PodInv, NEW w \in Worker, NEW e \in Episode, NEW n \in Name, pod[w].ep = e, pod[w].dst = n, WriteChunk(w)
  PROVE  PodInv'
<1>1. /\ pod[w].at \in {"fetch1", "fetch2"} /\ pod[w].at \in Puts /\ pod[w].at \notin HasLease
      /\ podLease # w /\ ~pod[w].import
  BY PodTypes DEF WriteChunk, Puts, LeaseOK, HasLease, Drops, CallFits
<1> DEFINE at == IF pod[w].at = "fetch1" THEN "fetch2" ELSE "leaseWait"
<1>2. /\ pod' \in [Worker -> PodCall] /\ LeaseOK' /\ Stays(w)
      /\ pod'[w].at = at /\ pod'[w].ep = e /\ pod'[w].dst = n
      /\ pod'[w].prior = pod[w].prior /\ ~pod'[w].import
  BY <1>1, MovesTo, PodTypes DEF WriteChunk, PodTypeOK, Puts, HasLease, Drops
<1>3. /\ tree' \in [Place -> File]
      /\ \A q \in Place :
           /\ w \notin tree[q].writers => tree'[q] = tree[q]
           /\ tree'[q].there = tree[q].there /\ tree[q].chunks \subseteq tree'[q].chunks
           /\ \A v \in Worker \ {w} : v \in tree[q].writers <=> v \in tree'[q].writers
           /\ pod[w].at = "fetch1" /\ w \in tree[q].writers => w \in tree'[q].writers /\ 1 \in tree'[q].chunks
           /\ pod[w].at = "fetch2" => w \notin tree'[q].writers
           /\ pod[w].at = "fetch2" /\ w \in tree[q].writers => 2 \in tree'[q].chunks
  BY <1>1, PodTypes DEF WriteChunk, File, Whole
<1>4. \A d \in Episode, m \in Name : At(d, m) \in Place /\ Part(d, m) \in Place /\ At(d, m)[1] = d /\ Part(d, m)[1] = d
  BY Places
<1>5. \A d \in Episode \ {e}, m \in Name : tree'[At(d, m)] = tree[At(d, m)] /\ tree'[Part(d, m)] = tree[Part(d, m)]
  BY <1>3, <1>4, PodTypes DEF WritersOK
<1>6. WritersOK'
  BY <1>1, <1>2, <1>3, PodTypes DEF WritersOK, Stays
<1>7. episodes' = episodes /\ excuse' = excuse /\ podLease' = podLease
  BY DEF WriteChunk, NoFault
<1>8. ASSUME e \notin excuse
      PROVE  PutOK(w, e)' /\ Intact(e)' /\ Accounted(e)'
  <2>1. PutOK(w, e) /\ Intact(e) /\ Accounted(e)
    BY <1>1, <1>8, OwnEpisode
  <2>2. tree'[Part(e, n)] \in File /\ tree[Part(e, n)] \in File
    BY <1>3, <1>4, PodTypes
  <2>3. PutOK(w, e)'
    <3>1. CASE pod[w].at = "fetch1"
      <4>1. w \in tree[Part(e, n)].writers
        BY <2>1, <3>1 DEF PutOK
      <4>2. w \in tree'[Part(e, n)].writers /\ 1 \in tree'[Part(e, n)].chunks
        BY <1>3, <1>4, <3>1, <4>1
      <4>3. pod'[w].at = "fetch2" /\ (pod'[w].import \/ episodes'[e].row \in {0, pod'[w].prior})
        BY <1>1, <1>2, <1>7, <2>1, <3>1 DEF PutOK
      <4>4. QED
        BY <1>2, <4>2, <4>3 DEF PutOK
    <3>2. CASE pod[w].at = "fetch2"
      <4>1. tree'[Part(e, n)].chunks = Whole
        BY <1>3, <1>4, <2>1, <2>2, <3>2 DEF PutOK, File, Whole
      <4>2. pod'[w].at = "leaseWait" /\ (pod'[w].import \/ episodes'[e].row \in {0, pod'[w].prior})
        BY <1>1, <1>2, <1>7, <2>1, <3>2 DEF PutOK
      <4>3. QED
        BY <1>2, <4>1, <4>2 DEF PutOK
    <3>3. QED
      BY <1>1, <3>1, <3>2
  <2>4. ASSUME NEW m \in Name
        PROVE  /\ tree'[At(e, m)].there = tree[At(e, m)].there
               /\ tree[At(e, m)].chunks = Whole => tree'[At(e, m)].chunks = Whole
    <3>1. tree'[At(e, m)] \in File /\ tree'[At(e, m)].there = tree[At(e, m)].there
          /\ tree[At(e, m)].chunks \subseteq tree'[At(e, m)].chunks
      BY <1>3, <1>4
    <3>2. tree'[At(e, m)].chunks \subseteq Whole
      BY <3>1 DEF File
    <3>3. QED
      BY <3>1, <3>2
  <2>5. QED
    BY <1>1, <1>2, <1>7, <2>1, <2>3, <2>4, FilesStay
<1>9. QED
  BY <1>1, <1>2, <1>3, <1>4, <1>5, <1>6, <1>7, <1>8, PutStep, PodTypes DEF PodTypeOK, RowsOK, Drops

LEMMA DiscardPartKeeps ==
  ASSUME PodInv, NEW w \in Worker, NEW e \in Episode, NEW n \in Name, pod[w].ep = e, pod[w].dst = n, DiscardPart(w)
  PROVE  PodInv'
<1>1. pod[w].at \in {"fetch1", "fetch2", "leaseWait"} /\ pod[w].at \in Puts /\ pod[w].at \notin HasLease
  BY DEF DiscardPart, Puts, HasLease, Drops
<1>2. /\ pod' \in [Worker -> PodCall] /\ LeaseOK' /\ Stays(w) /\ pod'[w].at = "idle" /\ pod'[w].ep = 0
      /\ podLease' \in Worker \cup {NoWorker}
  BY ReturnsTo DEF DiscardPart
<1>3. Part(e, n) \in Place
  BY Places
<1>4. /\ tree' \in [Place -> File]
      /\ \A q \in Place \ {Part(e, n)} : /\ tree'[q].there = tree[q].there /\ tree'[q].chunks = tree[q].chunks
                                         /\ tree'[q].writers = tree[q].writers \ {w}
      /\ tree'[Part(e, n)].writers = {}
  <2>1. \A q \in Place : tree'[q] = IF q = Part(e, n) THEN NoFile ELSE [tree[q] EXCEPT !.writers = tree[q].writers \ {w}]
    BY DEF DiscardPart
  <2>2. NoFile.writers = {}
    BY DEF NoFile
  <2>3. ASSUME NEW q \in Place \ {Part(e, n)}
        PROVE  /\ tree'[q] \in File
               /\ tree'[q].there = tree[q].there /\ tree'[q].chunks = tree[q].chunks
               /\ tree'[q].writers = tree[q].writers \ {w}
    <3>1. tree'[q] = [tree[q] EXCEPT !.writers = tree[q].writers \ {w}]
      BY <2>1
    <3>2. tree[q] \in File
      BY PodTypes
    <3> HIDE DEF File
    <3>3. tree[q] = [chunks |-> tree[q].chunks, writers |-> tree[q].writers, there |-> tree[q].there]
          /\ tree[q].chunks \in SUBSET Whole /\ tree[q].writers \in SUBSET Worker /\ tree[q].there \in BOOLEAN
      BY <3>2 DEF File
    <3>4. QED
      BY <3>1, <3>2, <3>3 DEF File
  <2>4. DOMAIN tree' = Place /\ tree' = [q \in DOMAIN tree' |-> tree'[q]]
    BY DEF DiscardPart
  <2>5. QED
    BY <1>3, <2>1, <2>2, <2>3, <2>4, PodNames
<1>5. \A d \in Episode, m \in Name :
        /\ At(d, m) \in Place /\ Part(d, m) \in Place /\ At(d, m) # Part(e, n)
        /\ d # e => Part(d, m) # Part(e, n)
  BY Places
<1>6. WritersOK'
  BY <1>1, <1>2, <1>4, PodTypes DEF WritersOK, Stays
<1>7. episodes' = episodes /\ excuse' = excuse
  BY DEF DiscardPart, NoFault
<1>8. ASSUME e \notin excuse
      PROVE  Intact(e)' /\ Accounted(e)'
  <2>1. Intact(e) /\ Accounted(e)
    BY <1>1, <1>8, OwnEpisode
  <2>2. QED
    BY <1>1, <1>2, <1>4, <1>5, <1>7, <2>1, FilesStay
<1>9. QED
  BY <1>1, <1>2, <1>4, <1>5, <1>6, <1>7, <1>8, PutStep, PodNames, PodTypes DEF PodTypeOK, RowsOK, Drops

\* A step that only moves the call, which has not put its file in place.
LEMMA OnlyMoves ==
  ASSUME PodInv, NEW w \in Worker, NEW e \in Episode, pod[w].ep = e,
         pod[w].at \in {"leaseWait", "leaseImport", "rename", "move"}, UNCHANGED <<episodes, tree, excuse>>,
         pod' \in [Worker -> PodCall], LeaseOK', Stays(w), podLease' \in Worker \cup {NoWorker},
         \/ pod'[w].at = "idle" /\ pod'[w].ep = 0
         \/ /\ pod'[w].ep = e /\ pod'[w].dst = pod[w].dst /\ pod'[w].prior = pod[w].prior
            /\ pod'[w].import = pod[w].import
            /\ \/ pod[w].at = "leaseWait" /\ pod'[w].at = "rename"
               \/ pod[w].at = "leaseImport" /\ pod'[w].at = "move"
  PROVE  PodInv'
<1>1. pod[w].at \in Puts
  BY DEF Puts
<1>2. WritersOK'
  BY PodTypes DEF WritersOK, Stays
<1>3. ASSUME e \notin excuse
      PROVE  (pod'[w].ep = e => PutOK(w, e)') /\ Intact(e)' /\ Accounted(e)'
  <2>1. PutOK(w, e) /\ Intact(e) /\ Accounted(e)
    BY <1>1, <1>3, OwnEpisode
  <2>2. Intact(e)' /\ Accounted(e)'
    BY <1>1, <2>1, FilesStay
  <2>3. pod'[w].ep = e => PutOK(w, e)'
    BY <2>1, PodNames DEF PutOK
  <2>4. QED
    BY <2>2, <2>3
<1>4. QED
  BY <1>1, <1>2, <1>3, PutStep, PodTypes DEF PodTypeOK, RowsOK, Drops

LEMMA TakePodLeaseKeeps ==
  ASSUME PodInv, NEW w \in Worker, NEW e \in Episode, pod[w].ep = e, TakePodLease(w)
  PROVE  PodInv'
<1> DEFINE at == IF pod[w].at = "leaseWait" THEN "rename" ELSE "move"
<1>1. /\ pod[w].at \in {"leaseWait", "leaseImport"} /\ podLease = NoWorker /\ podLease' = w
      /\ UNCHANGED <<episodes, tree, excuse>> /\ Moves(w, at)
  BY DEF TakePodLease, NoFault
<1>2. pod[w].at \in Puts /\ at \in Puts /\ at \in HasLease
  BY <1>1 DEF Puts, HasLease
<1>3. (pod[w].import => at = "move") /\ (at = "move" => pod[w].import)
  BY <1>1, PodTypes DEF CallFits
<1>4. \/ pod[w].at = "leaseWait" /\ at = "rename"
      \/ pod[w].at = "leaseImport" /\ at = "move"
  <2>1. pod[w].at = "leaseWait" \/ pod[w].at = "leaseImport"
    BY <1>1
  <2>2. QED
    BY <2>1
<1> HIDE DEF at
<1>5. /\ pod' \in [Worker -> PodCall] /\ LeaseOK' /\ Stays(w)
      /\ pod'[w].at = at /\ pod'[w].ep = e /\ pod'[w].dst = pod[w].dst
      /\ pod'[w].prior = pod[w].prior /\ pod'[w].import = pod[w].import
  BY <1>1, <1>2, <1>3, <1>4, MovesTo, PodNames
<1>6. QED
  BY <1>1, <1>4, <1>5, OnlyMoves

LEMMA ImportRefusedKeeps ==
  ASSUME PodInv, NEW w \in Worker, NEW e \in Episode, pod[w].ep = e, ImportRefused(w)
  PROVE  PodInv'
<1>1. pod[w].at \in {"leaseImport", "move"} /\ UNCHANGED <<episodes, tree, excuse>> /\ Returns(w)
  BY DEF ImportRefused, NoFault
<1>2. QED
  BY <1>1, ReturnsTo, OnlyMoves

\* A file put in place: the call's whole one, at its name.
LEMMA FileInPlace ==
  ASSUME PodInv, NEW w \in Worker, NEW e \in Episode, NEW n \in Name, pod[w].ep = e, pod[w].dst = n,
         pod[w].at \in {"rename", "move"}, UNCHANGED <<episodes, excuse, podLease>>, Moves(w, "attach"),
         tree' \in [Place -> File], WritersOK',
         tree'[At(e, n)].there, e \notin excuse => tree'[At(e, n)].chunks = Whole,
         \A q \in Place \ {At(e, n), Part(e, n)} : tree'[q] = tree[q]
  PROVE  PodInv'
<1>1. pod[w].at \in Puts /\ "attach" \in Puts /\ "attach" \in HasLease /\ pod[w].at \in HasLease /\ podLease = w
  BY LeasedAlone DEF Puts, HasLease
<1>2. /\ pod' \in [Worker -> PodCall] /\ LeaseOK' /\ Stays(w)
      /\ pod'[w].at = "attach" /\ pod'[w].ep = e /\ pod'[w].dst = n
      /\ pod'[w].prior = pod[w].prior /\ pod'[w].import = pod[w].import
  BY <1>1, MovesTo, PodTypes DEF PodTypeOK
<1>3. \A d \in Episode, m \in Name :
        /\ At(d, m) \in Place /\ Part(d, m) \in Place
        /\ d # e \/ m # n => tree'[At(d, m)] = tree[At(d, m)]
        /\ d # e => tree'[Part(d, m)] = tree[Part(d, m)]
  BY Places
<1>4. ASSUME e \notin excuse
      PROVE  PutOK(w, e)' /\ Intact(e)' /\ Accounted(e)'
  <2>1. /\ PutOK(w, e)
        /\ Filed(e) => There(At(e, episodes[e].row)) /\ tree[At(e, episodes[e].row)].chunks = Whole
        /\ \A m \in Name : There(At(e, m)) => episodes[e].row = m
    BY <1>1, <1>4, OwnEpisode
  <2>2. PutOK(w, e)'
    BY <1>2, <1>4, <2>1 DEF PutOK, There
  <2>3. Filed(e) => episodes[e].row \in Name
    BY PodTypes DEF EpisodeRow, Filed
  <2>4. Intact(e)'
    BY <1>3, <1>4, <2>1, <2>3 DEF Intact, There, Filed
  <2>5. Accounted(e)'
    BY <1>2, <1>3, <2>1 DEF Accounted, There
  <2>6. QED
    BY <2>2, <2>4, <2>5
<1>5. QED
  BY <1>1, <1>2, <1>3, <1>4, PutStep, PodTypes DEF PodTypeOK, RowsOK, Drops

LEMMA RenamePartKeeps ==
  ASSUME PodInv, NEW w \in Worker, NEW e \in Episode, NEW n \in Name, pod[w].ep = e, pod[w].dst = n, RenamePart(w)
  PROVE  PodInv'
<1>1. pod[w].at = "rename" /\ UNCHANGED <<episodes, excuse>>
  BY DEF RenamePart, NoFault
<1>2. CASE There(Part(e, n)) /\ Moves(w, "attach") /\ UNCHANGED podLease
           /\ tree' = [[tree EXCEPT ![At(e, n)] = tree[Part(e, n)]] EXCEPT ![Part(e, n)] = NoFile]
  <2>1. At(e, n) \in Place /\ Part(e, n) \in Place /\ At(e, n) # Part(e, n) /\ At(e, n)[1] = e /\ Part(e, n)[1] = e
    BY Places
  <2>2. /\ tree' \in [Place -> File] /\ tree'[At(e, n)] = tree[Part(e, n)] /\ tree'[Part(e, n)] = NoFile
        /\ \A q \in Place \ {At(e, n), Part(e, n)} : tree'[q] = tree[q]
    BY <1>2, <2>1, PodNames, PodTypes DEF PodTypeOK
  <2>3. pod[w].at \in Puts /\ pod[w].at \notin {"fetch1", "fetch2"}
    BY <1>1 DEF Puts
  <2>4. \A v \in Worker : pod'[v].ep = pod[v].ep /\ (pod[v].at \in {"fetch1", "fetch2"} => pod'[v].at = pod[v].at)
    BY <1>2, <2>3, PodTypes DEF Moves, PodTypeOK, PodCall
  <2>5. WritersOK'
    <3>1. \A q \in Place, v \in Worker : v \in tree'[q].writers =>
             \E x \in Place : x[1] = q[1] /\ v \in tree[x].writers
      BY <2>1, <2>2 DEF NoFile
    <3>2. QED
      BY <2>4, <3>1, PodTypes DEF WritersOK
  <2>6. ASSUME e \notin excuse PROVE tree[Part(e, n)].chunks = Whole
    BY <1>1, <2>3, <2>6, OwnEpisode DEF PutOK
  <2>7. QED
    <3>1. tree'[At(e, n)].there /\ (e \notin excuse => tree'[At(e, n)].chunks = Whole)
      BY <1>2, <2>2, <2>6 DEF There
    <3>2. UNCHANGED <<episodes, excuse, podLease>> /\ Moves(w, "attach") /\ pod[w].at \in {"rename", "move"}
      BY <1>1, <1>2
    <3>3. QED
      BY <2>2, <2>5, <3>1, <3>2, FileInPlace
<1>3. CASE UNCHANGED tree /\ Returns(w)
  BY <1>1, <1>3, ReturnsTo, OnlyMoves
<1>4. QED
  BY <1>2, <1>3 DEF RenamePart

LEMMA ImportMoveKeeps ==
  ASSUME PodInv, NEW w \in Worker, NEW e \in Episode, NEW n \in Name, pod[w].ep = e, pod[w].dst = n, ImportMove(w)
  PROVE  PodInv'
<1>1. /\ pod[w].at = "move" /\ UNCHANGED <<episodes, excuse, podLease>> /\ Moves(w, "attach")
      /\ tree' = [tree EXCEPT ![At(e, n)] = WholeFile]
  BY DEF ImportMove, NoFault
<1>2. At(e, n) \in Place
  BY Places
<1>3. WholeFile.there /\ WholeFile.chunks = Whole /\ WholeFile.writers = {}
  BY DEF WholeFile
<1>4. /\ tree' \in [Place -> File] /\ tree'[At(e, n)] = WholeFile
      /\ \A q \in Place \ {At(e, n)} : tree'[q] = tree[q]
  BY <1>1, <1>2, PodNames, PodTypes DEF PodTypeOK
<1>5. \A v \in Worker : pod'[v].ep = pod[v].ep /\ (pod[v].at \in {"fetch1", "fetch2"} => pod'[v].at = pod[v].at)
  BY <1>1, PodTypes DEF Moves, PodTypeOK, PodCall
<1>6. WritersOK'
  BY <1>3, <1>4, <1>5, PodTypes DEF WritersOK
<1>7. QED
  BY <1>1, <1>3, <1>4, <1>6, FileInPlace

LEMMA AttachKeeps ==
  ASSUME PodInv, NEW w \in Worker, NEW e \in Episode, NEW n \in Name, pod[w].ep = e, pod[w].dst = n, Attach(w)
  PROVE  PodInv'
<1>1. /\ pod[w].at = "attach" /\ episodes[e].in /\ episodes' = [episodes EXCEPT ![e].row = n]
      /\ Moves(w, "supersede") /\ UNCHANGED <<tree, podLease>>
      /\ excuse' = IF episodes[e].row \notin {0, n, pod[w].prior} THEN excuse \cup {e} ELSE excuse
  BY DEF Attach
<1>2. pod[w].at \in Puts /\ "supersede" \in Puts /\ "supersede" \in HasLease /\ pod[w].at \in HasLease /\ podLease = w
  BY <1>1, LeasedAlone DEF Puts, HasLease
<1>3. /\ pod' \in [Worker -> PodCall] /\ LeaseOK' /\ Stays(w)
      /\ pod'[w].at = "supersede" /\ pod'[w].ep = e /\ pod'[w].dst = n
      /\ pod'[w].prior = pod[w].prior /\ pod'[w].import = pod[w].import
  BY <1>1, <1>2, MovesTo, PodTypes DEF PodTypeOK
<1>4. /\ episodes' \in [Episode -> EpisodeRow] /\ episodes'[e].row = n /\ episodes'[e].in
      /\ \A d \in Episode \ {e} : episodes'[d] = episodes[d]
  BY <1>1, PodTypes DEF PodTypeOK, EpisodeRow
<1>5. WritersOK'
  BY <1>1, <1>3, PodTypes DEF WritersOK, Stays
<1>6. ASSUME e \notin excuse'
      PROVE  PutOK(w, e)' /\ Intact(e)' /\ Accounted(e)'
  <2>1. e \notin excuse /\ episodes[e].row \in {0, n, pod[w].prior}
    BY <1>1, <1>6
  <2>2. /\ PutOK(w, e)
        /\ \A m \in Name : There(At(e, m)) /\ episodes[e].row # m => m = n
    BY <1>1, <1>2, <2>1, OwnEpisode
  <2>3. There(At(e, n)) /\ tree[At(e, n)].chunks = Whole
    BY <1>1, <2>2 DEF PutOK
  <2>4. PutOK(w, e)'
    BY <1>3 DEF PutOK
  <2>5. Intact(e)'
    BY <1>1, <1>4, <2>3 DEF Intact, There
  <2>6. ASSUME NEW m \in Name, There(At(e, m)), m # n
        PROVE  pod[w].prior = m /\ ~pod[w].import
    <3>1. episodes[e].row = m /\ m # 0
      BY <2>2, <2>6, PodNames
    <3>2. pod[w].prior = m
      BY <2>1, <2>6, <3>1
    <3>3. QED
      BY <3>1, <3>2, PodTypes DEF CallFits
  <2>7. Accounted(e)'
    BY <1>1, <1>3, <1>4, <2>6 DEF Accounted, There
  <2>8. QED
    BY <2>4, <2>5, <2>7
<1>7. excuse \subseteq excuse'
  BY <1>1
<1>8. QED
  BY <1>1, <1>2, <1>3, <1>4, <1>5, <1>6, <1>7, PutStep, PodTypes DEF PodTypeOK, Drops

\* What an unlink of files in place leaves.
LEMMA Unlinked ==
  ASSUME PodInv, NEW ps \in SUBSET Place, tree' = Unlink(tree, ps)
  PROVE  /\ tree' \in [Place -> File]
         /\ \A q \in Place : IF q \in ps THEN ~tree'[q].there /\ tree'[q].writers = {} ELSE tree'[q] = tree[q]
<1>1. \A q \in Place : tree'[q] = IF q \in ps THEN NoFile ELSE tree[q]
  BY DEF Unlink
<1>2. ~NoFile.there /\ NoFile.writers = {}
  BY DEF NoFile
<1>3. tree' \in [Place -> File]
  BY PodNames, PodTypes DEF Unlink
<1>4. QED
  BY <1>1, <1>2, <1>3

LEMMA FileRowFailsKeeps ==
  ASSUME PodInv, NEW w \in Worker, NEW e \in Episode, NEW n \in Name, pod[w].ep = e, pod[w].dst = n, FileRowFails(w)
  PROVE  PodInv'
<1>1. /\ pod[w].at = "attach" /\ tree' = tree /\ Returns(w) /\ episodes' = episodes /\ excuse' = excuse \cup {e}
  BY DEF FileRowFails, Fault
<1>2. pod[w].at \in Puts /\ pod[w].at \in HasLease
  BY <1>1 DEF Puts, HasLease
<1>3. /\ pod' \in [Worker -> PodCall] /\ LeaseOK' /\ Stays(w) /\ pod'[w].at = "idle" /\ pod'[w].ep = 0
      /\ podLease' \in Worker \cup {NoWorker}
  BY <1>1, ReturnsTo
<1>4. WritersOK'
  BY <1>1, <1>3, PodTypes DEF WritersOK, Stays
<1>5. \A d \in Episode \ {e}, m \in Name : tree'[At(d, m)] = tree[At(d, m)] /\ tree'[Part(d, m)] = tree[Part(d, m)]
  BY <1>1
<1>6. e \in excuse' /\ excuse \subseteq excuse'
  BY <1>1
<1>7. QED
  BY <1>1, <1>2, <1>3, <1>4, <1>5, <1>6, PutStep, PodNames, PodTypes DEF PodTypeOK, RowsOK, Drops

LEMMA AttachRefusedKeeps ==
  ASSUME PodInv, NEW w \in Worker, NEW e \in Episode, NEW n \in Name, pod[w].ep = e, pod[w].dst = n, AttachRefused(w)
  PROVE  PodInv'
<1> DEFINE undone == AttachUndoes(w)
<1>1. /\ pod[w].at = "attach" /\ tree' = Unlink(tree, undone) /\ Returns(w) /\ episodes' = episodes
      /\ IF episodes[e].in THEN excuse' = excuse \cup {e} ELSE excuse' = (IF undone = {} THEN excuse \cup {e} ELSE excuse)
  BY DEF AttachRefused, Fault
<1>2. pod[w].at \in Puts /\ pod[w].at \in HasLease
  BY <1>1 DEF Puts, HasLease
<1>3. /\ pod' \in [Worker -> PodCall] /\ LeaseOK' /\ Stays(w) /\ pod'[w].at = "idle" /\ pod'[w].ep = 0
      /\ podLease' \in Worker \cup {NoWorker}
  BY <1>1, ReturnsTo
<1>4. \A d \in Episode, m \in Name :
        /\ At(d, m) \in Place /\ Part(d, m) \in Place /\ Part(d, m) # At(e, n)
        /\ At(d, m) = At(e, n) <=> d = e /\ m = n
  BY Places
<1>5. undone \in {{}, {At(e, n)}}
  BY DEF AttachUndoes
<1>6. undone \in SUBSET Place
  BY <1>4, <1>5
<1> HIDE DEF undone
<1>7. /\ tree' \in [Place -> File]
      /\ \A q \in Place : IF q \in undone THEN ~tree'[q].there /\ tree'[q].writers = {} ELSE tree'[q] = tree[q]
  BY <1>1, <1>6, Unlinked
<1>8. WritersOK'
  BY <1>1, <1>3, <1>7, PodTypes DEF WritersOK, Stays
<1>9. ASSUME e \notin excuse'
      PROVE  Intact(e)' /\ Accounted(e)'
  <2>1. e \notin excuse /\ ~episodes[e].in /\ undone = {At(e, n)}
    BY <1>1, <1>5, <1>9
  <2>2. episodes[e].row = 0
    BY <2>1, PodTypes DEF RowsOK
  <2>3. \A m \in Name : There(At(e, m)) => m = n
    BY <1>1, <1>2, <2>1, <2>2, OwnEpisode, PodNames
  <2>4. \A m \in Name : ~tree'[At(e, m)].there
    BY <1>4, <1>7, <2>1, <2>3 DEF There
  <2>5. QED
    BY <1>1, <2>2, <2>4 DEF Intact, Accounted, Filed, There
<1>10. \A d \in Episode \ {e}, m \in Name : tree'[At(d, m)] = tree[At(d, m)] /\ tree'[Part(d, m)] = tree[Part(d, m)]
  BY <1>4, <1>5, <1>7
<1>11. excuse \subseteq excuse'
  BY <1>1
<1>12. QED
  BY <1>1, <1>2, <1>3, <1>7, <1>8, <1>9, <1>10, <1>11, PutStep, PodNames, PodTypes DEF PodTypeOK, RowsOK, Drops

LEMMA SupersedeKeeps ==
  ASSUME PodInv, NEW w \in Worker, NEW e \in Episode, NEW n \in Name, pod[w].ep = e, pod[w].dst = n, Supersede(w)
  PROVE  PodInv'
<1> DEFINE gone == Superseded(w)
           prior == pod[w].prior
<1>1. pod[w].at = "supersede" /\ tree' = Unlink(tree, gone) /\ Returns(w) /\ UNCHANGED <<episodes, excuse>>
  BY DEF Supersede, NoFault
<1>2. pod[w].at \in Puts /\ pod[w].at \in HasLease
  BY <1>1 DEF Puts, HasLease
<1>3. /\ pod' \in [Worker -> PodCall] /\ LeaseOK' /\ Stays(w) /\ pod'[w].at = "idle" /\ pod'[w].ep = 0
      /\ podLease' \in Worker \cup {NoWorker}
  BY <1>1, ReturnsTo
<1>4. prior \in Name \cup {0}
  BY PodTypes DEF PodCall
<1>5. gone = IF pod[w].import \/ prior \in {0, n} THEN {} ELSE {At(e, prior)}
  BY DEF Superseded
<1>6. \A d \in Episode, m, k \in Name :
        /\ At(d, m) \in Place /\ Part(d, m) \in Place /\ Part(d, m) # At(e, k)
        /\ At(d, m) = At(e, k) <=> d = e /\ m = k
  BY Places
<1>7. gone \in SUBSET Place
  BY <1>4, <1>5, <1>6
<1> HIDE DEF gone, prior
<1>8. /\ tree' \in [Place -> File]
      /\ \A q \in Place : IF q \in gone THEN ~tree'[q].there /\ tree'[q].writers = {} ELSE tree'[q] = tree[q]
  BY <1>1, <1>7, Unlinked
<1>9. WritersOK'
  BY <1>1, <1>3, <1>8, PodTypes DEF WritersOK, Stays
<1>10. \A d \in Episode \ {e}, m \in Name : tree'[At(d, m)] = tree[At(d, m)] /\ tree'[Part(d, m)] = tree[Part(d, m)]
  BY <1>4, <1>5, <1>6, <1>8
<1>11. ASSUME e \notin excuse
       PROVE  Intact(e)' /\ Accounted(e)'
  <2>1. episodes[e].row = n
    BY <1>1, PodTypes DEF RowsOK
  <2>2. /\ Filed(e) => There(At(e, n)) /\ tree[At(e, n)].chunks = Whole
        /\ \A m \in Name : There(At(e, m)) /\ m # n => ~pod[w].import /\ prior = m
    BY <1>1, <1>2, <1>11, <2>1, OwnEpisode DEF prior
  <2>3. tree'[At(e, n)] = tree[At(e, n)]
    BY <1>4, <1>5, <1>6, <1>8
  <2>4. \A m \in Name : tree'[At(e, m)].there => m = n
    <3>1. ASSUME NEW m \in Name, tree'[At(e, m)].there, m # n PROVE FALSE
      <4>1. At(e, m) \notin gone /\ tree'[At(e, m)] = tree[At(e, m)]
        BY <1>6, <1>8, <3>1
      <4>2. ~pod[w].import /\ prior = m
        BY <2>2, <3>1, <4>1 DEF There
      <4>3. m # 0
        BY PodNames
      <4>4. QED
        BY <1>5, <3>1, <4>1, <4>2, <4>3
    <3>2. QED
      BY <3>1
  <2>5. QED
    BY <1>1, <2>1, <2>2, <2>3, <2>4 DEF Intact, Accounted, Filed, There
<1>12. QED
  BY <1>1, <1>2, <1>3, <1>8, <1>9, <1>10, <1>11, PutStep, PodNames, PodTypes DEF PodTypeOK, RowsOK, Drops

(***************************************************************************)
(* Unfetch, retention and unsubscribe.                                     *)
(***************************************************************************)
LEMMA StartDropKeeps ==
  ASSUME PodInv, NEW w \in Worker, NEW es \in SUBSET Episode, \A e \in es : Filed(e), StartDrop(w, es)
  PROVE  PodInv'
<1> DEFINE call == Dropping("unlink", FilesOf(es))
<1>1. /\ pod[w] = NoOp /\ pod' = [pod EXCEPT ![w] = call] /\ UNCHANGED <<episodes, tree, excuse>>
      /\ podLease = NoWorker /\ podLease' = w
  BY DEF StartDrop, Starts
<1>2. \A f \in FilesOf(es) : f \in Episode \X Name /\ episodes[f[1]].row = f[2]
  BY PodTypes DEF FilesOf, Filed, EpisodeRow
<1>3. /\ call \in PodCall /\ CallFits(call) /\ call.at = "unlink" /\ call.ep = 0
      /\ \A f \in call.left : episodes[f[1]].row = f[2]
  <2>1. call.left = FilesOf(es)
    BY DEF Dropping
  <2>2. FilesOf(es) \in SUBSET (Episode \X Name)
    BY <1>2
  <2>3. QED
    BY <1>2, <2>1, <2>2 DEF Dropping, PodCall, CallFits, Puts, Drops
<1>4. pod[w].at = "idle" /\ pod[w].ep = 0 /\ pod[w].left = {} /\ call.at \in HasLease
  BY <1>1, <1>3 DEF NoOp, HasLease, Drops
<1> HIDE DEF call
<1>5. pod' \in [Worker -> PodCall] /\ LeaseOK' /\ Stays(w) /\ pod'[w] = call
  BY <1>1, <1>3, <1>4, CallStep
<1>6. WritersOK' /\ RowsOK' /\ GoneFirst'
  BY <1>1, <1>3, <1>4, <1>5, QuietStep
<1>7. ASSUME NEW e \in Episode \ excuse
      PROVE  EpisodeOK(e)'
  BY <1>1, <1>3, <1>4, <1>5, PodNames, OtherEpisode
<1>8. QED
  BY <1>1, <1>5, <1>6, <1>7, PodTypes DEF PodInv, PodTypeOK

\* A call that drops files moves on.
LEMMA DropMoves ==
  ASSUME PodInv, NEW w \in Worker, pod[w].at \in Drops, NEW at \in Drops, NEW left \in SUBSET pod[w].left,
         MovesOn(w, at, left), UNCHANGED podLease
  PROVE  /\ pod' \in [Worker -> PodCall] /\ LeaseOK' /\ Stays(w)
         /\ pod'[w].at = at /\ pod'[w].ep = 0 /\ pod'[w].left = left /\ pod[w].ep = 0
         /\ podLease = w /\ \A v \in Worker \ {w} : pod[v].at \notin HasLease
         /\ pod[w].left \subseteq Episode \X Name
<1> DEFINE call == Dropping(at, left)
<1>1. pod[w] \in PodCall /\ CallFits(pod[w]) /\ pod[w].at \in HasLease
  BY PodTypes DEF HasLease
<1>2. pod[w].ep = 0
  BY <1>1 DEF CallFits
<1>3. pod' = [pod EXCEPT ![w] = call]
  BY DEF MovesOn
<1>4. call \in PodCall /\ CallFits(call) /\ call.at = at /\ call.ep = 0 /\ call.left = left
  BY <1>1, PodNames DEF Dropping, PodCall, CallFits, Puts, Drops
<1>5. at \in HasLease /\ podLease = w /\ \A v \in Worker \ {w} : pod[v].at \notin HasLease
  BY <1>1, LeasedAlone DEF HasLease
<1> HIDE DEF call
<1>6. pod' \in [Worker -> PodCall] /\ LeaseOK' /\ Stays(w) /\ pod'[w] = call
  BY <1>3, <1>4, <1>5, CallStep
<1>7. pod[w].left \subseteq Episode \X Name
  BY <1>1 DEF PodCall
<1>8. QED
  BY <1>2, <1>4, <1>5, <1>6, <1>7

\* The newest of the files that are left is one.
LEMMA OneHead ==
  ASSUME PodInv, NEW w \in Worker, NEW f \in pod[w].left, NEW g \in pod[w].left, Heads(w, f), Heads(w, g)
  PROVE  f[1] = g[1]
<1>1. f[1] \in Nat /\ g[1] \in Nat
  BY PodTypes, PodcastAssumption DEF PodCall
<1>2. QED
  BY <1>1 DEF Heads

\* The episode of a file under the lease of a dropping call: no other call is about to
\* attach or remove a file of it.
LEMMA UnderDrop ==
  ASSUME PodInv, NEW w \in Worker, pod[w].at \in {"unlink", "drop"}, NEW e \in Episode \ excuse
  PROVE  /\ \A m \in Name : There(At(e, m)) => episodes[e].row = m
         /\ \A v \in Worker \ {w} : pod[v].at \notin HasLease
<1>1. pod[w].at \in HasLease
  BY DEF HasLease, Drops
<1>2. \A v \in Worker \ {w} : pod[v].at \notin HasLease
  BY <1>1, LeasedAlone
<1>3. Accounted(e)
  BY DEF PodInv, EpisodeOK
<1>4. QED
  BY <1>2, <1>3 DEF Accounted, HasLease, Drops

\* Between the calls that drop files: the parts of the invariant that are not about
\* single episodes, for a step that leaves the rows.
LEMMA DropSteps ==
  ASSUME PodInv, NEW w \in Worker, pod[w].at \in Drops, Stays(w), LeaseOK', UNCHANGED episodes,
         pod'[w].at \in Drops \cup {"idle"}, pod'[w].left \subseteq pod[w].left,
         pod'[w].at = "remove" => pod[w].at = "remove",
         pod'[w].at \in {"unlink", "drop"} => pod[w].at \in {"unlink", "drop"},
         \A p \in Place, v \in Worker : v \in tree'[p].writers => v \in tree[p].writers
  PROVE  WritersOK' /\ RowsOK'
<1>1. pod[w].at \notin {"fetch1", "fetch2"} /\ pod'[w].at # "supersede"
  BY DEF Drops
<1>2. WritersOK'
  BY <1>1, PodTypes DEF WritersOK, Stays
<1>3. RowsOK'
  <2>1. \A v \in Worker : pod'[v].at = "supersede" => episodes'[pod'[v].ep].row = pod'[v].dst
    BY <1>1, PodTypes DEF RowsOK, Stays
  <2>2. ASSUME NEW v \in Worker, pod'[v].at \in {"unlink", "drop"}, NEW f \in pod'[v].left
        PROVE  episodes'[f[1]].row = f[2]
    <3>1. pod[v].at \in {"unlink", "drop"} /\ f \in pod[v].left
      BY <2>2 DEF Stays
    <3>2. QED
      BY <3>1, PodTypes DEF RowsOK
  <2>3. ASSUME NEW v \in Worker, pod'[v].at = "remove", NEW f \in pod'[v].left
        PROVE  ~episodes'[f[1]].in
    <3>1. pod[v].at = "remove" /\ f \in pod[v].left
      BY <2>3 DEF Stays
    <3>2. QED
      BY <3>1, PodTypes DEF RowsOK
  <2>4. QED
    BY <2>1, <2>2, <2>3, PodTypes DEF RowsOK
<1>4. QED
  BY <1>2, <1>3

\* A step of a dropping call is about the episode of its newest file alone.
LEMMA DropStep ==
  ASSUME PodInv, NEW w \in Worker, NEW f \in pod[w].left, Heads(w, f), pod[w].at \in Drops, Stays(w),
         pod[w].ep = 0, pod'[w].ep = 0,
         pod[w].at = "remove" => pod'[w].at = "remove" /\ pod'[w].left = pod[w].left \ {f},
         \A d \in Episode \ {f[1]} : episodes'[d].row = episodes[d].row,
         \A d \in Episode \ {f[1]}, m \in Name : tree'[At(d, m)] = tree[At(d, m)],
         \A d \in Episode, m \in Name : tree'[Part(d, m)] = tree[Part(d, m)],
         NEW d \in Episode \ excuse, d # f[1]
  PROVE  EpisodeOK(d)'
<1>1. \A g \in pod[w].left : Heads(w, g) => g[1] # d
  BY OneHead
<1>2. \A n \in Name : pod[w].at = "remove" /\ <<d, n>> \in pod[w].left => pod'[w].at = "remove" /\ <<d, n>> \in pod'[w].left
  OBVIOUS
<1>3. d # 0
  BY PodNames
<1>4. QED
  BY <1>1, <1>2, <1>3, OtherEpisode

\* What the other calls for an episode keep while one drops its file.
LEMMA PutsBesideDrop ==
  ASSUME PodInv, NEW w \in Worker, pod[w].at \in Drops, Stays(w), pod'[w].ep = 0, pod[w].ep = 0,
         NEW e \in Episode \ excuse, episodes'[e].row \in {0, episodes[e].row},
         \A m \in Name : tree'[Part(e, m)] = tree[Part(e, m)]
  PROVE  Alone(e)' /\ \A v \in Worker : pod'[v].ep = e => PutOK(v, e)'
<1>1. EpisodeOK(e) /\ e # 0
  BY PodNames DEF PodInv
<1>2. Alone(e)'
  BY <1>1 DEF EpisodeOK, Alone, Stays
<1>3. ASSUME NEW v \in Worker, pod'[v].ep = e
      PROVE  PutOK(v, e)'
  <2>1. v # w /\ pod'[v] = pod[v] /\ pod[v].ep = e /\ PutOK(v, e)
    BY <1>1, <1>3 DEF Stays, EpisodeOK
  <2>2. pod[v].at \notin HasLease
    BY <2>1, LeasedAlone DEF HasLease
  <2>3. pod[v].at \in Puts => pod[v].dst \in Name
    BY PodTypes DEF CallFits
  <2>4. QED
    BY <2>1, <2>2, <2>3 DEF PutOK, There, Puts, HasLease
<1>4. QED
  BY <1>2, <1>3

LEMMA UnlinkFailsKeeps ==
  ASSUME PodInv, NEW w \in Worker, NEW f \in pod[w].left, UnlinkFails(w, f)
  PROVE  PodInv'
<1>1. /\ pod[w].at = "unlink" /\ Heads(w, f) /\ excuse' = excuse \cup {} /\ MovesOn(w, "unlink", pod[w].left \ {f})
      /\ UNCHANGED <<episodes, tree, podLease>>
  BY DEF UnlinkFails, Fault
<1>2. pod[w].at \in Drops /\ "unlink" \in Drops /\ pod[w].left \ {f} \in SUBSET pod[w].left
  BY <1>1 DEF Drops
<1>3. /\ pod' \in [Worker -> PodCall] /\ LeaseOK' /\ Stays(w)
      /\ pod'[w].at = "unlink" /\ pod'[w].ep = 0 /\ pod'[w].left = pod[w].left \ {f} /\ pod[w].ep = 0
  BY <1>1, <1>2, DropMoves
<1>4. \A g \in pod'[w].left : episodes[g[1]].row = g[2]
  BY <1>1, <1>3, PodTypes DEF RowsOK
<1>5. WritersOK' /\ RowsOK' /\ GoneFirst'
  BY <1>1, <1>3, <1>4, QuietStep
<1>6. ASSUME NEW d \in Episode \ excuse'
      PROVE  EpisodeOK(d)'
  BY <1>1, <1>3, PodNames, OtherEpisode
<1>7. QED
  BY <1>1, <1>3, <1>5, <1>6, PodTypes DEF PodInv, PodTypeOK

LEMMA UnlinkEpisodeKeeps ==
  ASSUME PodInv, NEW w \in Worker, NEW f \in pod[w].left, UnlinkEpisode(w, f)
  PROVE  PodInv'
<1>1. /\ pod[w].at = "unlink" /\ Heads(w, f) /\ MovesOn(w, "drop", pod[w].left)
      /\ tree' = Unlink(tree, {At(f[1], f[2])}) /\ UNCHANGED <<episodes, podLease, excuse>>
  BY DEF UnlinkEpisode, NoFault
<1>2. pod[w].at \in Drops /\ "drop" \in Drops /\ pod[w].left \in SUBSET pod[w].left
  BY <1>1 DEF Drops
<1>3. /\ pod' \in [Worker -> PodCall] /\ LeaseOK' /\ Stays(w)
      /\ pod'[w].at = "drop" /\ pod'[w].ep = 0 /\ pod'[w].left = pod[w].left /\ pod[w].ep = 0
      /\ \A v \in Worker \ {w} : pod[v].at \notin HasLease
      /\ f[1] \in Episode /\ f[2] \in Name
  BY <1>1, <1>2, DropMoves
<1>4. \A d \in Episode, m \in Name :
        /\ At(d, m) \in Place /\ Part(d, m) \in Place /\ Part(d, m) # At(f[1], f[2])
        /\ At(d, m) = At(f[1], f[2]) <=> d = f[1] /\ m = f[2]
  BY <1>3, Places
<1>5. /\ tree' \in [Place -> File]
      /\ \A q \in Place : IF q \in {At(f[1], f[2])} THEN ~tree'[q].there /\ tree'[q].writers = {} ELSE tree'[q] = tree[q]
  <2>1. {At(f[1], f[2])} \in SUBSET Place
    BY <1>3, <1>4
  <2>2. QED
    BY <1>1, <2>1, Unlinked
<1>6. \A p \in Place, v \in Worker : v \in tree'[p].writers => v \in tree[p].writers
  BY <1>5
<1>7. WritersOK' /\ RowsOK'
  BY <1>1, <1>2, <1>3, <1>6, DropSteps
<1>8. \A g \in pod[w].left : episodes[g[1]].row = g[2]
  BY <1>1, PodTypes DEF RowsOK
<1>9. GoneFirst'
  <2> SUFFICES ASSUME NEW v \in Worker, pod'[v].at = "drop", NEW g \in pod'[v].left, Heads(v, g)'
               PROVE  ~There(At(g[1], g[2]))'
    BY DEF GoneFirst
  <2>1. v = w
    BY <1>3 DEF Stays, HasLease, Drops
  <2>2. g \in pod[w].left /\ Heads(w, g)
    BY <1>3, <2>1 DEF Heads
  <2>3. g[1] = f[1] /\ g[2] = f[2]
    BY <1>1, <1>8, <2>2, OneHead
  <2>4. QED
    BY <1>3, <1>4, <1>5, <2>3 DEF There
<1>10. \A d \in Episode, m \in Name : /\ d # f[1] \/ m # f[2] => tree'[At(d, m)] = tree[At(d, m)]
                                      /\ tree'[Part(d, m)] = tree[Part(d, m)]
  BY <1>4, <1>5
<1>11. ASSUME NEW d \in Episode \ excuse', d # f[1]
       PROVE  EpisodeOK(d)'
  BY <1>1, <1>2, <1>3, <1>10, <1>11, DropStep
<1>12. ASSUME f[1] \notin excuse'
       PROVE  EpisodeOK(f[1])'
  <2>1. f[1] \in Episode \ excuse /\ EpisodeOK(f[1])
    BY <1>1, <1>3, <1>12 DEF PodInv
  <2>2. (\A v \in Worker : pod'[v].ep = f[1] => PutOK(v, f[1])') /\ Alone(f[1])'
    BY <1>1, <1>2, <1>3, <1>10, <2>1, PutsBesideDrop
  <2>3. Heads(w, f)'
    BY <1>1, <1>3 DEF Heads
  <2>4. Dropped(f[1])'
    BY <1>3, <2>3 DEF Dropped
  <2>5. \A m \in Name : tree'[At(f[1], m)].there => episodes[f[1]].row = m
    BY <1>1, <1>4, <1>5, <2>1, UnderDrop DEF There
  <2>6. Intact(f[1])' /\ Accounted(f[1])'
    BY <1>1, <2>4, <2>5 DEF Intact, Accounted, There
  <2>7. QED
    BY <2>2, <2>6 DEF EpisodeOK
<1>13. QED
  BY <1>1, <1>3, <1>5, <1>7, <1>9, <1>11, <1>12, PodTypes DEF PodInv, PodTypeOK

LEMMA DropEpisodeFileKeeps ==
  ASSUME PodInv, NEW w \in Worker, NEW f \in pod[w].left, DropEpisodeFile(w, f)
  PROVE  PodInv'
<1>1. /\ pod[w].at = "drop" /\ Heads(w, f) /\ MovesOn(w, "unlink", pod[w].left \ {f})
      /\ episodes' = [episodes EXCEPT ![f[1]].row = 0] /\ UNCHANGED <<tree, podLease, excuse>>
  BY DEF DropEpisodeFile, NoFault
<1>2. pod[w].at \in Drops /\ "unlink" \in Drops /\ pod[w].left \ {f} \in SUBSET pod[w].left
  BY <1>1 DEF Drops
<1>3. /\ pod' \in [Worker -> PodCall] /\ LeaseOK' /\ Stays(w)
      /\ pod'[w].at = "unlink" /\ pod'[w].ep = 0 /\ pod'[w].left = pod[w].left \ {f} /\ pod[w].ep = 0
      /\ \A v \in Worker \ {w} : pod[v].at \notin HasLease
      /\ f[1] \in Episode /\ f[2] \in Name /\ pod[w].left \subseteq Episode \X Name
  BY <1>1, <1>2, DropMoves
<1>4. /\ episodes' \in [Episode -> EpisodeRow] /\ episodes'[f[1]].row = 0
      /\ \A d \in Episode \ {f[1]} : episodes'[d] = episodes[d]
  BY <1>1, <1>3, PodTypes DEF PodTypeOK, EpisodeRow
<1>5. WritersOK'
  BY <1>1, <1>3, PodTypes DEF WritersOK, Stays
<1>6. \A g \in pod[w].left : episodes[g[1]].row = g[2]
  BY <1>1, PodTypes DEF RowsOK
<1>7. RowsOK'
  <2>1. \A d \in Episode : ~episodes'[d].in => episodes'[d].row = 0
    BY <1>1, <1>4, PodTypes DEF RowsOK, PodTypeOK, EpisodeRow
  <2>2. ASSUME NEW v \in Worker, pod'[v].at \in {"supersede", "unlink", "drop", "remove"} PROVE v = w
    BY <1>3, <2>2 DEF Stays, HasLease, Drops
  <2>3. \A g \in pod'[w].left : episodes'[g[1]].row = g[2]
    <3> SUFFICES ASSUME NEW g \in pod'[w].left PROVE episodes'[g[1]].row = g[2]
      OBVIOUS
    <3>1. g \in pod[w].left /\ g # f /\ g = <<g[1], g[2]>> /\ f = <<f[1], f[2]>> /\ g[1] \in Episode
      BY <1>3
    <3>2. g[1] # f[1]
      BY <1>6, <3>1
    <3>3. QED
      BY <1>4, <1>6, <3>1, <3>2
  <2>4. QED
    BY <1>3, <2>1, <2>2, <2>3 DEF RowsOK
<1>8. GoneFirst'
  BY <1>3 DEF GoneFirst, Stays, HasLease, Drops
<1>9. ASSUME NEW d \in Episode \ excuse', d # f[1]
      PROVE  EpisodeOK(d)'
  BY <1>1, <1>2, <1>3, <1>4, <1>9, DropStep
<1>10. ASSUME f[1] \notin excuse'
       PROVE  EpisodeOK(f[1])'
  <2>1. f[1] \in Episode \ excuse
    BY <1>1, <1>3, <1>10
  <2>2. (\A v \in Worker : pod'[v].ep = f[1] => PutOK(v, f[1])') /\ Alone(f[1])'
    BY <1>1, <1>2, <1>3, <1>4, <2>1, PutsBesideDrop
  <2>3. \A m \in Name : ~There(At(f[1], m))
    <3>1. ~There(At(f[1], f[2]))
      BY <1>1, PodTypes DEF GoneFirst
    <3>2. \A m \in Name : There(At(f[1], m)) => f[2] = m
      BY <1>1, <1>6, <2>1, UnderDrop
    <3>3. QED
      BY <3>1, <3>2
  <2>4. Intact(f[1])' /\ Accounted(f[1])'
    BY <1>1, <1>4, <2>3 DEF Intact, Accounted, There, Filed
  <2>5. QED
    BY <2>2, <2>4 DEF EpisodeOK
<1>11. QED
  BY <1>1, <1>3, <1>4, <1>5, <1>7, <1>8, <1>9, <1>10, PodTypes DEF PodInv, PodTypeOK

LEMMA DropFailsKeeps ==
  ASSUME PodInv, NEW w \in Worker, NEW f \in pod[w].left, DropFails(w, f)
  PROVE  PodInv'
<1>1. /\ pod[w].at = "drop" /\ Heads(w, f) /\ excuse' = excuse \cup {f[1]} /\ Returns(w)
      /\ UNCHANGED <<episodes, tree>>
  BY DEF DropFails, Fault
<1>2. pod[w].at \in Drops /\ pod[w].ep = 0
  BY <1>1, PodTypes DEF Drops, CallFits
<1>3. /\ pod' \in [Worker -> PodCall] /\ LeaseOK' /\ Stays(w) /\ pod'[w].at = "idle" /\ pod'[w].ep = 0
      /\ podLease' \in Worker \cup {NoWorker}
  BY <1>1, ReturnsTo
<1>4. WritersOK' /\ RowsOK' /\ GoneFirst'
  BY <1>1, <1>3, QuietStep
<1>5. ASSUME NEW d \in Episode \ excuse'
      PROVE  EpisodeOK(d)'
  BY <1>1, <1>2, <1>3, DropStep
<1>6. QED
  BY <1>1, <1>3, <1>4, <1>5, PodTypes DEF PodInv, PodTypeOK

LEMMA RemoveFileKeeps ==
  ASSUME PodInv, NEW w \in Worker, NEW f \in pod[w].left, RemoveFile(w, f)
  PROVE  PodInv'
<1>1. /\ pod[w].at = "remove" /\ Heads(w, f) /\ MovesOn(w, "remove", pod[w].left \ {f}) /\ UNCHANGED <<episodes, podLease>>
      /\ \/ tree' = Unlink(tree, {At(f[1], f[2])}) /\ excuse' = excuse
         \/ tree' = tree /\ excuse' = excuse \cup {f[1]}
  BY DEF RemoveFile, NoFault, Fault
<1>2. pod[w].at \in Drops /\ "remove" \in Drops /\ pod[w].left \ {f} \in SUBSET pod[w].left
  BY <1>1 DEF Drops
<1>3. /\ pod' \in [Worker -> PodCall] /\ LeaseOK' /\ Stays(w)
      /\ pod'[w].at = "remove" /\ pod'[w].ep = 0 /\ pod'[w].left = pod[w].left \ {f} /\ pod[w].ep = 0
      /\ \A v \in Worker \ {w} : pod[v].at \notin HasLease
      /\ f[1] \in Episode /\ f[2] \in Name /\ pod[w].left \subseteq Episode \X Name
  BY <1>1, <1>2, DropMoves
<1>4. \A d \in Episode, m \in Name :
        /\ At(d, m) \in Place /\ Part(d, m) \in Place /\ Part(d, m) # At(f[1], f[2])
        /\ At(d, m) = At(f[1], f[2]) <=> d = f[1] /\ m = f[2]
  BY <1>3, Places
<1>5. /\ tree' \in [Place -> File]
      /\ \A q \in Place : tree'[q] = tree[q] \/ (q = At(f[1], f[2]) /\ ~tree'[q].there /\ tree'[q].writers = {})
      /\ excuse' = excuse => ~tree'[At(f[1], f[2])].there \/ f[1] \in excuse
  <2>1. CASE tree' = Unlink(tree, {At(f[1], f[2])})
    <3>1. {At(f[1], f[2])} \in SUBSET Place
      BY <1>3, <1>4
    <3>2. \A q \in Place : IF q \in {At(f[1], f[2])} THEN ~tree'[q].there /\ tree'[q].writers = {} ELSE tree'[q] = tree[q]
      BY <2>1, <3>1, Unlinked
    <3>3. tree' \in [Place -> File]
      BY <2>1, <3>1, Unlinked
    <3>4. QED
      BY <1>3, <1>4, <3>2, <3>3
  <2>2. CASE tree' = tree /\ excuse' = excuse \cup {f[1]}
    BY <2>2, PodTypes DEF PodTypeOK
  <2>3. QED
    BY <1>1, <2>1, <2>2
<1>6. \A p \in Place, v \in Worker : v \in tree'[p].writers => v \in tree[p].writers
  BY <1>5
<1>7. WritersOK' /\ RowsOK'
  BY <1>1, <1>2, <1>3, <1>6, DropSteps
<1>8. GoneFirst'
  BY <1>3 DEF GoneFirst, Stays, HasLease, Drops
<1>9. \A d \in Episode, m \in Name : /\ d # f[1] \/ m # f[2] => tree'[At(d, m)] = tree[At(d, m)]
                                     /\ tree'[Part(d, m)] = tree[Part(d, m)]
  BY <1>4, <1>5
<1>10. ASSUME NEW d \in Episode \ excuse', d # f[1]
       PROVE  EpisodeOK(d)'
  BY <1>1, <1>2, <1>3, <1>9, <1>10, DropStep
<1>11. ASSUME f[1] \notin excuse'
       PROVE  EpisodeOK(f[1])'
  <2>1. f[1] \in Episode \ excuse /\ EpisodeOK(f[1]) /\ ~tree'[At(f[1], f[2])].there
    BY <1>1, <1>3, <1>5, <1>11 DEF PodInv
  <2>2. (\A v \in Worker : pod'[v].ep = f[1] => PutOK(v, f[1])') /\ Alone(f[1])'
    BY <1>1, <1>2, <1>3, <1>9, <2>1, PutsBesideDrop
  <2>3. episodes[f[1]].row = 0
    BY <1>1, <1>3, PodTypes DEF RowsOK
  <2>4. ASSUME NEW m \in Name, tree'[At(f[1], m)].there
        PROVE  <<f[1], m>> \in pod'[w].left
    <3>1. m # f[2] /\ There(At(f[1], m)) /\ m # 0
      BY <1>3, <1>9, <2>1, <2>4, PodNames DEF There
    <3>2. \A v \in Worker \ {w} : pod[v].at \notin {"attach", "supersede", "remove"}
      BY <1>3 DEF HasLease, Drops
    <3>3. <<f[1], m>> \in pod[w].left
      BY <1>1, <2>1, <2>3, <3>1, <3>2 DEF EpisodeOK, Accounted
    <3>4. <<f[1], m>> # f
      BY <3>1
    <3>5. QED
      BY <1>3, <3>3, <3>4
  <2>5. Intact(f[1])' /\ Accounted(f[1])'
    BY <1>1, <1>3, <2>3, <2>4 DEF Intact, Accounted, There, Filed
  <2>6. QED
    BY <2>2, <2>5 DEF EpisodeOK
<1>12. QED
  BY <1>1, <1>3, <1>5, <1>7, <1>8, <1>10, <1>11, PodTypes DEF PodInv, PodTypeOK

LEMMA StartRemoveKeeps ==
  ASSUME PodInv, NEW w \in Worker, StartRemove(w)
  PROVE  PodInv'
<1> DEFINE es == {e \in Episode : episodes[e].in /\ Filed(e)}
           call == Dropping("remove", FilesOf(es))
<1>1. /\ pod[w] = NoOp /\ pod' = [pod EXCEPT ![w] = call] /\ UNCHANGED <<tree, excuse>>
      /\ podLease = NoWorker /\ podLease' = w
      /\ episodes' = [e \in Episode |-> [in |-> FALSE, row |-> 0, name |-> episodes[e].name, pinned |-> episodes[e].pinned]]
  BY DEF StartRemove
<1>2. \A e \in Episode, m \in Name : episodes[e].in /\ episodes[e].row = m => <<e, m>> \in call.left
  BY PodNames DEF Dropping, FilesOf, Filed
<1>3. call \in PodCall /\ CallFits(call) /\ call.at = "remove" /\ call.ep = 0
  <2>1. call.left = FilesOf(es)
    BY DEF Dropping
  <2>2. FilesOf(es) \in SUBSET (Episode \X Name)
    BY PodTypes DEF FilesOf, Filed, EpisodeRow
  <2>3. QED
    BY <2>1, <2>2, PodNames DEF Dropping, PodCall, CallFits, Puts, Drops
<1>4. call.left \subseteq Episode \X Name
  BY <1>3 DEF PodCall
<1> HIDE DEF call, es
<1>5. pod[w].at = "idle" /\ pod[w].ep = 0 /\ pod[w].left = {} /\ call.at \in HasLease
  BY <1>1, <1>3 DEF NoOp, HasLease, Drops
<1>6. pod' \in [Worker -> PodCall] /\ LeaseOK' /\ Stays(w) /\ pod'[w] = call
  BY <1>1, <1>3, <1>5, CallStep
<1>7. \A v \in Worker : pod[v].at \notin HasLease
  BY <1>1, PodTypes, PodNames DEF LeaseOK
<1>8. episodes' \in [Episode -> EpisodeRow] /\ \A e \in Episode : ~episodes'[e].in /\ episodes'[e].row = 0
  BY <1>1, PodTypes DEF EpisodeRow
<1>9. WritersOK'
  BY <1>1, <1>5, <1>6, PodTypes DEF WritersOK, Stays
<1>10. \A v \in Worker \ {w} : pod'[v].at \notin HasLease
  BY <1>6, <1>7 DEF Stays
<1>11. RowsOK' /\ GoneFirst'
  BY <1>3, <1>4, <1>6, <1>8, <1>10 DEF RowsOK, GoneFirst, HasLease, Drops
<1>12. ASSUME NEW e \in Episode \ excuse
       PROVE  EpisodeOK(e)'
  <2>1. EpisodeOK(e) /\ e # 0
    BY PodNames DEF PodInv
  <2>2. Alone(e)'
    BY <1>3, <1>6, <2>1 DEF EpisodeOK, Alone, Stays
  <2>3. ASSUME NEW v \in Worker, pod'[v].ep = e
        PROVE  PutOK(v, e)'
    <3>1. v # w /\ pod'[v] = pod[v] /\ pod[v].ep = e /\ PutOK(v, e)
      BY <1>3, <1>6, <2>1, <2>3 DEF Stays, EpisodeOK
    <3>2. QED
      BY <1>1, <1>7, <1>8, <3>1 DEF PutOK, HasLease, There
  <2>4. Intact(e)'
    BY <1>8 DEF Intact, Filed
  <2>5. ASSUME NEW m \in Name, There(At(e, m))
        PROVE  <<e, m>> \in call.left
    <3>1. episodes[e].row = m
      BY <1>7, <2>1, <2>5 DEF EpisodeOK, Accounted, HasLease, Drops
    <3>2. episodes[e].in
      BY <3>1, PodNames, PodTypes DEF RowsOK
    <3>3. QED
      BY <1>2, <3>1, <3>2
  <2>6. Accounted(e)'
    BY <1>1, <1>3, <1>6, <2>5 DEF Accounted, There
  <2>7. QED
    BY <2>2, <2>3, <2>4, <2>6 DEF EpisodeOK
<1>13. QED
  BY <1>1, <1>6, <1>8, <1>9, <1>11, <1>12, PodTypes DEF PodInv, PodTypeOK

LEMMA DropsDoneKeeps ==
  ASSUME PodInv, NEW w \in Worker, DropsDone(w)
  PROVE  PodInv'
<1>1. /\ pod[w].at \in {"unlink", "remove"} /\ pod[w].left = {} /\ Returns(w) /\ UNCHANGED <<episodes, tree, excuse>>
  BY DEF DropsDone, NoFault
<1>2. pod[w].ep = 0
  BY <1>1, PodTypes DEF Drops, CallFits
<1>3. /\ pod' \in [Worker -> PodCall] /\ LeaseOK' /\ Stays(w) /\ pod'[w].at = "idle" /\ pod'[w].ep = 0
      /\ podLease' \in Worker \cup {NoWorker}
  BY <1>1, ReturnsTo
<1>4. WritersOK' /\ RowsOK' /\ GoneFirst'
  BY <1>1, <1>3, QuietStep
<1>5. ASSUME NEW d \in Episode \ excuse
      PROVE  EpisodeOK(d)'
  BY <1>1, <1>2, <1>3, PodNames, OtherEpisode
<1>6. QED
  BY <1>1, <1>3, <1>4, <1>5, PodTypes DEF PodInv, PodTypeOK

(***************************************************************************)
(* Syncs and crashes.                                                      *)
(***************************************************************************)
LEMMA RenameBySyncKeeps ==
  ASSUME PodInv, NEW e \in Episode, NEW n \in Name, RenameBySync(e, n)
  PROVE  PodInv'
<1>1. episodes' = [episodes EXCEPT ![e].name = n] /\ UNCHANGED <<tree, podLease, pod, excuse>>
  BY DEF RenameBySync
<1>2. /\ episodes' \in [Episode -> EpisodeRow]
      /\ \A d \in Episode : episodes'[d].row = episodes[d].row /\ episodes'[d].in = episodes[d].in
  BY <1>1, PodTypes DEF PodTypeOK, EpisodeRow
<1>3. PodTypeOK' /\ LeaseOK' /\ WritersOK' /\ GoneFirst'
  <2>1. PodTypeOK'
    BY <1>1, <1>2, PodTypes DEF PodTypeOK
  <2>2. LeaseOK'
    BY <1>1, PodTypes DEF LeaseOK, CallFits
  <2>3. WritersOK' /\ GoneFirst'
    BY <1>1, PodTypes DEF WritersOK, GoneFirst, Heads, There
  <2>4. QED
    BY <2>1, <2>2, <2>3
<1>4. RowsOK'
  <2>1. \A v \in Worker : pod[v].at = "supersede" => pod[v].ep \in Episode
    BY PodTypes DEF CallFits, Puts
  <2>2. \A v \in Worker, f \in Episode \X Name : f \in pod[v].left => f[1] \in Episode
    OBVIOUS
  <2>3. \A v \in Worker : pod[v].left \subseteq Episode \X Name
    BY PodTypes DEF PodCall
  <2>4. QED
    BY <1>1, <1>2, <2>1, <2>2, <2>3, PodTypes DEF RowsOK
<1>5. ASSUME NEW d \in Episode \ excuse
      PROVE  EpisodeOK(d)'
  <2>1. EpisodeOK(d)
    BY DEF PodInv
  <2>2. Alone(d)' /\ \A v \in Worker : pod'[v].ep = d => PutOK(v, d)'
    BY <1>1, <1>2, <2>1 DEF EpisodeOK, Alone, PutOK, There
  <2>3. Intact(d)' /\ Accounted(d)'
    BY <1>1, <1>2, <2>1 DEF EpisodeOK, Intact, Accounted, There, Filed, Dropped, Heads
  <2>4. QED
    BY <2>2, <2>3 DEF EpisodeOK
<1>6. QED
  BY <1>1, <1>3, <1>4, <1>5 DEF PodInv

LEMMA CrashPodKeeps == PodInv /\ CrashPod => PodInv'
<1> SUFFICES ASSUME PodInv, CrashPod PROVE PodInv'
  OBVIOUS
<1>1. /\ excuse' = excuse \cup ({pod[w].ep : w \in Worker} \cup UNION {{f[1] : f \in pod[w].left} : w \in Worker})
      /\ tree' = [p \in Place |-> [tree[p] EXCEPT !.writers = {}]]
      /\ pod' = [w \in Worker |-> NoOp] /\ podLease' = NoWorker /\ episodes' = episodes
  BY DEF CrashPod, Fault
<1>2. /\ tree' \in [Place -> File]
      /\ \A p \in Place : tree'[p].there = tree[p].there /\ tree'[p].chunks = tree[p].chunks /\ tree'[p].writers = {}
  BY <1>1, PodTypes DEF File
<1>3. NoOp.at = "idle" /\ NoOp.ep = 0 /\ NoOp.left = {}
  BY DEF NoOp
<1>4. PodTypeOK'
  BY <1>1, <1>2, IdlePod, PodTypes DEF PodTypeOK
<1>5. LeaseOK'
  <2>1. \A w \in Worker : CallFits(pod'[w])
    BY <1>1, IdlePod
  <2>2. \A w \in Worker : podLease' # w /\ pod'[w].at \notin HasLease
    BY <1>1, <1>3, PodNames DEF HasLease, Drops
  <2>3. QED
    BY <2>1, <2>2 DEF LeaseOK, CallFits
<1>6. WritersOK' /\ RowsOK' /\ GoneFirst'
  BY <1>1, <1>2, <1>3, PodTypes DEF WritersOK, RowsOK, GoneFirst
<1>7. ASSUME NEW d \in Episode \ excuse'
      PROVE  EpisodeOK(d)'
  <2>1. d \in Episode \ excuse /\ EpisodeOK(d) /\ d # 0
    BY <1>1, <1>7, PodNames DEF PodInv
  <2>2. \A w \in Worker : pod[w].ep # d /\ \A f \in pod[w].left : f[1] # d
    BY <1>1, <1>7
  <2>3. Alone(d)' /\ \A v \in Worker : pod'[v].ep = d => PutOK(v, d)'
    BY <1>1, <1>3, <2>1 DEF Alone
  <2>4. ~Dropped(d)
    BY <2>2 DEF Dropped
  <2>5. Filed(d) => episodes[d].row \in Name
    BY PodTypes DEF Filed, EpisodeRow
  <2>6. \A m \in Name : At(d, m) \in Place
    BY Places
  <2>7. Intact(d)'
    BY <1>1, <1>2, <2>1, <2>4, <2>5, <2>6 DEF EpisodeOK, Intact, There, Filed
  <2>8. \A m \in Name : There(At(d, m)) => episodes[d].row = m
    <3> SUFFICES ASSUME NEW m \in Name, There(At(d, m)), episodes[d].row # m PROVE FALSE
      OBVIOUS
    <3>1. \A w \in Worker : <<d, m>> \notin pod[w].left
      BY <2>2
    <3>2. QED
      BY <2>1, <2>2, <3>1 DEF EpisodeOK, Accounted
  <2>9. Accounted(d)'
    BY <1>1, <1>2, <2>6, <2>8 DEF Accounted, There
  <2>10. QED
    BY <2>3, <2>7, <2>9 DEF EpisodeOK
<1>8. QED
  BY <1>4, <1>5, <1>6, <1>7 DEF PodInv

LEMMA PodStarts == PodInit => PodInv
<1> SUFFICES ASSUME PodInit PROVE PodInv
  OBVIOUS
<1>1. PICK pins \in SUBSET Episode, fetched \in SUBSET Episode :
        /\ episodes = [e \in Episode |-> [in |-> TRUE, row |-> IF e \in fetched THEN FirstName ELSE 0,
                                          name |-> FirstName, pinned |-> e \in pins]]
        /\ tree = [p \in Place |-> IF \E e \in fetched : p = At(e, FirstName) THEN WholeFile ELSE NoFile]
  BY DEF PodInit
<1>2. podLease = NoWorker /\ pod = [w \in Worker |-> NoOp] /\ excuse = {}
  BY DEF PodInit
<1>3. NoOp.at = "idle" /\ NoOp.ep = 0 /\ NoOp.left = {}
  BY DEF NoOp
<1>4. PodTypeOK
  BY <1>1, <1>2, IdlePod, PodNames DEF PodTypeOK, EpisodeRow
<1>5. LeaseOK
  <2>1. \A w \in Worker : CallFits(pod[w])
    BY <1>2, IdlePod
  <2>2. \A w \in Worker : podLease # w /\ pod[w].at \notin HasLease
    BY <1>2, <1>3, PodNames DEF HasLease, Drops
  <2>3. QED
    BY <2>1, <2>2 DEF LeaseOK
<1>6. \A p \in Place : tree[p].writers = {}
  BY <1>1 DEF WholeFile, NoFile
<1>7. \A e \in Episode : episodes[e].in /\ episodes[e].row = IF e \in fetched THEN FirstName ELSE 0
  BY <1>1
<1>8. WritersOK /\ RowsOK /\ GoneFirst
  BY <1>2, <1>3, <1>6, <1>7 DEF WritersOK, RowsOK, GoneFirst
<1>9. ASSUME NEW d \in Episode PROVE EpisodeOK(d)
  <2>1. Alone(d) /\ \A w \in Worker : pod[w].ep # d
    BY <1>2, <1>3, PodNames DEF Alone
  <2>2. \A m \in Name : tree[At(d, m)] = IF d \in fetched /\ m = FirstName THEN WholeFile ELSE NoFile
    <3> SUFFICES ASSUME NEW m \in Name
                 PROVE  tree[At(d, m)] = IF d \in fetched /\ m = FirstName THEN WholeFile ELSE NoFile
      OBVIOUS
    <3>1. At(d, m) \in Place
      BY Places
    <3>2. (\E e \in fetched : At(d, m) = At(e, FirstName)) <=> d \in fetched /\ m = FirstName
      BY Places, PodNames
    <3>3. QED
      BY <1>1, <3>1, <3>2
  <2>3. WholeFile.there /\ WholeFile.chunks = Whole /\ ~NoFile.there
    BY DEF WholeFile, NoFile
  <2>4. Intact(d) /\ Accounted(d)
    BY <1>7, <2>2, <2>3, PodNames DEF Intact, Accounted, There, Filed
  <2>5. QED
    BY <2>1, <2>4 DEF EpisodeOK
<1>10. QED
  BY <1>4, <1>5, <1>8, <1>9 DEF PodInv

\* A step of a call that puts a file in place is one of its episode and file name.
LEMMA PutKeeps ==
  ASSUME PodInv, NEW w \in Worker,
         \/ CreatePart(w) \/ WriteChunk(w) \/ DiscardPart(w) \/ TakePodLease(w) \/ RenamePart(w)
         \/ Attach(w) \/ AttachRefused(w) \/ FileRowFails(w) \/ Supersede(w) \/ ImportRefused(w) \/ ImportMove(w)
  PROVE  PodInv'
<1>1. pod[w].at \in Puts
  BY DEF CreatePart, WriteChunk, DiscardPart, TakePodLease, RenamePart, Attach, AttachRefused, FileRowFails, Supersede,
         ImportRefused, ImportMove, Puts
<1>2. pod[w].ep \in Episode /\ pod[w].dst \in Name
  BY <1>1, PodTypes DEF CallFits
<1>3. PICK e \in Episode, n \in Name : pod[w].ep = e /\ pod[w].dst = n
  BY <1>2
<1>4. CASE CreatePart(w)
  BY <1>3, <1>4, CreatePartKeeps
<1>5. CASE WriteChunk(w)
  BY <1>3, <1>5, WriteChunkKeeps
<1>6. CASE DiscardPart(w)
  BY <1>3, <1>6, DiscardPartKeeps
<1>7. CASE TakePodLease(w)
  BY <1>3, <1>7, TakePodLeaseKeeps
<1>8. CASE RenamePart(w)
  BY <1>3, <1>8, RenamePartKeeps
<1>9. CASE Attach(w)
  BY <1>3, <1>9, AttachKeeps
<1>10. CASE AttachRefused(w)
  BY <1>3, <1>10, AttachRefusedKeeps
<1>11. CASE Supersede(w)
  BY <1>3, <1>11, SupersedeKeeps
<1>12. CASE ImportRefused(w)
  BY <1>3, <1>12, ImportRefusedKeeps
<1>13. CASE ImportMove(w)
  BY <1>3, <1>13, ImportMoveKeeps
<1>14. CASE FileRowFails(w)
  BY <1>3, <1>14, FileRowFailsKeeps
<1>15. QED
  BY <1>4, <1>5, <1>6, <1>7, <1>8, <1>9, <1>10, <1>11, <1>12, <1>13, <1>14

LEMMA PodSteps == PodInv /\ PodNext => PodInv'
<1> SUFFICES ASSUME PodInv, PodNext PROVE PodInv'
  OBVIOUS
<1>1. ASSUME NEW w \in Worker, NEW e \in Episode, StartDownload(w, e) PROVE PodInv'
  BY <1>1, StartDownloadKeeps
<1>2. ASSUME NEW w \in Worker, NEW e \in Episode, NEW n \in Name, StartImport(w, e, n) PROVE PodInv'
  BY <1>2, StartImportKeeps
<1>3. ASSUME NEW w \in Worker,
             \/ CreatePart(w) \/ WriteChunk(w) \/ DiscardPart(w) \/ TakePodLease(w) \/ RenamePart(w)
             \/ Attach(w) \/ AttachRefused(w) \/ FileRowFails(w) \/ Supersede(w) \/ ImportRefused(w) \/ ImportMove(w)
      PROVE  PodInv'
  BY <1>3, PutKeeps
<1>4. ASSUME NEW w \in Worker, NEW e \in Episode, Filed(e), StartDrop(w, {e}) PROVE PodInv'
  <2>1. {e} \in SUBSET Episode /\ \A d \in {e} : Filed(d)
    BY <1>4
  <2>2. QED
    BY <1>4, <2>1, StartDropKeeps
<1>5. ASSUME NEW w \in Worker, StartDrop(w, Expired) PROVE PodInv'
  <2>1. Expired \in SUBSET Episode /\ \A d \in Expired : Filed(d)
    BY DEF Expired, Downloaded
  <2>2. QED
    BY <1>5, <2>1, StartDropKeeps
<1>6. ASSUME NEW w \in Worker, NEW f \in pod[w].left,
             UnlinkEpisode(w, f) \/ UnlinkFails(w, f) \/ DropEpisodeFile(w, f) \/ DropFails(w, f) \/ RemoveFile(w, f)
      PROVE  PodInv'
  BY <1>6, UnlinkEpisodeKeeps, UnlinkFailsKeeps, DropEpisodeFileKeeps, DropFailsKeeps, RemoveFileKeeps
<1>7. ASSUME NEW w \in Worker, StartRemove(w) \/ DropsDone(w) PROVE PodInv'
  BY <1>7, StartRemoveKeeps, DropsDoneKeeps
<1>8. ASSUME NEW e \in Episode, NEW n \in Name, RenameBySync(e, n) PROVE PodInv'
  BY <1>8, RenameBySyncKeeps
<1>9. CASE CrashPod
  BY <1>9, CrashPodKeeps
<1>10. QED
  BY <1>1, <1>2, <1>3, <1>4, <1>5, <1>6, <1>7, <1>8, <1>9 DEF PodNext

LEMMA PodStutters == PodInv /\ UNCHANGED podVars => PodInv'
<1> SUFFICES ASSUME PodInv, UNCHANGED podVars PROVE PodInv'
  OBVIOUS
<1>1. UNCHANGED <<episodes, tree, podLease, pod, excuse>>
  BY DEF podVars
<1>2. QED
  BY <1>1 DEF PodInv, PodTypeOK, LeaseOK, WritersOK, RowsOK, GoneFirst, CallFits, EpisodeOK, Alone, PutOK, Intact,
              Accounted, Dropped, Heads, There, Filed

\* Downloads, imports, unfetches, retention passes and unsubscribes keep the invariant of
\* the rows, the files and the lease, however many of them run at once.
THEOREM PodInvariance == PodSpec => []PodInv
<1>1. PodInit => PodInv
  BY PodStarts
<1>2. PodInv /\ [PodNext]_podVars => PodInv'
  BY PodSteps, PodStutters
<1>3. QED
  BY <1>1, <1>2, PTL DEF PodSpec

\* An episode that says present has its whole file, and no file is left that no row names,
\* for any callers, episodes and file names (download.go, unfetch.go).
THEOREM EpisodesHoldAlways == PodSpec => []EpisodesHold
<1>1. PodInv => EpisodesHold
  BY PodInvHolds
<1>2. QED
  BY <1>1, PodInvariance, PTL
=============================================================================
