------------------------------- MODULE Feeds -------------------------------
(***************************************************************************)
(* Subscriptions: adding, syncing, moving and removing shows.  A call      *)
(* reads the show, asks the source without any lock, and writes what came  *)
(* back in one transaction, by the pid it read.                            *)
(*                                                                         *)
(* An address serves the first n episodes of its feed and, from some time  *)
(* on, the feed's guid, which all addresses share.  Validators name the    *)
(* answer they came with.                                                  *)
(***************************************************************************)
EXTENDS Integers, FiniteSets

CONSTANTS
  Caller,     \* goroutines that add and sync
  Url,        \* addresses of the one feed, all of one origin
  Login,      \* logins somebody may give
  MaxShows, MaxNews, MaxCalls  \* bounds: shows ever, changes at the source, calls

ASSUME FeedsAssumption ==
  /\ IsFiniteSet(Url) /\ IsFiniteSet(Login) /\ "none" \notin Url
  /\ {MaxShows, MaxNews, MaxCalls} \subseteq Nat

VARIABLES
  served,    \* address -> episodes it lists, whether the guid is there, where it moved to
  shows,     \* pid -> the row: address, identity key, validators, login
  entries,     \* episodes: show, the show key its own key begins with, its number
  feedCall,  \* caller -> what it read and was answered
  callsLeft, newsLeft,
  crossed    \* history: shows removed, or written by a call that had read them before another's write

feedVars == <<served, shows, entries, feedCall, callsLeft, newsLeft, crossed>>

Show == 1..MaxShows
NoUrl == "none"
NoLogin == "nobody"
Guid == "guid"
NoTag == [url |-> NoUrl, n |-> 0]
NoShow == [url |-> NoUrl, key |-> NoUrl, tag |-> NoTag, login |-> NoLogin]
NoCaller == [at |-> "idle", op |-> "none", pid |-> 0, url |-> NoUrl, login |-> NoLogin, asked |-> NoShow, got |-> NoTag,
             key |-> NoUrl, moved |-> NoUrl, replace |-> FALSE]
Live == {p \in Show : shows[p] # NoShow}

FeedsInit ==
  /\ served = [u \in Url |-> [n |-> 1, guid |-> FALSE, moved |-> NoUrl]]
  /\ shows = [p \in Show |-> NoShow]
  /\ entries = {}
  /\ feedCall = [c \in Caller |-> NoCaller]
  /\ callsLeft = MaxCalls /\ newsLeft = MaxNews
  /\ crossed = {}

-----------------------------------------------------------------------------
(***************************************************************************)
(* The source.                                                             *)
(***************************************************************************)
Publish(u) ==
  /\ newsLeft > 0
  /\ newsLeft' = newsLeft - 1
  /\ \/ served' = [served EXCEPT ![u].n = served[u].n + 1]
     \/ ~served[u].guid /\ served' = [served EXCEPT ![u].guid = TRUE]
     \/ \E to \in Url \ {u} : /\ served[u].moved = NoUrl /\ served[to].moved = NoUrl
                              /\ served' = [served EXCEPT ![u].moved = to]
  /\ UNCHANGED <<shows, entries, feedCall, callsLeft, crossed>>

\* What an address answers with: through its permanent redirect, if it has one.
Answered(u) == IF served[u].moved = NoUrl THEN u ELSE served[u].moved
TagOf(u) == [url |-> Answered(u), n |-> served[Answered(u)].n]
KeyOf(u) == IF served[Answered(u)].guid THEN Guid ELSE u

-----------------------------------------------------------------------------
Begins(c, call) ==
  /\ feedCall[c] = NoCaller /\ callsLeft > 0
  /\ callsLeft' = callsLeft - 1
  /\ feedCall' = [feedCall EXCEPT ![c] = call]
  /\ UNCHANGED <<served, newsLeft, shows, entries, crossed>>

Finishes(c) == feedCall' = [feedCall EXCEPT ![c] = NoCaller]

\* A call that has read the show p, if there is one, and asks the source at u.
Asks(op, p, u, login, replace) ==
  [at |-> "ask", op |-> op, pid |-> p, url |-> u, login |-> login, asked |-> IF p = 0 THEN NoShow ELSE shows[p],
   got |-> NoTag, key |-> NoUrl, moved |-> NoUrl, replace |-> replace]

\* sync: the show is read and the source asked with its validators.
StartSync(c, p) ==
  /\ p \in Live
  /\ Begins(c, Asks("sync", p, shows[p].url, NoLogin, FALSE))

\* AddSource: the show at the address, whose login is used when none is given.
StartAdd(c, u, login, replace) ==
  LET here == {p \in Live : shows[p].url = u}
      p == IF here = {} THEN 0 ELSE CHOOSE x \in here : TRUE IN
  Begins(c, Asks("add", p, u, login, replace))

\* The answer; a source that has nothing newer than the validators says so.
Enumerate(c) ==
  LET call == feedCall[c]  u == call.url IN
  /\ call.at = "ask"
  /\ \/ Finishes(c)  \* the source fails
     \/ feedCall' = [feedCall EXCEPT ![c] =
          [at |-> IF call.op = "add" THEN "decide" ELSE IF call.asked.tag = TagOf(u) THEN "unchanged" ELSE "write",
           got |-> TagOf(u), key |-> IF call.op = "add" THEN KeyOf(u) ELSE call.asked.key,
           moved |-> IF call.op = "add" THEN u ELSE Answered(u),
           op |-> call.op, pid |-> call.pid, url |-> u, login |-> call.login, asked |-> call.asked, replace |-> call.replace]]
  /\ UNCHANGED <<served, newsLeft, shows, entries, callsLeft, crossed>>

\* Mutant: an add that asked otherwise than the show's sync writes all the same.
NeverGivesWay(call, p, asIs) == FALSE

GivesWay(call, p, asIs) == p # 0 /\ ~call.replace /\ ~asIs

\* AddSource looks for the show by the feed's key when its address found none, and
\* gives way unless it asked as the show's sync asks or is to replace its address.
DecideShow(c) ==
  LET call == feedCall[c]
      keyed == {p \in Live : shows[p].key = call.key}
      p == IF call.pid # 0 THEN call.pid ELSE IF keyed = {} THEN 0 ELSE CHOOSE x \in keyed : TRUE
      prior == IF call.pid # 0 THEN call.asked ELSE shows[p]
      asIs == call.pid # 0 /\ call.login \in {NoLogin, prior.login} IN
  /\ call.at = "decide"
  /\ IF GivesWay(call, p, asIs) THEN Finishes(c)
     ELSE feedCall' = [feedCall EXCEPT ![c] =
            [at |-> "write", pid |-> p, asked |-> IF p = 0 THEN NoShow ELSE prior,
             login |-> IF p = 0 \/ call.replace THEN call.login ELSE NoLogin,
             op |-> call.op, url |-> call.url, got |-> call.got, key |-> call.key, moved |-> call.moved,
             replace |-> call.replace]]
  /\ UNCHANGED <<served, newsLeft, shows, entries, callsLeft, crossed>>

-----------------------------------------------------------------------------
(***************************************************************************)
(* UpsertFeed.                                                             *)
(***************************************************************************)
\* Mutant: the episodes keep the key of the show's old identity.
RekeyNothing(p, key) == entries

\* rekeyEpisodes.
Rekey(p, key) == {IF i.show = p /\ i.key = shows[p].key THEN [i EXCEPT !.key = key] ELSE i : i \in entries}

\* upsertPodcast's row: a key or an address another show holds stays with it.
KeyFor(p, key) == IF \E q \in Live \ {p} : shows[q].key = key THEN shows[p].key ELSE key
UrlFor(p, u) == IF \E q \in Live \ {p} : shows[q].url = u THEN shows[p].url ELSE u

\* Mutant: only what was published last.
IngestNewest(known, p, key, n) ==
  known \cup {[show |-> p, key |-> key, n |-> m] : m \in {x \in {n} : ~\E i \in known : i.key = key /\ i.n = x}}

\* Every episode of the answer that has no row yet, under the key of the show.
Ingest(known, p, key, n) ==
  known \cup {[show |-> p, key |-> key, n |-> m] : m \in {x \in 1..n : ~\E i \in known : i.key = key /\ i.n = x}}

\* The login a write stores: an add's, an empty one when a move is given none.
LoginAfter(call, p, url) ==
  IF call.op = "sync" THEN shows[p].login
  ELSE IF call.login # NoLogin THEN call.login
  ELSE IF call.pid # 0 /\ call.replace /\ call.asked.url # call.url THEN NoLogin ELSE shows[p].login

\* The validators land with the episodes.
WriteTo(c, p) ==
  LET call == feedCall[c]
      key == KeyFor(p, call.key)
      url == UrlFor(p, call.moved) IN
  /\ shows' = [shows EXCEPT ![p] = [url |-> url, key |-> key, tag |-> call.got, login |-> LoginAfter(call, p, url)]]
  /\ entries' = Ingest(Rekey(p, key), p, key, call.got.n)
  /\ crossed' = IF call.asked # shows[p] THEN crossed \cup {p} ELSE crossed

\* Found by pid, or by address before key; a pid that is gone is an error.
WriteFeed(c) ==
  LET call == feedCall[c]
      at == {p \in Live : shows[p].url = call.moved}
      keyed == {p \in Live : shows[p].key = call.key}
      found == IF call.pid # 0 THEN {call.pid} \cap Live ELSE IF at # {} THEN at ELSE keyed
      used == Live \cup crossed
      new == {p \in Show \ used : \A q \in Show : q < p => q \in used} IN
  /\ call.at = "write"
  /\ \/ /\ found # {}
        /\ WriteTo(c, CHOOSE p \in found : TRUE)
     \/ /\ found = {} /\ call.pid # 0
        /\ UNCHANGED <<shows, entries, crossed>>
     \/ /\ found = {} /\ call.pid = 0
        /\ \E p \in new :
             /\ shows' = [shows EXCEPT ![p] = [url |-> call.moved, key |-> call.key, tag |-> call.got, login |-> call.login]]
             /\ entries' = Ingest(entries, p, call.key, call.got.n)
        /\ UNCHANGED crossed
  /\ Finishes(c)
  /\ UNCHANGED <<served, newsLeft, callsLeft>>

\* A sync answered NotModified moves the address at most.
MoveFeed(c) ==
  LET call == feedCall[c]  p == call.pid IN
  /\ call.at = "unchanged"
  /\ shows' = IF p \in Live /\ call.moved # call.asked.url THEN [shows EXCEPT ![p].url = UrlFor(p, call.moved)] ELSE shows
  /\ crossed' = IF shows' # shows /\ call.asked # shows[p] THEN crossed \cup {p} ELSE crossed
  /\ Finishes(c)
  /\ UNCHANGED <<served, newsLeft, entries, callsLeft>>

\* SetPodcastAuth.
SetAuth(p, login) ==
  /\ p \in Live /\ shows[p].login # login /\ callsLeft > 0
  /\ callsLeft' = callsLeft - 1
  /\ shows' = [shows EXCEPT ![p].login = login]
  /\ UNCHANGED <<served, newsLeft, entries, feedCall, crossed>>

\* RemovePodcast: the pid is not used again.
RemoveShow(p) ==
  /\ p \in Live /\ callsLeft > 0
  /\ callsLeft' = callsLeft - 1
  /\ shows' = [shows EXCEPT ![p] = NoShow]
  /\ entries' = {i \in entries : i.show # p}
  /\ crossed' = crossed \cup {p}
  /\ UNCHANGED <<served, newsLeft, feedCall>>

FeedsNext ==
  \/ \E u \in Url : Publish(u)
  \/ \E c \in Caller :
       \/ \E p \in Show : StartSync(c, p)
       \/ \E u \in Url, login \in Login \cup {NoLogin}, replace \in BOOLEAN : StartAdd(c, u, login, replace)
       \/ Enumerate(c) \/ DecideShow(c) \/ WriteFeed(c) \/ MoveFeed(c)
  \/ \E p \in Show : RemoveShow(p) \/ (\E login \in Login \cup {NoLogin} : SetAuth(p, login))

FeedsSpec == FeedsInit /\ [][FeedsNext]_feedVars

-----------------------------------------------------------------------------
(***************************************************************************)
(* Properties                                                              *)
(***************************************************************************)
\* Shows share neither an address nor a key, and an episode's key begins with its show's:
\* otherwise the next sync inserts the whole feed again.
EpisodesKeyed ==
  /\ \A p, q \in Live : p # q => shows[p].url # shows[q].url /\ shows[p].key # shows[q].key
  /\ \A i \in entries : i.show \in Live /\ i.key = shows[i.show].key
  /\ \A i, j \in entries : i.show = j.show /\ i.n = j.n => i = j

\* "A provider that gets the validators back on the next sync can take them as proof that
\* the episodes committed", whatever calls crossed.
ValidatorsProve == \A p \in Live : \A n \in 1..shows[p].tag.n : \E i \in entries : i.show = p /\ i.n = n

\* "A show already subscribed keeps its stored address and login when it is added again":
\* they change only in a write that is to replace them or saw them as they were.
AddressKept == \A p \in Live \ crossed' :
  shows'[p] # NoShow /\ (shows'[p].url # shows[p].url \/ shows'[p].login # shows[p].login) =>
    \/ \E c \in Caller : feedCall[c].pid = p /\ feedCall[c].at \in {"write", "unchanged"} /\ feedCall'[c] = NoCaller
                         /\ (feedCall[c].replace \/ (feedCall[c].op = "sync" /\ shows'[p].login = shows[p].login))
    \/ callsLeft' < callsLeft

\* Episodes stay keyed one by one, stored validators prove what was committed,
\* and a subscribed show keeps its address and login (podcast.go).
FeedsHold ==
  /\ [](EpisodesKeyed /\ ValidatorsProve)
  /\ [][AddressKept]_feedVars
=============================================================================
