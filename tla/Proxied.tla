------------------------------ MODULE Proxied ------------------------------
(***************************************************************************)
(* A mutating command's way to the library: opened by the command itself,  *)
(* or through the socket of a running server, as one call or as a job the  *)
(* server runs and the command follows.  What the library is asked, and    *)
(* what the command is told, is to be the same either way.                 *)
(*                                                                         *)
(* A request's arguments are its options; pids and values travel beside    *)
(* them and are left out.  A report is the set of facts it states: those   *)
(* the command shows, and those only the process that did the work uses.   *)
(***************************************************************************)
EXTENDS Naturals, Sequences, FiniteSets

CONSTANTS
  Refusals,   \* <<class, reason>> of the errors the library gives
  MaxGiven    \* options a command gives at most

ASSUME ProxiedAssumption == MaxGiven \in Nat /\ \A r \in Refusals : r[1] # "ok"

VARIABLES
  command,   \* the method and its options
  server,    \* what stands at the socket beside the catalog
  phase,     \* how far the command is
  handler,   \* what the server has of the request: "none", "frame", "answered", "dropped"
  frame,     \* the options on the wire
  reply,     \* the server's response
  job,       \* the row of the job the server started
  asked,     \* history: what the library was asked, in order
  verdict,   \* history: what the library said of it
  told       \* what the command was told, and by whom

proxiedVars == <<command, server, phase, handler, frame, reply, job, asked, verdict, told>>

-----------------------------------------------------------------------------
(***************************************************************************)
(* The methods by family, and the options each one's request carries.      *)
(***************************************************************************)
EditMethods ==
  {"edit_fields", "edit_many_fields", "edit_batch", "set_credits", "set_credits_batch",
   "set_lyrics", "set_chapters"}
EditParams(m) ==
  IF m \in {"set_lyrics", "set_chapters"} THEN {"lock", "force"}
  ELSE {"writeBack", "source", "provider", "lock", "force"}
       \cup (IF m = "edit_fields" THEN {} ELSE {"skipLocked"})

ArtMethods == {"set_item_art", "set_entity_art", "set_art_lock"}
ArtParams(m) ==
  {"role"} \cup (IF m = "set_art_lock" THEN {}
                 ELSE {"source", "provider", "sourceUrl", "format", "lock", "force", "writeBack"})

EntityMethods ==
  {"set_tags", "edit_entity", "rename_entity", "detach", "set_acquisition", "clear_acquisition"}
EntityParams(m) ==
  CASE m = "detach" -> {"writeBack"}
    [] m \in {"set_acquisition", "clear_acquisition"} -> {"lock", "force", "writeBack"}
    [] OTHER -> {"source", "provider", "lock", "force", "writeBack"}

AdminMethods == {"lock", "unlock", "create_user", "merge", "unfold_entity", "mark_missing"}
AdminParams(m) == IF m = "mark_missing" THEN {"force"} ELSE {}

PlayMethods ==
  {"set_rating", "set_star", "set_entity_star", "set_entity_rating", "mark_played",
   "set_played", "set_progress", "record_session"}
PlayParams(m) ==
  IF m = "record_session" THEN {}
  ELSE {"asOf"} \cup (IF m = "set_played" THEN {"playCount"} ELSE {})

PlaylistMethods ==
  {"playlist_create", "playlist_delete", "playlist_rename", "playlist_set_description",
   "playlist_import_m3u8", "playlist_add", "playlist_remove", "playlist_remove_at",
   "playlist_remove_many", "playlist_set_owner", "playlist_set_rule"}
PlaylistParams(m) ==
  CASE m \in {"playlist_create", "playlist_set_rule"} -> {"rule"}
    [] m = "playlist_remove_many" -> {"expect"}
    [] m = "playlist_remove_at" -> {"expectPid"}
    [] OTHER -> {}

PodcastMethods ==
  {"put_transcript", "fetch_transcript", "fetch_chapters", "unfetch", "podcast_remove", "add_root",
   "set_library_read_only", "set_library_folder_fallback"}
PodcastParams(m) ==
  CASE m = "put_transcript" -> {"sourceUrl"}
    [] m = "add_root" -> {"profile", "allowAbsent"}
    [] OTHER -> {}

JobMethods ==
  {"run_scan", "run_analyze", "run_enrich", "run_organize", "run_organize_undo", "run_unfold",
   "run_set_kind", "run_remove_root"}
JobParams(m) ==
  CASE m = "run_scan" -> {"library", "subPath", "force", "adoptStamped", "forceReconcile", "ignoreLocks", "reResolve"}
    [] m = "run_unfold" -> {"reResolve"}
    [] m = "run_analyze" -> {"writeReplayGainTags"}
    [] m = "run_enrich" -> {"force", "limit", "item", "entity", "forcePhases", "phases", "writeTags"}
    [] m = "run_organize" -> {"profile"}
    [] m = "run_set_kind" -> {"writeBack", "force"}
    [] m = "run_remove_root" -> {"force"}
    [] OTHER -> {}

Methods ==
  EditMethods \cup ArtMethods \cup EntityMethods \cup AdminMethods \cup PlayMethods
  \cup PlaylistMethods \cup PodcastMethods \cup JobMethods

Params(m) ==
  CASE m \in EditMethods -> EditParams(m)
    [] m \in ArtMethods -> ArtParams(m)
    [] m \in EntityMethods -> EntityParams(m)
    [] m \in AdminMethods -> AdminParams(m)
    [] m \in PlayMethods -> PlayParams(m)
    [] m \in PlaylistMethods -> PlaylistParams(m)
    [] m \in PodcastMethods -> PodcastParams(m)
    [] m \in JobMethods -> JobParams(m)

-----------------------------------------------------------------------------
(***************************************************************************)
(* What a command asks for.  "other" is a word outside a vocabulary.       *)
(***************************************************************************)
Unsaid(o) ==
  CASE o \in {"lock", "role"} -> ""
    [] o \in {"asOf", "expect", "rule"} -> "nil"
    [] OTHER -> "unset"

Sayings(o) ==
  CASE o = "lock" -> {"lock", "unlock", "other"}
    [] o = "role" -> {"front", "back", "other"}
    [] o = "expect" -> {"empty", "pids"}
    [] OTHER -> {"set"}

Said(given) ==
  {f \in [given -> UNION {Sayings(o) : o \in given}] : \A o \in given : f[o] \in Sayings(o)}

OptionsOf(m) ==
  UNION {{[o \in Params(m) |-> IF o \in given THEN f[o] ELSE Unsaid(o)] : f \in Said(given)} :
         given \in {s \in SUBSET Params(m) : Cardinality(s) <= MaxGiven}}

\* A smart playlist's rule cannot be left out, one enrichment has one scope, and a
\* playlist is asked to be static by no rule at all.
Allowed(m, opts) ==
  /\ m = "playlist_set_rule" => opts["rule"] = "set"
  /\ m = "run_enrich" => opts["item"] = "unset" \/ opts["entity"] = "unset"

Commands == UNION {{[method |-> m, opts |-> o] : o \in {x \in OptionsOf(m) : Allowed(m, x)}} : m \in Methods}

Says(opts, o, word) == o \in DOMAIN opts /\ opts[o] = word
Unknown(opts) == Says(opts, "lock", "other") \/ Says(opts, "role", "other")

\* No word outside a vocabulary, and no picture but the front cover into a file.
Unfit(opts) == Unknown(opts) \/ (Says(opts, "writeBack", "set") /\ Says(opts, "role", "back"))

\* An empty role means the front cover, wherever the library reads one.
Meant(opts) == [o \in DOMAIN opts |-> IF o = "role" /\ opts[o] = "" THEN "front" ELSE opts[o]]

-----------------------------------------------------------------------------
(***************************************************************************)
(* What the library says of a request.                                     *)
(***************************************************************************)
Wordless ==
  {"set_lyrics", "set_chapters", "set_item_art", "set_entity_art", "set_acquisition",
   "clear_acquisition", "lock", "unlock", "unfold_entity", "mark_played", "set_progress",
   "put_transcript", "fetch_transcript", "fetch_chapters", "podcast_remove"}
  \cup (PlaylistMethods \ {"playlist_create", "playlist_import_m3u8"})

\* The facts an entity edit and a rename keep for their own write-back.
KeptBack == {"edit_entity", "rename_entity"}

\* A failed pass of these records what it did before it failed.
TellsPartial == JobMethods \ {"run_analyze", "run_enrich"}
\* The command shows it beside the error.
ShowsPartial == {"run_set_kind", "run_remove_root"}

Verdict(class, reason, unwritten, report) ==
  [class |-> class, reason |-> reason, unwritten |-> unwritten, report |-> report]

Done(m) ==
  Verdict("ok", "", FALSE,
    (IF m \in Wordless THEN {} ELSE {"shown"}) \cup (IF m \in KeptBack THEN {"own"} ELSE {}))

Partial(m) == IF m \in TellsPartial THEN {{}, {"shown"}} ELSE {{}}

\* How a call ends: refused as a whole, done, or done in the catalog with files that
\* could not be written.
Answers(m, opts) ==
  IF Unfit(opts) THEN {Verdict("invalid", "", FALSE, {})}
  ELSE {Done(m)} \cup {Verdict(r[1], r[2], FALSE, {}) : r \in Refusals}
       \cup (IF Says(opts, "writeBack", "set") /\ m \notin JobMethods
             THEN {[Done(m) EXCEPT !.unwritten = TRUE]} ELSE {})

\* How a job ends once it runs.
Endings(m) ==
  {Done(m)} \cup UNION {{Verdict(r[1], r[2], FALSE, p) : p \in Partial(m)} :
                       r \in Refusals \cup {<<"canceled", "">>}}

-----------------------------------------------------------------------------
NoReply == [ok |-> FALSE, by |-> "nobody"]
NoJob == [state |-> "none"]
NotTold == [by |-> "nobody"]

ProxiedInit ==
  /\ command \in Commands
  /\ server \in {"none", "dead", "wedged", "other", "up"}
  /\ phase = "new" /\ handler = "none" /\ frame = <<>>
  /\ reply = NoReply /\ job = NoJob
  /\ asked = <<>> /\ verdict = <<>> /\ told = NotTold

Method == command.method

\* The command ends: an error hides the report, save where the command shows both.
Tells(by, class, reason, unwritten, report) ==
  /\ told' = [by |-> by, class |-> class, reason |-> reason, unwritten |-> unwritten,
              report |-> IF class = "ok" \/ Method \in ShowsPartial THEN report ELSE {}]
  /\ phase' = "done"

TellsError(by, class) == Tells(by, class, "", FALSE, {})

\* A server that answers the ping is called; one of another version is refused by name,
\* since a direct open would only meet its lock; any other is no server.
OpenMutator ==
  /\ phase = "new"
  /\ \/ /\ server \in {"none", "dead", "wedged"}
        /\ phase' = "direct" /\ UNCHANGED told
     \/ /\ server = "other"
        /\ TellsError("server", "invalid")
     \/ /\ server \in {"up", "paused"}
        /\ phase' = "dialed" /\ UNCHANGED told
  /\ UNCHANGED <<command, server, handler, frame, reply, job, asked, verdict>>

\* Someone else holds the write lock.
OpenRefused ==
  /\ phase = "direct"
  /\ TellsError("lost", "conflict")
  /\ UNCHANGED <<command, server, handler, frame, reply, job, asked, verdict>>

RunDirect ==
  /\ phase = "direct"
  /\ asked' = Append(asked, [method |-> Method, opts |-> Meant(command.opts)])
  /\ \E v \in Answers(Method, command.opts) \cup (IF Method \in JobMethods THEN Endings(Method) ELSE {}) :
       /\ verdict' = v
       /\ Tells("library", v.class, v.reason, v.unwritten, v.report)
  /\ UNCHANGED <<command, server, handler, frame, reply, job>>

-----------------------------------------------------------------------------
(***************************************************************************)
(* The client's half: one method a family, the options put on the wire.    *)
(***************************************************************************)
Sends(methods, wire) ==
  /\ phase = "dialed" /\ server # "dead" /\ Method \in methods
  /\ phase' = "sent" /\ handler' = "frame" /\ frame' = wire
  /\ UNCHANGED <<command, server, reply, job, asked, verdict, told>>

\* Mutant: the request does not carry that locked items are skipped.
SendEditUnskipped ==
  Sends(EditMethods,
        [o \in DOMAIN command.opts |-> IF o = "skipLocked" THEN "unset" ELSE command.opts[o]])

SendEdit == Sends(EditMethods, command.opts)
SendEntity == Sends(EntityMethods, command.opts)
SendAdmin == Sends(AdminMethods, command.opts)
SendPodcast == Sends(PodcastMethods, command.opts)
SubmitJob == Sends(JobMethods, command.opts)

\* The front cover's lock goes out as an omitted role.
ArtWire(m, opts) ==
  [o \in DOMAIN opts |-> IF m = "set_art_lock" /\ o = "role" /\ opts[o] = "front" THEN "" ELSE opts[o]]

SendArt == Sends(ArtMethods, ArtWire(Method, command.opts))

asOfToWire(t) == IF t = "nil" THEN "0" ELSE t

PlayWire(opts) == [o \in DOMAIN opts |-> IF o = "asOf" THEN asOfToWire(opts[o]) ELSE opts[o]]

SendPlay == Sends(PlayMethods, PlayWire(command.opts))

\* No guard goes as null, and one of no entries as an empty list; no rule as none.
PlaylistWire(opts) ==
  [o \in DOMAIN opts |-> CASE o = "expect" /\ opts[o] = "nil" -> "null"
                           [] o = "expect" /\ opts[o] = "empty" -> "[]"
                           [] o = "rule" /\ opts[o] = "nil" -> ""
                           [] OTHER -> opts[o]]

SendPlaylist == Sends(PlaylistMethods, PlaylistWire(command.opts))

-----------------------------------------------------------------------------
(***************************************************************************)
(* The server's half: maintenance, and one handler a family.               *)
(***************************************************************************)
Pause ==
  /\ server = "up" /\ job.state # "running"
  /\ server' = "paused"
  /\ UNCHANGED <<command, phase, handler, frame, reply, job, asked, verdict, told>>

Resume ==
  /\ server = "paused"
  /\ server' = "up"
  /\ UNCHANGED <<command, phase, handler, frame, reply, job, asked, verdict, told>>

\* A request it had not begun dies with it; a job's row stays as it stood.
ServerDies ==
  /\ server \in {"up", "paused"}
  /\ server' = "dead"
  /\ handler' = IF handler = "frame" THEN "dropped" ELSE handler
  /\ UNCHANGED <<command, phase, frame, reply, job, asked, verdict, told>>

Responds(by, class, reason, failures, report) ==
  /\ reply' = [ok |-> class = "ok", by |-> by, class |-> class, reason |-> reason,
               failures |-> failures, report |-> report]
  /\ handler' = "answered"

Refuses(class) == Responds("server", class, "", FALSE, {}) /\ UNCHANGED <<asked, verdict>>

\* A write-back that failed is a result, the catalog change standing; any other error is
\* one, and crosses with its class and reason.
Asks(opts, withheld) ==
  /\ asked' = Append(asked, [method |-> Method, opts |-> opts])
  /\ \E v \in Answers(Method, opts) :
       /\ verdict' = v
       /\ Responds("library", v.class, v.reason, v.unwritten, v.report \ withheld)

Dispatches(methods) ==
  /\ handler = "frame" /\ server = "up" /\ Method \in methods
  /\ UNCHANGED <<command, server, phase, frame, told>>

DispatchPaused ==
  /\ handler = "frame" /\ server = "paused"
  /\ Refuses("conflict")
  /\ UNCHANGED <<command, server, phase, frame, job, told>>

ServeEdit ==
  /\ Dispatches(EditMethods) /\ UNCHANGED job
  /\ IF Says(frame, "lock", "other") THEN Refuses("invalid") ELSE Asks(frame, {})

ParseArtRole(opts) == [o \in DOMAIN opts |-> IF o = "role" /\ opts[o] = "" THEN "front" ELSE opts[o]]

\* The front cover's lock is the entity's own, and has no name here.
ServeArt ==
  /\ Dispatches(ArtMethods) /\ UNCHANGED job
  /\ IF \/ Unknown(frame)
        \/ Method = "set_art_lock" /\ frame["role"] = "front"
     THEN Refuses("invalid")
     ELSE Asks(ParseArtRole(frame), {})

\* What an edit or a rename wrote stays with the process that writes it back.
ServeEntity ==
  /\ Dispatches(EntityMethods) /\ UNCHANGED job
  /\ IF Says(frame, "lock", "other") THEN Refuses("invalid") ELSE Asks(frame, {"own"})

ServeAdmin == Dispatches(AdminMethods) /\ Asks(frame, {}) /\ UNCHANGED job

AsOf(ns) == IF ns = "0" THEN "nil" ELSE ns

PlayRead(opts) == [o \in DOMAIN opts |-> IF o = "asOf" THEN AsOf(opts[o]) ELSE opts[o]]

ServePlay == Dispatches(PlayMethods) /\ Asks(PlayRead(frame), {}) /\ UNCHANGED job

PlaylistRead(opts) ==
  [o \in DOMAIN opts |-> CASE o = "expect" /\ opts[o] = "null" -> "nil"
                           [] o = "expect" /\ opts[o] = "[]" -> "empty"
                           [] o = "rule" /\ opts[o] = "" -> "nil"
                           [] OTHER -> opts[o]]

ServePlaylist == Dispatches(PlaylistMethods) /\ Asks(PlaylistRead(frame), {}) /\ UNCHANGED job

ServePodcast == Dispatches(PodcastMethods) /\ Asks(frame, {}) /\ UNCHANGED job

\* The request is checked before the job starts; the answer is the job's row to follow.
ServeJob ==
  /\ Dispatches(JobMethods)
  /\ asked' = Append(asked, [method |-> Method, opts |-> frame])
  /\ \/ /\ \E r \in Refusals : /\ verdict' = Verdict(r[1], r[2], FALSE, {})
                               /\ Responds("library", r[1], r[2], FALSE, {})
        /\ UNCHANGED job
     \/ /\ job' = [state |-> "running"]
        /\ Responds("library", "ok", "", FALSE, {})
        /\ UNCHANGED verdict

\* The run's outcome is kept on the row: the error's class and reason, and what it did.
JobEnds ==
  /\ job.state = "running" /\ server = "up"
  /\ \E v \in Endings(Method) :
       /\ verdict' = v
       /\ job' = [state |-> CASE v.class = "ok" -> "done" [] v.class = "canceled" -> "canceled" [] OTHER -> "failed",
                  class |-> v.class, reason |-> v.reason, report |-> v.report]
  /\ UNCHANGED <<command, server, phase, handler, frame, reply, asked, told>>

\* The next owner of the catalog finds a row no process runs.
ReclaimJob ==
  /\ job.state = "running" /\ server = "dead"
  /\ job' = [state |-> "crashed", class |-> "", reason |-> "", report |-> {}]
  /\ UNCHANGED <<command, server, phase, handler, frame, reply, asked, verdict, told>>

-----------------------------------------------------------------------------
(***************************************************************************)
(* The command's half of an answer.                                        *)
(***************************************************************************)
\* An error is rebuilt with the class and reason that crossed, and so is a failed
\* write-back where the method has one.
Returns(methods, failures) ==
  /\ phase = "sent" /\ reply # NoReply /\ Method \in methods
  /\ Tells(reply.by, reply.class, reply.reason, failures, reply.report)
  /\ UNCHANGED <<command, server, handler, frame, reply, job, asked, verdict>>

ReturnEdit == Returns(EditMethods, reply.failures)
ReturnArt == Returns(ArtMethods, reply.failures)
ReturnEntity == Returns(EntityMethods, reply.failures)
ReturnAdmin == Returns(AdminMethods, FALSE)
ReturnPlay == Returns(PlayMethods, FALSE)
ReturnPlaylist == Returns(PlaylistMethods, FALSE)
ReturnPodcast == Returns(PodcastMethods, FALSE)

FollowJob ==
  /\ phase = "sent" /\ reply # NoReply /\ Method \in JobMethods
  /\ IF reply.ok THEN phase' = "tailing" /\ UNCHANGED told
     ELSE Tells(reply.by, reply.class, reply.reason, FALSE, {})
  /\ UNCHANGED <<command, server, handler, frame, reply, job, asked, verdict>>

\* A row with no class, one reclaimed after a crash, reads as internal.
TailJob ==
  /\ phase = "tailing" /\ job.state # "running"
  /\ IF job.state = "crashed"
     THEN Tells("lost", "internal", "", FALSE, job.report)
     ELSE Tells("library", job.class, job.reason, FALSE, job.report)
  /\ UNCHANGED <<command, server, handler, frame, reply, job, asked, verdict>>

\* The connection is gone before an answer, or the caller gives up: the server may yet
\* serve what it has of the request, and a job runs on.
LoseServer ==
  /\ phase \in {"dialed", "sent"} /\ server = "dead"
  /\ TellsError("lost", "io")
  /\ UNCHANGED <<command, server, handler, frame, reply, job, asked, verdict>>

StopWaiting ==
  /\ phase \in {"sent", "tailing"}
  /\ TellsError("lost", "canceled")
  /\ UNCHANGED <<command, server, handler, frame, reply, job, asked, verdict>>

-----------------------------------------------------------------------------
ProxiedNext ==
  \/ OpenMutator \/ OpenRefused \/ RunDirect
  \/ SendEdit \/ SendArt \/ SendEntity \/ SendAdmin \/ SendPlay \/ SendPlaylist \/ SendPodcast
  \/ SubmitJob
  \/ Pause \/ Resume \/ ServerDies \/ DispatchPaused
  \/ ServeEdit \/ ServeArt \/ ServeEntity \/ ServeAdmin \/ ServePlay \/ ServePlaylist
  \/ ServePodcast \/ ServeJob \/ JobEnds \/ ReclaimJob
  \/ ReturnEdit \/ ReturnArt \/ ReturnEntity \/ ReturnAdmin \/ ReturnPlay \/ ReturnPlaylist
  \/ ReturnPodcast \/ FollowJob \/ TailJob \/ LoseServer \/ StopWaiting

ProxiedSpec == ProxiedInit /\ [][ProxiedNext]_proxiedVars

-----------------------------------------------------------------------------
(***************************************************************************)
(* What the library is asked is what the command's direct half would ask   *)
(* of it, once at most, whatever carries it and whatever is lost.          *)
(***************************************************************************)
AskedAsMeant ==
  asked \in {<<>>, <<[method |-> Method, opts |-> Meant(command.opts)]>>}

(***************************************************************************)
(* An answer of the library reaches the command as it was given: its class *)
(* and reason, the files it could not write, and every fact of its report  *)
(* the command shows.  A refusal of the server's own means the library was *)
(* never asked.                                                            *)
(***************************************************************************)
ToldTheVerdict ==
  /\ told.by = "library" =>
       /\ Len(asked) = 1
       /\ told.class = verdict.class /\ told.reason = verdict.reason
       /\ told.unwritten = verdict.unwritten
       /\ told.report \subseteq verdict.report
       /\ (told.class = "ok" \/ Method \in ShowsPartial) => verdict.report \ {"own"} \subseteq told.report
  /\ told.by = "server" => asked = <<>>

\* mutator.go, client.go, serve.go: a command says the same thing of the same request
\* through a server as it does without one.
ProxyHolds == AskedAsMeant /\ ToldTheVerdict
=============================================================================
