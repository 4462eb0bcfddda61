------------------------------ MODULE Handoff ------------------------------
(***************************************************************************)
(* The maintenance-mode hand-off between a running server and foreground   *)
(* commands, over the store life cycle of module Store.                    *)
(*                                                                         *)
(*   serve.go           BeginMaintenance, EndMaintenance, Reopen           *)
(*   proxy/server.go    beginMaintenance, endMaintenance, the drop handler *)
(*   cmd/waxbin         openLoaded, openViaMaintenance, restore, cleanup   *)
(*                                                                         *)
(* The server's mutex s.mu is held over the whole of a begin, an end or a  *)
(* drop, so at most one of them is under way: srvPc is its program point   *)
(* and srvConn the connection it serves.  The embedding host sets both     *)
(* maintenance hooks.                                                      *)
(***************************************************************************)
EXTENDS Store

CONSTANTS
  Server,     \* the process that runs `waxbin serve`
  Clis,       \* foreground commands; each is a process with one connection
  ServerJobs  \* workers of the server

ASSUME ProcsAssumption == Procs = {Server} \cup Clis /\ Server \notin Clis
ASSUME WorkersAssumption ==
  /\ Workers = ServerJobs \cup Clis
  /\ \A w \in Workers : ProcOf[w] = IF w \in Clis THEN w ELSE Server

\* What Procs, Workers and ProcOf then are, for a configuration to name.
HandoffProcs == {Server} \cup Clis
HandoffWorkers == ServerJobs \cup Clis
HandoffProcOf == [w \in HandoffWorkers |-> IF w \in Clis THEN w ELSE Server]

VARIABLES
  srvPc,      \* where the server process is
  srvConn,    \* the command whose connection the running handler serves
  srvWhy,     \* what started the running handler
  stopping,   \* the server's context is canceled
  maintConn,  \* the command holding maintenance mode, or None
  owed,       \* Library.reopenOwed
  hooks,      \* OnSuspend calls not yet answered by an OnReopen
  conn,       \* per command, its connection as the server sees it
  req,        \* per command, a request the server has not read yet
  reply,      \* per command, an answer it has not read yet
  cpc,        \* per command, where it is
  kind        \* per command, a plain read-write command or a restore

srvVars == <<srvPc, srvConn, srvWhy, stopping, maintConn, owed, hooks>>
wireVars == <<conn, req, reply>>
cliVars == <<cpc, kind>>
handoffVars == <<srvPc, srvConn, srvWhy, stopping, maintConn, owed, hooks,
                 conn, req, reply, cpc, kind>>
vars == <<storeVars, handoffVars>>

SrvPcs == {"off", "boot", "free", "finish", "check", "check2", "flush", "closing",
           "relock", "reopening", "exit"}
CliPcs == {"idle", "relocate", "blocked", "asking", "handed", "opening", "working",
           "closing", "ending", "ended", "probe", "copying"}

TypeOK ==
  /\ StoreTypeOK
  /\ srvPc \in SrvPcs
  /\ srvConn \in Clis \cup {None}
  /\ srvWhy \in {"none", "begin", "fail", "end", "drop"}
  /\ stopping \in BOOLEAN
  /\ maintConn \in Clis \cup {None}
  /\ owed \in BOOLEAN
  /\ hooks \in Int
  /\ conn \in [Clis -> {"none", "open", "dropped"}]
  /\ req \in [Clis -> {"none", "begin", "end"}]
  /\ reply \in [Clis -> {"none", "ok", "err"}]
  /\ cpc \in [Clis -> CliPcs]
  /\ kind \in [Clis -> {"open", "restore"}]

Init ==
  /\ StoreInit
  /\ srvPc = "off" /\ srvConn = None /\ srvWhy = "none" /\ stopping = FALSE
  /\ maintConn = None /\ owed = FALSE /\ hooks = 0
  /\ conn = [c \in Clis |-> "none"]
  /\ req = [c \in Clis |-> "none"]
  /\ reply = [c \in Clis |-> "none"]
  /\ cpc = [c \in Clis |-> "idle"]
  /\ kind = [c \in Clis |-> "open"]

Listening == srvPc \notin {"off", "boot", "exit"} /\ ~stopping

\* The handler ends and s.mu is free again.  A response to a connection that
\* is gone is lost.
Answer(r) ==
  /\ srvPc' = "free" /\ srvConn' = None /\ srvWhy' = "none"
  /\ reply' = [c \in Clis |->
       IF c = srvConn /\ srvWhy # "drop" /\ conn[c] = "open" THEN r ELSE reply[c]]

-----------------------------------------------------------------------------
(***************************************************************************)
(* The server process                                                      *)
(***************************************************************************)
\* `waxbin serve` opens the catalog; a held lock ends it at once.
SrvBoot ==
  /\ srvPc = "off"
  /\ Lock(Server)
  /\ srvPc' = "boot"
  /\ UNCHANGED <<srvConn, srvWhy, stopping, maintConn, owed, hooks, wireVars, cliVars>>

SrvBooted ==
  /\ srvPc = "boot"
  /\ \/ store[Server] = "open" /\ srvPc' = "free"
     \/ store[Server] = "down" /\ srvPc' = "off"
  /\ UNCHANGED <<storeVars, srvConn, srvWhy, stopping, maintConn, owed, hooks, wireVars, cliVars>>

\* beginMaintenance: refused while another connection holds the hand-off.
SrvBegin(c) ==
  /\ srvPc = "free" /\ ~stopping
  /\ req[c] = "begin"
  /\ req' = [req EXCEPT ![c] = "none"]
  /\ \/ /\ maintConn # None
        /\ reply' = [reply EXCEPT ![c] = IF conn[c] = "open" THEN "err" ELSE @]
        /\ UNCHANGED <<srvPc, srvConn, srvWhy>>
     \/ /\ maintConn = None
        /\ srvPc' = "finish" /\ srvConn' = c /\ srvWhy' = "begin"
        /\ UNCHANGED reply
  /\ UNCHANGED <<storeVars, stopping, maintConn, owed, hooks, conn, cliVars>>

\* Mutant: a begin goes on without the steps an earlier reopen still owes.
SrvFinishSkipped ==
  /\ srvPc = "finish"
  /\ \/ srvWhy = "begin" /\ srvPc' = "check" /\ UNCHANGED <<owed, hooks, srvConn, srvWhy, reply>>
     \/ /\ srvWhy # "begin"
        /\ owed' = FALSE /\ hooks' = IF owed THEN hooks - 1 ELSE hooks
        /\ Answer(IF srvWhy = "fail" THEN "err" ELSE "ok")
  /\ UNCHANGED <<storeVars, stopping, maintConn, conn, req, cliVars>>

\* finishReopenLocked: the steps an earlier reopen still owes, OnReopen last.
SrvFinish ==
  /\ srvPc = "finish"
  /\ owed' = FALSE
  /\ hooks' = IF owed THEN hooks - 1 ELSE hooks
  /\ \/ srvWhy = "begin" /\ srvPc' = "check" /\ UNCHANGED <<srvConn, srvWhy, reply>>
     \/ srvWhy \in {"end", "drop"} /\ Answer("ok")
     \/ srvWhy = "fail" /\ Answer("err")
  /\ UNCHANGED <<storeVars, stopping, maintConn, conn, req, cliVars>>

\* Mutant: a failed last step is forgotten.
SrvFinishForgotten ==
  /\ srvPc = "finish"
  /\ owed
  /\ owed' = FALSE
  /\ Answer("err")
  /\ UNCHANGED <<storeVars, stopping, maintConn, hooks, conn, req, cliVars>>

\* One of them fails: they stay owed.
SrvFinishFails ==
  /\ srvPc = "finish"
  /\ owed
  /\ Answer("err")
  /\ UNCHANGED <<storeVars, stopping, maintConn, owed, hooks, conn, req, cliVars>>

\* refuseRunningJob fails on a closed store, on a canceled context and on a
\* running row.
RefuseRunningJob ==
  \/ store[Server] # "open"
  \/ stopping
  \/ running[openFile[Server]] # {}

\* BeginMaintenance: first check, then OnSuspend.
SrvCheck ==
  /\ srvPc = "check"
  /\ \/ /\ RefuseRunningJob
        /\ Answer("err")
        /\ UNCHANGED hooks
     \/ /\ ~RefuseRunningJob
        /\ hooks' = hooks + 1
        /\ srvPc' = "check2"
        /\ UNCHANGED <<srvConn, srvWhy, reply>>
  /\ UNCHANGED <<storeVars, stopping, maintConn, owed, conn, req, cliVars>>

\* BeginMaintenance: second check; a refusal answers the hook with OnReopen.
SrvCheck2 ==
  /\ srvPc = "check2"
  /\ \/ /\ RefuseRunningJob
        /\ hooks' = hooks - 1
        /\ Answer("err")
     \/ /\ ~RefuseRunningJob
        /\ srvPc' = "flush"
        /\ UNCHANGED <<hooks, srvConn, srvWhy, reply>>
  /\ UNCHANGED <<storeVars, stopping, maintConn, owed, conn, req, cliVars>>

\* Playback is flushed and Store.Suspend closes the store.
SrvSuspend ==
  /\ srvPc = "flush"
  /\ Teardown(Server)
  /\ srvPc' = "closing"
  /\ UNCHANGED <<srvConn, srvWhy, stopping, maintConn, owed, hooks, wireVars, cliVars>>

\* Suspend returned: the connection holds maintenance, or a failed teardown
\* reopens on the spot.
SrvSuspended ==
  /\ srvPc = "closing"
  /\ store[Server] = "down"
  /\ \/ /\ maintConn' = srvConn
        /\ Answer("ok")
     \/ /\ srvPc' = "relock" /\ srvWhy' = "fail"
        /\ UNCHANGED <<maintConn, srvConn, reply>>
  /\ UNCHANGED <<storeVars, stopping, owed, hooks, conn, req, cliVars>>

\* Mutant: the binding outlives the hand-off.
SrvEndBound(c) ==
  /\ srvPc = "free" /\ ~stopping
  /\ req[c] = "end"
  /\ maintConn = c
  /\ req' = [req EXCEPT ![c] = "none"]
  /\ srvPc' = "relock" /\ srvConn' = c /\ srvWhy' = "end"
  /\ UNCHANGED <<storeVars, stopping, maintConn, owed, hooks, conn, reply, cliVars>>

\* endMaintenance: only the holder, and the binding goes before the reopen.
SrvEnd(c) ==
  /\ srvPc = "free" /\ ~stopping
  /\ req[c] = "end"
  /\ req' = [req EXCEPT ![c] = "none"]
  /\ \/ /\ maintConn # c
        /\ reply' = [reply EXCEPT ![c] = IF conn[c] = "open" THEN "err" ELSE @]
        /\ UNCHANGED <<srvPc, srvConn, srvWhy, maintConn>>
     \/ /\ maintConn = c
        /\ maintConn' = None
        /\ srvPc' = "relock" /\ srvConn' = c /\ srvWhy' = "end"
        /\ UNCHANGED reply
  /\ UNCHANGED <<storeVars, stopping, owed, hooks, conn, cliVars>>

\* Mutant: any connection's drop ends the hand-off.
SrvDropAny(c) ==
  /\ srvPc = "free"
  /\ conn[c] = "dropped" /\ req[c] = "none"
  /\ conn' = [conn EXCEPT ![c] = "none"]
  /\ maintConn' = None
  /\ \/ /\ maintConn # None /\ ~stopping
        /\ srvPc' = "relock" /\ srvConn' = c /\ srvWhy' = "drop"
     \/ /\ maintConn = None \/ stopping
        /\ UNCHANGED <<srvPc, srvConn, srvWhy>>
  /\ UNCHANGED <<storeVars, stopping, owed, hooks, req, reply, cliVars>>

\* Mutant: a dropped connection releases nothing.
SrvDropUnnoticed(c) ==
  /\ srvPc = "free"
  /\ conn[c] = "dropped" /\ req[c] = "none"
  /\ conn' = [conn EXCEPT ![c] = "none"]
  /\ UNCHANGED <<storeVars, srvVars, req, reply, cliVars>>

\* serveConn ends; releaseMaintenanceIfHeld reopens unless the server stops.
SrvDrop(c) ==
  /\ srvPc = "free"
  /\ conn[c] = "dropped" /\ req[c] = "none"
  /\ conn' = [conn EXCEPT ![c] = "none"]
  /\ maintConn' = IF maintConn = c THEN None ELSE maintConn
  /\ \/ /\ maintConn = c /\ ~stopping
        /\ srvPc' = "relock" /\ srvConn' = c /\ srvWhy' = "drop"
     \/ /\ maintConn # c \/ stopping
        /\ UNCHANGED <<srvPc, srvConn, srvWhy>>
  /\ UNCHANGED <<storeVars, stopping, owed, hooks, req, reply, cliVars>>

\* Mutant: the server takes its lock back from whoever holds it.
SrvRelockStealing ==
  /\ srvPc = "relock"
  /\ flock' = Server
  /\ store' = [store EXCEPT ![Server] = "locking"]
  /\ srvPc' = "reopening"
  /\ UNCHANGED <<ownerRec, openFile, catalog, jobVars, srvConn, srvWhy, stopping, maintConn,
                 owed, hooks, wireVars, cliVars>>

\* Store.Reopen: the bounded retry takes the lock ...
SrvRelock ==
  /\ srvPc = "relock"
  /\ Lock(Server)
  /\ srvPc' = "reopening"
  /\ UNCHANGED <<srvConn, srvWhy, stopping, maintConn, owed, hooks, wireVars, cliVars>>

\* Mutant: a reopen that gave up answers nobody.
SrvRelockFailsSilently ==
  /\ srvPc = "relock"
  /\ flock # None
  /\ srvPc' = "free" /\ srvConn' = None /\ srvWhy' = "none"
  /\ UNCHANGED <<storeVars, stopping, maintConn, owed, hooks, wireVars, cliVars>>

\* ... or runs out of waits, or of its context, while another holds it.
SrvRelockFails ==
  /\ srvPc = "relock"
  /\ flock # None
  /\ Answer("err")
  /\ UNCHANGED <<storeVars, stopping, maintConn, owed, hooks, conn, req, cliVars>>

\* Store.Reopen returned: open, with its last steps owed, or closed again.
SrvReopened ==
  /\ srvPc = "reopening"
  /\ \/ /\ store[Server] = "open"
        /\ owed' = TRUE
        /\ srvPc' = "finish"
        /\ UNCHANGED <<srvConn, srvWhy, reply>>
     \/ /\ store[Server] = "down"
        /\ Answer("err")
        /\ UNCHANGED owed
  /\ UNCHANGED <<storeVars, stopping, maintConn, hooks, conn, req, cliVars>>

\* The store phases a running Open, Reopen or teardown goes through by itself;
\* an error in the reconciliation closes the half-open store again.
StorePhase(p) ==
  /\ \/ RecordAndOpen(p) \/ OpenFails(p) \/ Reclaim(p)
     \/ store[p] = "opening" /\ Teardown(p)
     \/ Settle(p) \/ RemoveRecord(p) \/ Unlock(p)
  /\ UNCHANGED handoffVars

\* The server's context ends: every connection is closed under its handler.
SrvStop ==
  /\ srvPc \notin {"off", "boot", "exit"} /\ ~stopping
  /\ stopping' = TRUE
  /\ conn' = [c \in Clis |-> IF conn[c] = "open" THEN "dropped" ELSE conn[c]]
  /\ req' = [c \in Clis |-> "none"]
  /\ UNCHANGED <<storeVars, srvPc, srvConn, srvWhy, maintConn, owed, hooks, reply, cliVars>>

\* Serve returned once its handlers did; Close drains the jobs, then the store.
SrvClose ==
  /\ stopping /\ srvPc = "free"
  /\ \A c \in Clis : conn[c] = "none"
  /\ \A w \in ServerJobs : worker[w] = "idle"
  /\ srvPc' = "exit"
  /\ \/ store[Server] = "open" /\ Teardown(Server)
     \/ store[Server] = "down" /\ UNCHANGED storeVars
  /\ UNCHANGED <<srvConn, srvWhy, stopping, maintConn, owed, hooks, wireVars, cliVars>>

SrvExited ==
  /\ srvPc = "exit" /\ store[Server] = "down"
  /\ srvPc' = "off" /\ stopping' = FALSE /\ owed' = FALSE /\ hooks' = 0
  /\ UNCHANGED <<storeVars, srvConn, srvWhy, maintConn, wireVars, cliVars>>

\* The server process dies; answers already sent can still be read.
SrvCrash ==
  /\ srvPc # "off"
  /\ Crash(Server)
  /\ srvPc' = "off" /\ srvConn' = None /\ srvWhy' = "none" /\ stopping' = FALSE
  /\ maintConn' = None /\ owed' = FALSE /\ hooks' = 0
  /\ conn' = [c \in Clis |-> "none"]
  /\ req' = [c \in Clis |-> "none"]
  /\ UNCHANGED <<reply, cliVars>>

-----------------------------------------------------------------------------
(***************************************************************************)
(* Foreground commands                                                     *)
(***************************************************************************)
Goto(c, pc) == cpc' = [cpc EXCEPT ![c] = pc]
HangUp(c) == conn' = [conn EXCEPT ![c] = IF @ = "open" THEN "dropped" ELSE @]

\* waxbin.Open, at the start of a command or for a restore's --root: a held
\* lock sends a command without a connection to the advertised server.
CliOpen(c) ==
  /\ \/ cpc[c] = "idle" /\ conn[c] = "none"
     \/ cpc[c] = "relocate"
  /\ kind' = [kind EXCEPT ![c] = "open"]
  /\ \/ Lock(c) /\ Goto(c, "opening")
     \/ /\ flock # None
        /\ Goto(c, IF conn[c] = "none" THEN "blocked" ELSE "ending")
        /\ UNCHANGED storeVars
  /\ UNCHANGED <<srvVars, wireVars>>

\* `waxbin restore` looks for an advertised server first.
CliRestore(c) ==
  /\ cpc[c] = "idle" /\ conn[c] = "none"
  /\ kind' = [kind EXCEPT ![c] = "restore"]
  /\ Goto(c, "blocked")
  /\ UNCHANGED <<storeVars, srvVars, wireVars>>

\* advertisedSocket and Dial, then the maintenance-begin request.
CliDial(c) ==
  /\ cpc[c] = "blocked" /\ conn[c] = "none"
  /\ ownerRec = Server /\ Listening
  /\ conn' = [conn EXCEPT ![c] = "open"]
  /\ req' = [req EXCEPT ![c] = "begin"]
  /\ reply' = [reply EXCEPT ![c] = "none"]
  /\ Goto(c, "asking")
  /\ UNCHANGED <<storeVars, srvVars, kind>>

\* No record names a server, or none answers: a command gives up with the
\* conflict, a restore goes on without a hand-off.
CliNoServer(c) ==
  /\ cpc[c] = "blocked"
  /\ ownerRec # Server \/ ~Listening
  /\ Goto(c, IF kind[c] = "open" THEN "idle" ELSE "probe")
  /\ UNCHANGED <<storeVars, srvVars, wireVars, kind>>

\* The answer to maintenance-begin; a lost connection is an error.
CliAnswered(c) ==
  /\ cpc[c] = "asking"
  /\ reply[c] # "none" \/ conn[c] # "open"
  /\ reply' = [reply EXCEPT ![c] = "none"]
  /\ \/ /\ reply[c] = "ok"
        /\ Goto(c, IF kind[c] = "open" THEN "handed" ELSE "probe")
        /\ UNCHANGED conn
     \/ /\ reply[c] # "ok"
        /\ Goto(c, "idle")
        /\ HangUp(c)
  /\ UNCHANGED <<storeVars, srvVars, req, kind>>

\* The command is interrupted while it waits and hangs up.
CliAbandon(c) ==
  /\ cpc[c] = "asking"
  /\ Goto(c, "idle")
  /\ HangUp(c)
  /\ reply' = [reply EXCEPT ![c] = "none"]
  /\ UNCHANGED <<storeVars, srvVars, req, kind>>

\* openReadWriteRetry: the lock, or the end of its waits.
CliTake(c) ==
  /\ cpc[c] = "handed"
  /\ \/ Lock(c) /\ Goto(c, "opening")
     \/ flock # None /\ Goto(c, "ending") /\ UNCHANGED storeVars
  /\ UNCHANGED <<srvVars, wireVars, kind>>

CliOpened(c) ==
  /\ cpc[c] = "opening"
  /\ \/ store[c] = "open" /\ Goto(c, "working")
     \/ store[c] = "down" /\ Goto(c, "ending")
  /\ UNCHANGED <<storeVars, srvVars, wireVars, kind>>

\* The command is done with its library and closes it.
CliClose(c) ==
  /\ cpc[c] = "working"
  /\ worker[c] = "idle"
  /\ Teardown(c)
  /\ Goto(c, "closing")
  /\ UNCHANGED <<srvVars, wireVars, kind>>

CliClosed(c) ==
  /\ cpc[c] = "closing" /\ store[c] = "down"
  /\ Goto(c, "ending")
  /\ UNCHANGED <<storeVars, srvVars, wireVars, kind>>

\* ensureNoCatalogOwner: the lock is taken and let go at once.
CliProbe(c) ==
  /\ cpc[c] = "probe"
  /\ Goto(c, IF flock = None THEN "copying" ELSE "ending")
  /\ UNCHANGED <<storeVars, srvVars, wireVars, kind>>

\* port.Restore has copied the backup beside the catalog and renames it into
\* place, or fails before that.  --root opens the library afterwards.
CliRename(c) ==
  /\ cpc[c] = "copying"
  /\ \/ Replace /\ \E pc \in {"relocate", "ending"} : Goto(c, pc)
     \/ UNCHANGED storeVars /\ Goto(c, "ending")
  /\ UNCHANGED <<srvVars, wireVars, kind>>

\* endMaintenance (cleanup): with no connection left there is nothing to end.
CliEnd(c) ==
  /\ cpc[c] = "ending"
  /\ \/ /\ conn[c] = "open"
        /\ req' = [req EXCEPT ![c] = "end"]
        /\ Goto(c, "ended")
     \/ /\ conn[c] # "open"
        /\ Goto(c, "idle")
        /\ UNCHANGED req
  /\ UNCHANGED <<storeVars, srvVars, conn, reply, kind>>

CliEnded(c) ==
  /\ cpc[c] = "ended"
  /\ reply[c] # "none" \/ conn[c] # "open"
  /\ reply' = [reply EXCEPT ![c] = "none"]
  /\ Goto(c, "idle")
  /\ HangUp(c)
  /\ UNCHANGED <<storeVars, srvVars, req, kind>>

\* The command's process dies; what it sent can still be read.
CliCrash(c) ==
  /\ cpc[c] # "idle"
  /\ Crash(c)
  /\ Goto(c, "idle")
  /\ HangUp(c)
  /\ reply' = [reply EXCEPT ![c] = "none"]
  /\ UNCHANGED <<srvVars, req, kind>>

-----------------------------------------------------------------------------
\* A proxied call passes dispatch's paused check, which takes s.mu; a command
\* works on the library it opened itself.
Start(w) ==
  /\ \/ w \in ServerJobs /\ srvPc = "free" /\ maintConn = None /\ ~stopping
     \/ w \in Clis /\ cpc[w] = "working"
  /\ Admit(w)
  /\ UNCHANGED handoffVars

\* Work under way takes no notice of a hand-off.
Work(w) ==
  /\ \/ AcquireLease(w) \/ AcquireRefused(w) \/ CreateJob(w) \/ CreateJobFails(w)
     \/ FinishJob(w) \/ FinishBare(w) \/ ReleaseLease(w)
  /\ UNCHANGED handoffVars

\* Steps of a handler, of the server's start and of its end.
SrvStep ==
  \/ SrvBooted \/ SrvFinish \/ SrvFinishFails \/ SrvCheck \/ SrvCheck2 \/ SrvSuspend
  \/ SrvSuspended \/ SrvRelock \/ SrvRelockFails \/ SrvReopened \/ SrvClose \/ SrvExited

SrvServe(c) == SrvBegin(c) \/ SrvEnd(c) \/ SrvDrop(c)

\* Steps of a command that has started.
CliStep(c) ==
  \/ cpc[c] # "idle" /\ CliOpen(c)
  \/ CliDial(c) \/ CliNoServer(c) \/ CliAnswered(c) \/ CliTake(c) \/ CliOpened(c)
  \/ CliClose(c) \/ CliClosed(c) \/ CliProbe(c) \/ CliRename(c) \/ CliEnd(c) \/ CliEnded(c)

Next ==
  \/ SrvBoot \/ SrvStep \/ SrvStop \/ SrvCrash
  \/ \E p \in Procs : StorePhase(p)
  \/ \E c \in Clis : SrvServe(c)
  \/ \E c \in Clis : CliStep(c) \/ CliOpen(c) \/ CliRestore(c) \/ CliAbandon(c) \/ CliCrash(c)
  \/ \E w \in Workers : Start(w) \/ Work(w)

Spec == Init /\ [][Next]_vars

(***************************************************************************)
(* A goroutine that can take its step takes it; s.mu hands itself over in  *)
(* turn (Go's mutex starvation mode), hence the strong fairness of the     *)
(* handlers.  A command does finitely many pieces of work, so it closes in *)
(* the end.  Starts, stops, interrupts and crashes need not happen.        *)
(***************************************************************************)
Fairness ==
  /\ WF_vars(SrvStep \/ StorePhase(Server))
  /\ \A c \in Clis : /\ SF_vars(SrvServe(c))
                     /\ WF_vars(CliStep(c) \/ StorePhase(c))
                     /\ SF_vars(CliClose(c))
  /\ \A w \in Workers : WF_vars(Work(w))

FairSpec == Spec /\ Fairness

-----------------------------------------------------------------------------
(***************************************************************************)
(* Properties                                                              *)
(***************************************************************************)
\* "a host hears each OnReopen before the next OnSuspend" (options.go): across
\* refusals, failed suspends, failed reopens and owed last steps, at most one
\* OnSuspend is unanswered, and none is once a serving library owes nothing.
HooksAlternate ==
  /\ hooks \in 0..1
  /\ srvPc = "free" /\ store[Server] = "open" /\ ~owed => hooks = 0
  /\ srvPc \notin {"off", "boot", "exit"} /\ store[Server] = "down" => hooks = 1

\* Maintenance mode is bound to a connection only while the library is closed,
\* so a paused server never answers from a store it still owns, and a reopened
\* one is never left paused.
PausedMeansClosed ==
  maintConn # None => store[Server] = "down" /\ conn[maintConn] # "none"

\* Both: the hooks pair and the pause is bound, whatever fails on the way.
HandoffSafe == HooksAlternate /\ PausedMeansClosed

\* From the granted begin until it asks for the end, the command on a live
\* connection is the one the server has bound maintenance to, and the server's
\* library stays closed under it: no other command's end or drop ends it.
HolderKeepsHandoff ==
  \A c \in Clis :
    /\ conn[c] = "open"
    /\ \/ cpc[c] \notin {"idle", "asking", "ended"}
       \/ cpc[c] = "asking" /\ reply[c] = "ok"
    => maintConn = c

\* Every hand-off is over some time, and the mutex all requests pass through is
\* let go: its command ends it or dies, and the handler that answers it comes to
\* its end whoever holds the flock meanwhile.
HandoffEnds == []<>(maintConn = None /\ srvPc \in {"off", "free"})

\* Every command ends: server, lock and connection never wait on each other
\* in a circle.
CommandEnds == \A c \in Clis : cpc[c] # "idle" ~> cpc[c] = "idle"
=============================================================================
