------------------------------- MODULE Store -------------------------------
(***************************************************************************)
(* The catalog file's write ownership and what runs on it: the advisory    *)
(* flock with its owner record (store/sqlite/flock.go), the life of a      *)
(* read-write store in every process (store/sqlite/store.go: Open,         *)
(* Suspend, Close, Reopen), and the leased jobs a process runs on its open *)
(* store (jobs/jobs.go, store/sqlite/jobs.go).                             *)
(*                                                                         *)
(* One lease scope is modelled: scopes are separate rows of the lease      *)
(* table and never touch each other.  A catalog that replaces another one  *)
(* at the path (a restore) is a new file: a process that still has the     *)
(* old one open keeps reading and writing the old one.                     *)
(***************************************************************************)
EXTENDS Integers

CONSTANTS
  Procs,     \* processes that may own the catalog
  Workers,   \* goroutines that run leased work, at most one piece each
  ProcOf,    \* the process a worker belongs to
  None,      \* no process
  MaxFile,   \* bound: how often the catalog file may be replaced
  IOFaults   \* whether a best-effort write of a job's end may fail

ASSUME ProcOfAssumption == ProcOf \in [Workers -> Procs]
ASSUME NoneAssumption == None \notin Procs
ASSUME MaxFileAssumption == MaxFile \in Nat
ASSUME IOFaultsAssumption == IOFaults \in BOOLEAN

VARIABLES
  flock,     \* the process holding the advisory lock, or None
  ownerRec,  \* the process the owner record names, or None: outlives a crash
  store,     \* per process, the phase of its store
  openFile,  \* per process, the catalog file its connections have open
  catalog,   \* the file at the catalog's path
  worker,    \* per worker, how far its leased work is
  running,   \* per file, the workers whose latest job row says running
  lease,     \* per file, the process the lease row names, or None
  cutOff     \* history: the store went away, or the lease row did, under running work

ownerVars == <<flock, ownerRec, store, openFile>>
jobVars == <<worker, running, lease, cutOff>>
storeVars == <<flock, ownerRec, store, openFile, catalog, worker, running, lease, cutOff>>

Files == 0..MaxFile
Phases == {"down", "locking", "opening", "open", "draining", "unlocking"}
WorkerStates == {"idle", "admitted", "leased", "working", "bare", "releasing"}

StoreTypeOK ==
  /\ flock \in Procs \cup {None}
  /\ ownerRec \in Procs \cup {None}
  /\ store \in [Procs -> Phases]
  /\ openFile \in [Procs -> Files]
  /\ catalog \in Files
  /\ worker \in [Workers -> WorkerStates]
  /\ running \in [Files -> SUBSET Workers]
  /\ lease \in [Files -> Procs \cup {None}]
  /\ cutOff \in BOOLEAN

StoreInit ==
  /\ flock = None
  /\ ownerRec = None
  /\ store = [p \in Procs |-> "down"]
  /\ openFile = [p \in Procs |-> 0]
  /\ catalog = 0
  /\ worker = [w \in Workers |-> "idle"]
  /\ running = [f \in Files |-> {}]
  /\ lease = [f \in Files |-> None]
  /\ cutOff = FALSE

(***************************************************************************)
(* closed = FALSE: writeTx is served.  Reopen clears the flag before it    *)
(* reclaims orphans, so the "opening" phase already serves writes.         *)
(***************************************************************************)
Writable(p) == store[p] \in {"opening", "open"}

\* Workers holding, or believing they hold, the lease.
Live == {w \in Workers : worker[w] \in {"leased", "working", "bare", "releasing"}}

\* Workers inside the function the lease protects.
InBody == {w \in Workers : worker[w] \in {"working", "bare"}}

-----------------------------------------------------------------------------
(***************************************************************************)
(* Lock and store life cycle                                               *)
(***************************************************************************)
\* acquireWriteLock, first half: TryLock.
Lock(p) ==
  /\ store[p] = "down"
  /\ flock = None
  /\ flock' = p
  /\ store' = [store EXCEPT ![p] = "locking"]
  /\ UNCHANGED <<ownerRec, openFile, catalog, jobVars>>

\* acquireWriteLock, second half, and openPools: the record is written under
\* the lock, the pools open the file at the path, and a reopen clears closed.
RecordAndOpen(p) ==
  /\ store[p] = "locking"
  /\ ownerRec' = p
  /\ openFile' = [openFile EXCEPT ![p] = catalog]
  /\ store' = [store EXCEPT ![p] = "opening"]
  /\ cutOff' = (cutOff \/ Live # {})
  /\ UNCHANGED <<flock, catalog, worker, running, lease>>

\* The record or a pool cannot be opened: the lock goes back at once.
OpenFails(p) ==
  /\ store[p] = "locking"
  /\ ownerRec' \in {ownerRec, p}
  /\ store' = [store EXCEPT ![p] = "unlocking"]
  /\ UNCHANGED <<flock, openFile, catalog, jobVars>>

\* Mutant: an open leaves the rows of a dead owner running.
ReclaimLeasesOnly(p) ==
  /\ store[p] = "opening"
  /\ lease' = [lease EXCEPT ![openFile[p]] = None]
  /\ cutOff' = (cutOff \/ Live # {})
  /\ store' = [store EXCEPT ![p] = "open"]
  /\ UNCHANGED <<flock, ownerRec, openFile, catalog, worker, running>>

\* Mutant: an open leaves the leases of a dead owner.
ReclaimRowsOnly(p) ==
  /\ store[p] = "opening"
  /\ running' = [running EXCEPT ![openFile[p]] = {}]
  /\ cutOff' = (cutOff \/ Live # {})
  /\ store' = [store EXCEPT ![p] = "open"]
  /\ UNCHANGED <<flock, ownerRec, openFile, catalog, worker, lease>>

\* migrate, ReclaimOrphans, recoverOrganize, recoverTrash: every running row
\* becomes crashed and every lease row goes, whoever still works under it.
Reclaim(p) ==
  LET f == openFile[p] IN
  /\ store[p] = "opening"
  /\ running' = [running EXCEPT ![f] = {}]
  /\ lease' = [lease EXCEPT ![f] = None]
  /\ cutOff' = (cutOff \/ Live # {})
  /\ store' = [store EXCEPT ![p] = "open"]
  /\ UNCHANGED <<flock, ownerRec, openFile, catalog, worker>>

\* Mutant: teardown lets the lock go before its connections are closed.
TeardownUnlocked(p) ==
  /\ store[p] \in {"opening", "open"}
  /\ store' = [store EXCEPT ![p] = "draining"]
  /\ flock' = None
  /\ UNCHANGED <<ownerRec, openFile, catalog, jobVars>>

\* teardown under wmu: closed is set and the pools are swapped out.  Also what
\* a failed reconciliation does to the half-open store.
Teardown(p) ==
  /\ store[p] \in {"opening", "open"}
  /\ store' = [store EXCEPT ![p] = "draining"]
  /\ UNCHANGED <<flock, ownerRec, openFile, catalog, jobVars>>

\* closePools and settle have waited for the reads still running.
Settle(p) ==
  /\ store[p] = "draining"
  /\ store' = [store EXCEPT ![p] = "unlocking"]
  /\ UNCHANGED <<flock, ownerRec, openFile, catalog, jobVars>>

\* Mutant: the record is removed after the lock went, whoever wrote it.
RemoveRecordLate(p) ==
  /\ store[p] \in {"unlocking", "down"}
  /\ ownerRec # None
  /\ ownerRec' = None
  /\ UNCHANGED <<flock, store, openFile, catalog, jobVars>>

\* writeLock.release: the record goes while the lock is still held ...
RemoveRecord(p) ==
  /\ store[p] = "unlocking"
  /\ ownerRec = p
  /\ ownerRec' = None
  /\ UNCHANGED <<flock, store, openFile, catalog, jobVars>>

\* ... and then the lock.  A record this process never wrote, left by a crash,
\* is removed too.
Unlock(p) ==
  /\ store[p] = "unlocking"
  /\ ownerRec # p
  /\ ownerRec' = None
  /\ flock' = None
  /\ store' = [store EXCEPT ![p] = "down"]
  /\ UNCHANGED <<openFile, catalog, jobVars>>

\* The process dies: the kernel drops its lock, its goroutines are gone, and
\* the record and every row stay as they were.
Crash(p) ==
  /\ store' = [store EXCEPT ![p] = "down"]
  /\ flock' = IF flock = p THEN None ELSE flock
  /\ worker' = [w \in Workers |-> IF ProcOf[w] = p THEN "idle" ELSE worker[w]]
  /\ cutOff' = (cutOff /\ \E w \in Live : ProcOf[w] # p)
  /\ UNCHANGED <<ownerRec, openFile, catalog, running, lease>>

\* port.Restore's rename: another file is at the path.  A backup taken while a
\* job ran holds that job's running row and its lease.
Replace ==
  /\ catalog < MaxFile
  /\ catalog' = catalog + 1
  /\ \E stale \in BOOLEAN, p \in Procs :
       /\ running' = [running EXCEPT ![catalog + 1] = IF stale THEN Workers ELSE {}]
       /\ lease' = [lease EXCEPT ![catalog + 1] = IF stale THEN p ELSE None]
  /\ cutOff' = (cutOff \/ Live # {})
  /\ UNCHANGED <<ownerVars, worker>>

-----------------------------------------------------------------------------
(***************************************************************************)
(* Leased work: jobs.Manager.Run and RunLeased                             *)
(***************************************************************************)
\* A call that wants the lease is on its way (a proxied request past the
\* paused check, or a command in its own process).
Admit(w) ==
  /\ worker[w] = "idle"
  /\ worker' = [worker EXCEPT ![w] = "admitted"]
  /\ UNCHANGED <<ownerVars, catalog, running, lease, cutOff>>

\* acquire: AcquireLease inserts the scope's row; Run goes on to a job row,
\* RunLeased straight into its function.
AcquireLease(w) ==
  LET p == ProcOf[w]
      f == openFile[p] IN
  /\ worker[w] = "admitted"
  /\ Writable(p)
  /\ lease[f] = None
  /\ lease' = [lease EXCEPT ![f] = p]
  /\ worker' \in {[worker EXCEPT ![w] = "leased"], [worker EXCEPT ![w] = "bare"]}
  /\ UNCHANGED <<ownerVars, catalog, running, cutOff>>

\* acquire: the scope is held, or the store is closed; CodeConflict or an error.
AcquireRefused(w) ==
  LET p == ProcOf[w] IN
  /\ worker[w] = "admitted"
  /\ ~Writable(p) \/ lease[openFile[p]] # None
  /\ worker' = [worker EXCEPT ![w] = "idle"]
  /\ UNCHANGED <<ownerVars, catalog, running, lease, cutOff>>

\* CreateJob, then fn starts.
CreateJob(w) ==
  /\ worker[w] = "leased"
  /\ Writable(ProcOf[w])
  /\ running' = [running EXCEPT ![openFile[ProcOf[w]]] = @ \cup {w}]
  /\ worker' = [worker EXCEPT ![w] = "working"]
  /\ UNCHANGED <<ownerVars, catalog, lease, cutOff>>

\* CreateJob fails on a closed store; the deferred release still runs.
CreateJobFails(w) ==
  /\ worker[w] = "leased"
  /\ ~Writable(ProcOf[w])
  /\ worker' = [worker EXCEPT ![w] = "releasing"]
  /\ UNCHANGED <<ownerVars, catalog, running, lease, cutOff>>

\* Mutant: a job that ends is not finalized.
FinishJobUnrecorded(w) ==
  /\ worker[w] = "working"
  /\ worker' = [worker EXCEPT ![w] = "releasing"]
  /\ UNCHANGED <<ownerVars, catalog, running, lease, cutOff>>

\* fn returns and finalize writes the terminal state: best effort, so a closed
\* store (or a failing write) leaves the row as it is.  UpdateJob goes by id.
FinishJob(w) ==
  /\ worker[w] = "working"
  /\ worker' = [worker EXCEPT ![w] = "releasing"]
  /\ \/ /\ Writable(ProcOf[w])
        /\ running' = [running EXCEPT ![openFile[ProcOf[w]]] = @ \ {w}]
     \/ /\ ~Writable(ProcOf[w]) \/ IOFaults
        /\ UNCHANGED running
  /\ UNCHANGED <<ownerVars, catalog, lease, cutOff>>

\* RunLeased's fn returns; there is no row to finalize.
FinishBare(w) ==
  /\ worker[w] = "bare"
  /\ worker' = [worker EXCEPT ![w] = "releasing"]
  /\ UNCHANGED <<ownerVars, catalog, running, lease, cutOff>>

\* ReleaseLease deletes the scope's row where it names this process, whichever
\* of its workers took it; on a closed store it only warns.
ReleaseLease(w) ==
  LET p == ProcOf[w]
      f == openFile[p] IN
  /\ worker[w] = "releasing"
  /\ worker' = [worker EXCEPT ![w] = "idle"]
  /\ \/ /\ Writable(p)
        /\ lease' = [lease EXCEPT ![f] = IF @ = p THEN None ELSE @]
     \/ /\ ~Writable(p) \/ IOFaults
        /\ UNCHANGED lease
  /\ cutOff' = (cutOff /\ Live # {w})
  /\ UNCHANGED <<ownerVars, catalog, running>>

-----------------------------------------------------------------------------
OwnerStep(p) ==
  \/ Lock(p) \/ RecordAndOpen(p) \/ OpenFails(p) \/ Reclaim(p) \/ Teardown(p)
  \/ Settle(p) \/ RemoveRecord(p) \/ Unlock(p) \/ Crash(p)

WorkStep(w) ==
  \/ Admit(w) \/ AcquireLease(w) \/ AcquireRefused(w) \/ CreateJob(w) \/ CreateJobFails(w)
  \/ FinishJob(w) \/ FinishBare(w) \/ ReleaseLease(w)

StoreNext ==
  \/ \E p \in Procs : OwnerStep(p)
  \/ \E w \in Workers : WorkStep(w)
  \/ Replace

StoreSpec == StoreInit /\ [][StoreNext]_storeVars

-----------------------------------------------------------------------------
(***************************************************************************)
(* Properties                                                              *)
(***************************************************************************)
\* A process that has the catalog's write connections, or is on its way into
\* or out of having them, holds the flock: teardown lets the lock go last.
SingleWriter ==
  \A p \in Procs : store[p] # "down" => flock = p

\* While a store is open the record beside the lockfile names its process, so
\* a command that finds the lock held reads its holder's socket and not the
\* one a dead or departed owner left (release: "a process that acquires next
\* never reads this owner's stale info").
RecordNamesOwner ==
  \A p \in Procs : store[p] \in {"opening", "open", "draining"} => ownerRec = p

\* With no write fault, an open store shows a running row only for work that
\* is running in its own process (HasRunningJob: "a running row here means a
\* live in-process job"), across crashes, hand-offs and restored backups.
RunningRowIsLive ==
  \A p \in Procs, w \in Workers :
    /\ store[p] = "open"
    /\ w \in running[openFile[p]]
    => ProcOf[w] = p /\ worker[w] = "working"

\* Until a hand-off takes the store from under running work, at most one worker
\* is in its leased function, whatever crashed, closed or restored in between.
LeaseExclusiveUnlessCutOff ==
  ~cutOff => \A v, w \in InBody : v = w

\* A lease row in a file some store has open is the row of that process's own
\* work, so no scope stays refused with nobody behind it.
LeaseHasWorker ==
  \A p \in Procs :
    /\ store[p] = "open"
    /\ lease[openFile[p]] # None
    => /\ lease[openFile[p]] = p
       /\ \E w \in Live : ProcOf[w] = p

\* What owners and workers may rely on: the lock goes with the connections, the
\* record names the lock's holder, a lease excludes, and when no write of a job's
\* end fails, rows and leases of an open store are those of work in its process.
StoreSafe ==
  /\ SingleWriter /\ RecordNamesOwner /\ LeaseExclusiveUnlessCutOff
  /\ ~IOFaults => RunningRowIsLive /\ LeaseHasWorker
=============================================================================
