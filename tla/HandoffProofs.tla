--------------------------- MODULE HandoffProofs ---------------------------
(***************************************************************************)
(* Proofs about the store life cycle (Store), for every set of processes   *)
(* and workers and every number of replaced catalogs, and about the        *)
(* hand-off: ownership and leases carry over to it, and the maintenance    *)
(* hooks and the pause keep their promises.                                *)
(***************************************************************************)
EXTENDS Handoff, TLAPS

(***************************************************************************)
(* The store life cycle.                                                   *)
(***************************************************************************)
\* A process's connections have the file at the path or an older one.
FileOrder == \A p \in Procs : openFile[p] <= catalog

\* While no store went from under running work: the live worker is alone, a
\* writable store is its own process's, and that store's lease row is its.
LeaseInv ==
  ~cutOff =>
    /\ \A v, w \in Live : v = w
    /\ \A w \in Live, p \in Procs :
         Writable(p) => ProcOf[w] = p /\ lease[openFile[p]] = p

\* The rows and leases of an open store, which hold when no write of a job's
\* end fails.
RowInv == ~IOFaults => RunningRowIsLive /\ LeaseHasWorker

OwnerInv == StoreTypeOK /\ SingleWriter /\ RecordNamesOwner /\ FileOrder

\* The inductive invariant of StoreSpec.
StoreInv == OwnerInv /\ LeaseInv /\ RowInv

-----------------------------------------------------------------------------
\* The initial states: nobody owns the catalog and nothing runs.
LEMMA StoreInitInv == StoreInit => StoreInv
<1> SUFFICES ASSUME StoreInit PROVE StoreInv
  OBVIOUS
<1> USE ProcOfAssumption, MaxFileAssumption DEF StoreInit
<1>1. OwnerInv
  <2>1. 0 \in Files
    BY DEF Files
  <2>2. StoreTypeOK
    BY <2>1 DEF StoreTypeOK, Phases, WorkerStates
  <2>3. SingleWriter /\ RecordNamesOwner /\ FileOrder
    BY DEF SingleWriter, RecordNamesOwner, FileOrder
  <2> QED BY <2>2, <2>3 DEF OwnerInv
<1>2. LeaseInv
  BY DEF LeaseInv, Live
<1>3. RowInv
  BY DEF RowInv, RunningRowIsLive, LeaseHasWorker
<1> QED BY <1>1, <1>2, <1>3 DEF StoreInv

\* Types and the order of files.
LEMMA StoreTypeStep ==
  ASSUME StoreTypeOK, FileOrder, [StoreNext]_storeVars
  PROVE  StoreTypeOK' /\ FileOrder'
<1> USE ProcOfAssumption, NoneAssumption, MaxFileAssumption, IOFaultsAssumption
        DEF StoreTypeOK, FileOrder, Files, Phases, WorkerStates, ownerVars, jobVars
<1>1. ASSUME NEW p \in Procs, Lock(p) PROVE (StoreTypeOK /\ FileOrder)'
  BY <1>1 DEF Lock
<1>2. ASSUME NEW p \in Procs, RecordAndOpen(p) PROVE (StoreTypeOK /\ FileOrder)'
  BY <1>2 DEF RecordAndOpen
<1>3. ASSUME NEW p \in Procs, OpenFails(p) PROVE (StoreTypeOK /\ FileOrder)'
  BY <1>3 DEF OpenFails
<1>4. ASSUME NEW p \in Procs, Reclaim(p) PROVE (StoreTypeOK /\ FileOrder)'
  BY <1>4 DEF Reclaim
<1>5. ASSUME NEW p \in Procs, Teardown(p) PROVE (StoreTypeOK /\ FileOrder)'
  BY <1>5 DEF Teardown
<1>6. ASSUME NEW p \in Procs, Settle(p) PROVE (StoreTypeOK /\ FileOrder)'
  BY <1>6 DEF Settle
<1>7. ASSUME NEW p \in Procs, RemoveRecord(p) PROVE (StoreTypeOK /\ FileOrder)'
  BY <1>7 DEF RemoveRecord
<1>8. ASSUME NEW p \in Procs, Unlock(p) PROVE (StoreTypeOK /\ FileOrder)'
  BY <1>8 DEF Unlock
<1>9. ASSUME NEW p \in Procs, Crash(p) PROVE (StoreTypeOK /\ FileOrder)'
  BY <1>9 DEF Crash
<1>10. ASSUME NEW w \in Workers, Admit(w) PROVE (StoreTypeOK /\ FileOrder)'
  BY <1>10 DEF Admit
<1>11. ASSUME NEW w \in Workers, AcquireLease(w) PROVE (StoreTypeOK /\ FileOrder)'
  BY <1>11 DEF AcquireLease
<1>12. ASSUME NEW w \in Workers, AcquireRefused(w) PROVE (StoreTypeOK /\ FileOrder)'
  BY <1>12 DEF AcquireRefused
<1>13. ASSUME NEW w \in Workers, CreateJob(w) PROVE (StoreTypeOK /\ FileOrder)'
  BY <1>13 DEF CreateJob
<1>14. ASSUME NEW w \in Workers, CreateJobFails(w) PROVE (StoreTypeOK /\ FileOrder)'
  BY <1>14 DEF CreateJobFails
<1>15. ASSUME NEW w \in Workers, FinishJob(w) PROVE (StoreTypeOK /\ FileOrder)'
  <2>1. running' \in [Files -> SUBSET Workers]
    <3> HIDE DEF Files, Phases, WorkerStates
    <3> QED BY <1>15 DEF FinishJob
  <2> QED BY <1>15, <2>1 DEF FinishJob
<1>16. ASSUME NEW w \in Workers, FinishBare(w) PROVE (StoreTypeOK /\ FileOrder)'
  BY <1>16 DEF FinishBare
<1>17. ASSUME NEW w \in Workers, ReleaseLease(w) PROVE (StoreTypeOK /\ FileOrder)'
  BY <1>17 DEF ReleaseLease
<1>18. CASE Replace
  BY <1>18 DEF Replace
<1>19. CASE UNCHANGED storeVars
  BY <1>19 DEF storeVars
<1> QED BY <1>1, <1>2, <1>3, <1>4, <1>5, <1>6, <1>7, <1>8, <1>9, <1>10, <1>11, <1>12,
    <1>13, <1>14, <1>15, <1>16, <1>17, <1>18, <1>19 DEF StoreNext, OwnerStep, WorkStep

\* Ownership: the lock goes last and the record before it.
LEMMA OwnerStepInv ==
  ASSUME StoreTypeOK, SingleWriter, RecordNamesOwner, [StoreNext]_storeVars
  PROVE  SingleWriter' /\ RecordNamesOwner'
<1> USE ProcOfAssumption, NoneAssumption
        DEF StoreTypeOK, SingleWriter, RecordNamesOwner, Phases, ownerVars, jobVars
<1>1. ASSUME NEW p \in Procs, Lock(p) PROVE (SingleWriter /\ RecordNamesOwner)'
  BY <1>1 DEF Lock
<1>2. ASSUME NEW p \in Procs, RecordAndOpen(p) PROVE (SingleWriter /\ RecordNamesOwner)'
  BY <1>2 DEF RecordAndOpen
<1>3. ASSUME NEW p \in Procs, OpenFails(p) PROVE (SingleWriter /\ RecordNamesOwner)'
  BY <1>3 DEF OpenFails
<1>4. ASSUME NEW p \in Procs, Reclaim(p) PROVE (SingleWriter /\ RecordNamesOwner)'
  BY <1>4 DEF Reclaim
<1>5. ASSUME NEW p \in Procs, Teardown(p) PROVE (SingleWriter /\ RecordNamesOwner)'
  BY <1>5 DEF Teardown
<1>6. ASSUME NEW p \in Procs, Settle(p) PROVE (SingleWriter /\ RecordNamesOwner)'
  BY <1>6 DEF Settle
<1>7. ASSUME NEW p \in Procs, RemoveRecord(p) PROVE (SingleWriter /\ RecordNamesOwner)'
  BY <1>7 DEF RemoveRecord
<1>8. ASSUME NEW p \in Procs, Unlock(p) PROVE (SingleWriter /\ RecordNamesOwner)'
  BY <1>8 DEF Unlock
<1>9. ASSUME NEW p \in Procs, Crash(p) PROVE (SingleWriter /\ RecordNamesOwner)'
  BY <1>9 DEF Crash
<1>10. ASSUME NEW w \in Workers, Admit(w) PROVE (SingleWriter /\ RecordNamesOwner)'
  BY <1>10 DEF Admit
<1>11. ASSUME NEW w \in Workers, AcquireLease(w) PROVE (SingleWriter /\ RecordNamesOwner)'
  BY <1>11 DEF AcquireLease
<1>12. ASSUME NEW w \in Workers, AcquireRefused(w) PROVE (SingleWriter /\ RecordNamesOwner)'
  BY <1>12 DEF AcquireRefused
<1>13. ASSUME NEW w \in Workers, CreateJob(w) PROVE (SingleWriter /\ RecordNamesOwner)'
  BY <1>13 DEF CreateJob
<1>14. ASSUME NEW w \in Workers, CreateJobFails(w) PROVE (SingleWriter /\ RecordNamesOwner)'
  BY <1>14 DEF CreateJobFails
<1>15. ASSUME NEW w \in Workers, FinishJob(w) PROVE (SingleWriter /\ RecordNamesOwner)'
  BY <1>15 DEF FinishJob
<1>16. ASSUME NEW w \in Workers, FinishBare(w) PROVE (SingleWriter /\ RecordNamesOwner)'
  BY <1>16 DEF FinishBare
<1>17. ASSUME NEW w \in Workers, ReleaseLease(w) PROVE (SingleWriter /\ RecordNamesOwner)'
  BY <1>17 DEF ReleaseLease
<1>18. CASE Replace
  BY <1>18 DEF Replace
<1>19. CASE UNCHANGED storeVars
  BY <1>19 DEF storeVars
<1> QED BY <1>1, <1>2, <1>3, <1>4, <1>5, <1>6, <1>7, <1>8, <1>9, <1>10, <1>11, <1>12,
    <1>13, <1>14, <1>15, <1>16, <1>17, <1>18, <1>19 DEF StoreNext, OwnerStep, WorkStep

\* The lease excludes, as long as no store goes from under running work.
LEMMA LeaseStepInv ==
  ASSUME OwnerInv, LeaseInv, [StoreNext]_storeVars
  PROVE  LeaseInv'
<1> USE ProcOfAssumption, NoneAssumption
        DEF OwnerInv, StoreTypeOK, SingleWriter, LeaseInv, Live, Writable, Phases,
        WorkerStates, ownerVars, jobVars
<1>1. ASSUME NEW p \in Procs, Lock(p) PROVE LeaseInv'
  BY <1>1 DEF Lock
<1>2. ASSUME NEW p \in Procs, RecordAndOpen(p) PROVE LeaseInv'
  BY <1>2 DEF RecordAndOpen
<1>3. ASSUME NEW p \in Procs, OpenFails(p) PROVE LeaseInv'
  BY <1>3 DEF OpenFails
<1>4. ASSUME NEW p \in Procs, Reclaim(p) PROVE LeaseInv'
  BY <1>4 DEF Reclaim
<1>5. ASSUME NEW p \in Procs, Teardown(p) PROVE LeaseInv'
  BY <1>5 DEF Teardown
<1>6. ASSUME NEW p \in Procs, Settle(p) PROVE LeaseInv'
  BY <1>6 DEF Settle
<1>7. ASSUME NEW p \in Procs, RemoveRecord(p) PROVE LeaseInv'
  BY <1>7 DEF RemoveRecord
<1>8. ASSUME NEW p \in Procs, Unlock(p) PROVE LeaseInv'
  BY <1>8 DEF Unlock
<1>9. ASSUME NEW p \in Procs, Crash(p) PROVE LeaseInv'
  BY <1>9 DEF Crash
<1>10. ASSUME NEW w \in Workers, Admit(w) PROVE LeaseInv'
  BY <1>10 DEF Admit
<1>11. ASSUME NEW w \in Workers, AcquireLease(w) PROVE LeaseInv'
  BY <1>11 DEF AcquireLease
<1>12. ASSUME NEW w \in Workers, AcquireRefused(w) PROVE LeaseInv'
  BY <1>12 DEF AcquireRefused
<1>13. ASSUME NEW w \in Workers, CreateJob(w) PROVE LeaseInv'
  BY <1>13 DEF CreateJob
<1>14. ASSUME NEW w \in Workers, CreateJobFails(w) PROVE LeaseInv'
  BY <1>14 DEF CreateJobFails
<1>15. ASSUME NEW w \in Workers, FinishJob(w) PROVE LeaseInv'
  BY <1>15 DEF FinishJob
<1>16. ASSUME NEW w \in Workers, FinishBare(w) PROVE LeaseInv'
  BY <1>16 DEF FinishBare
<1>17. ASSUME NEW w \in Workers, ReleaseLease(w) PROVE LeaseInv'
  BY <1>17 DEF ReleaseLease
<1>18. CASE Replace
  BY <1>18 DEF Replace
<1>19. CASE UNCHANGED storeVars
  BY <1>19 DEF storeVars
<1> QED BY <1>1, <1>2, <1>3, <1>4, <1>5, <1>6, <1>7, <1>8, <1>9, <1>10, <1>11, <1>12,
    <1>13, <1>14, <1>15, <1>16, <1>17, <1>18, <1>19 DEF StoreNext, OwnerStep, WorkStep

\* Rows and leases of an open store belong to work of its own process.
LEMMA RowStepInv ==
  ASSUME OwnerInv, RowInv, [StoreNext]_storeVars
  PROVE  RowInv'
<1> USE ProcOfAssumption, NoneAssumption, IOFaultsAssumption, MaxFileAssumption
        DEF OwnerInv, StoreTypeOK, SingleWriter, FileOrder, RowInv, RunningRowIsLive,
        LeaseHasWorker, Live, Writable, Phases, WorkerStates, Files, ownerVars, jobVars
<1>1. ASSUME NEW p \in Procs, Lock(p) PROVE RowInv'
  BY <1>1 DEF Lock
<1>2. ASSUME NEW p \in Procs, RecordAndOpen(p) PROVE RowInv'
  BY <1>2 DEF RecordAndOpen
<1>3. ASSUME NEW p \in Procs, OpenFails(p) PROVE RowInv'
  BY <1>3 DEF OpenFails
<1>4. ASSUME NEW p \in Procs, Reclaim(p) PROVE RowInv'
  BY <1>4 DEF Reclaim
<1>5. ASSUME NEW p \in Procs, Teardown(p) PROVE RowInv'
  BY <1>5 DEF Teardown
<1>6. ASSUME NEW p \in Procs, Settle(p) PROVE RowInv'
  BY <1>6 DEF Settle
<1>7. ASSUME NEW p \in Procs, RemoveRecord(p) PROVE RowInv'
  BY <1>7 DEF RemoveRecord
<1>8. ASSUME NEW p \in Procs, Unlock(p) PROVE RowInv'
  BY <1>8 DEF Unlock
<1>9. ASSUME NEW p \in Procs, Crash(p) PROVE RowInv'
  BY <1>9 DEF Crash
<1>10. ASSUME NEW w \in Workers, Admit(w) PROVE RowInv'
  <2>1. /\ worker[w] \notin {"leased", "working", "bare", "releasing"}
        /\ worker'[w] \notin {"leased", "working", "bare", "releasing"}
        /\ \A v \in Workers : v # w => worker'[v] = worker[v]
        /\ UNCHANGED <<store, openFile, running, lease>>
    BY <1>10 DEF Admit
  <2> HIDE DEF OwnerInv
  <2> QED BY <2>1
<1>11. ASSUME NEW w \in Workers, AcquireLease(w) PROVE RowInv'
  BY <1>11 DEF AcquireLease
<1>12. ASSUME NEW w \in Workers, AcquireRefused(w) PROVE RowInv'
  <2>1. /\ worker[w] \notin {"leased", "working", "bare", "releasing"}
        /\ worker'[w] \notin {"leased", "working", "bare", "releasing"}
        /\ \A v \in Workers : v # w => worker'[v] = worker[v]
        /\ UNCHANGED <<store, openFile, running, lease>>
    BY <1>12 DEF AcquireRefused
  <2> HIDE DEF OwnerInv
  <2> QED BY <2>1
<1>13. ASSUME NEW w \in Workers, CreateJob(w) PROVE RowInv'
  BY <1>13 DEF CreateJob
<1>14. ASSUME NEW w \in Workers, CreateJobFails(w) PROVE RowInv'
  BY <1>14 DEF CreateJobFails
<1>15. ASSUME NEW w \in Workers, FinishJob(w) PROVE RowInv'
  BY <1>15 DEF FinishJob
<1>16. ASSUME NEW w \in Workers, FinishBare(w) PROVE RowInv'
  BY <1>16 DEF FinishBare
<1>17. ASSUME NEW w \in Workers, ReleaseLease(w) PROVE RowInv'
  BY <1>17 DEF ReleaseLease
<1>18. CASE Replace
  BY <1>18 DEF Replace
<1>19. CASE UNCHANGED storeVars
  BY <1>19 DEF storeVars
<1> QED BY <1>1, <1>2, <1>3, <1>4, <1>5, <1>6, <1>7, <1>8, <1>9, <1>10, <1>11, <1>12,
    <1>13, <1>14, <1>15, <1>16, <1>17, <1>18, <1>19 DEF StoreNext, OwnerStep, WorkStep

-----------------------------------------------------------------------------
\* StoreInv holds in every state of every behaviour of the store life cycle.
THEOREM StoreInvariance == StoreSpec => []StoreInv
<1>1. StoreInit => StoreInv
  BY StoreInitInv
<1>2. StoreInv /\ [StoreNext]_storeVars => StoreInv'
  BY StoreTypeStep, OwnerStepInv, LeaseStepInv, RowStepInv DEF StoreInv, OwnerInv
<1> QED BY <1>1, <1>2, PTL DEF StoreSpec

-----------------------------------------------------------------------------
(***************************************************************************)
(* The hand-off.                                                           *)
(***************************************************************************)

\* A server that may rest: open with its hooks paired unless a reopen's last
\* steps are owed, or closed with one OnSuspend unanswered.
Rests ==
  \/ store[Server] = "open" /\ hooks = IF owed THEN 1 ELSE 0
  \/ store[Server] = "down" /\ hooks = 1 /\ ~owed

\* Where each point of the server process may find store, hooks and owed.
SrvInv ==
  /\ srvPc \in {"off", "boot"} => hooks = 0 /\ ~owed
  /\ srvPc = "off" => store[Server] = "down"
  /\ srvPc \in {"free", "finish"} => Rests
  /\ srvPc = "check" => Rests /\ ~owed
  /\ srvPc \in {"check2", "flush"} => store[Server] = "open" /\ hooks = 1 /\ ~owed
  /\ srvPc = "closing" =>
       store[Server] \in {"draining", "unlocking", "down"} /\ hooks = 1 /\ ~owed
  /\ srvPc = "relock" => store[Server] = "down" /\ hooks = 1 /\ ~owed
  /\ srvPc = "reopening" => hooks = 1 /\ ~owed
  /\ srvPc = "exit" => hooks \in 0..1

\* Maintenance is bound only while no handler runs, to a connection the server
\* still has; a begin's connection and one with an unread request are there,
\* and a handler that ended leaves nothing behind.
PauseInv ==
  /\ maintConn # None =>
       srvPc = "free" /\ store[Server] = "down" /\ conn[maintConn] # "none"
  /\ srvPc \in {"off", "boot", "free", "exit"} => srvWhy = "none"
  /\ srvPc \in {"check", "check2", "flush", "closing"} => srvWhy = "begin"
  /\ srvWhy = "begin" => srvConn \in Clis /\ conn[srvConn] # "none"
  /\ \A c \in Clis : req[c] # "none" => conn[c] # "none"

\* The inductive invariant of Spec beyond StoreInv.
HandoffInv == TypeOK /\ SrvInv /\ PauseInv

-----------------------------------------------------------------------------
(***************************************************************************)
(* The store under the hand-off                                            *)
(***************************************************************************)
\* The hand-off is built of the store's steps: none of its own changes the store.
LEMMA StepRefines ==
  ASSUME [Next]_vars
  PROVE  [StoreNext]_storeVars
<1>1. Server \in Procs /\ Clis \subseteq Procs
  BY ProcsAssumption
<1>2. ASSUME SrvBoot \/ SrvStep \/ SrvStop \/ SrvCrash PROVE [StoreNext]_storeVars
  BY <1>1, <1>2
  DEF SrvBoot, SrvStep, SrvStop, SrvCrash, SrvBooted, SrvFinish, SrvFinishFails, SrvCheck,
            SrvCheck2, SrvSuspend, SrvSuspended, SrvRelock, SrvRelockFails, SrvReopened,
          SrvClose,
      SrvExited, StoreNext, OwnerStep
<1>3. ASSUME NEW p \in Procs, StorePhase(p) PROVE [StoreNext]_storeVars
  BY <1>3 DEF StorePhase, StoreNext, OwnerStep
<1>4. ASSUME NEW c \in Clis, SrvServe(c) PROVE [StoreNext]_storeVars
  BY <1>4 DEF SrvServe, SrvBegin, SrvEnd, SrvDrop
<1>5. ASSUME NEW c \in Clis,
             CliStep(c) \/ CliOpen(c) \/ CliRestore(c) \/ CliAbandon(c) \/ CliCrash(c)
      PROVE  [StoreNext]_storeVars
  BY <1>1, <1>5
    DEF CliStep, CliOpen, CliRestore, CliDial, CliNoServer, CliAnswered, CliAbandon,
      CliTake,
      CliOpened, CliClose, CliClosed, CliProbe, CliRename, CliEnd, CliEnded, CliCrash,
      StoreNext, OwnerStep
<1>6. ASSUME NEW w \in Workers, Start(w) \/ Work(w) PROVE [StoreNext]_storeVars
  BY <1>6 DEF Start, Work, StoreNext, WorkStep
<1>7. CASE UNCHANGED vars
  BY <1>7 DEF vars
<1> QED BY <1>2, <1>3, <1>4, <1>5, <1>6, <1>7 DEF Next

\* Ownership, leases and job rows under the hand-off, whatever is interrupted,
\* lost or killed in it.
THEOREM HandoffStoreInvariance == Spec => []StoreInv
<1>1. Init => StoreInv
  BY StoreInitInv DEF Init
<1>2. StoreInv /\ [Next]_vars => StoreInv'
  BY StepRefines, StoreTypeStep, OwnerStepInv, LeaseStepInv, RowStepInv DEF StoreInv, OwnerInv
<1> QED BY <1>1, <1>2, PTL DEF Spec

-----------------------------------------------------------------------------
(***************************************************************************)
(* Hooks and pause                                                         *)
(***************************************************************************)
LEMMA HandoffInitInv == Init => HandoffInv
<1> SUFFICES ASSUME Init PROVE HandoffInv
  OBVIOUS
<1>1. StoreTypeOK
  BY StoreInitInv DEF Init, StoreInv, OwnerInv
<1>2. stopping \in BOOLEAN /\ owed \in BOOLEAN
  BY Zenon DEF Init
<1>5. TypeOK
  BY <1>1, <1>2 DEF Init, TypeOK, SrvPcs, CliPcs
<1>3. SrvInv
  BY ProcsAssumption DEF Init, StoreInit, SrvInv
<1>4. PauseInv
  BY DEF Init, PauseInv
<1> QED BY <1>5, <1>3, <1>4 DEF HandoffInv

\* The type invariant, given the store's.
LEMMA HandoffTypeStep ==
  ASSUME TypeOK, StoreTypeOK', [Next]_vars
  PROVE  TypeOK'
<1> USE ProcsAssumption, NoneAssumption
        DEF TypeOK, SrvPcs, CliPcs, Answer, Goto, HangUp, storeVars, srvVars, wireVars,
        cliVars, handoffVars
<1>1. CASE SrvBoot
  BY <1>1 DEF SrvBoot, Lock
<1>2. CASE SrvBooted
  BY <1>2 DEF SrvBooted
<1>3. CASE SrvFinish
  <2>1. owed' \in BOOLEAN /\ stopping' \in BOOLEAN
    BY <1>3, Zenon DEF SrvFinish, TypeOK
  <2> QED BY <1>3, <2>1 DEF SrvFinish
<1>4. CASE SrvFinishFails
  BY <1>4 DEF SrvFinishFails
<1>5. CASE SrvCheck
  BY <1>5 DEF SrvCheck, RefuseRunningJob
<1>6. CASE SrvCheck2
  BY <1>6 DEF SrvCheck2, RefuseRunningJob
<1>7. CASE SrvSuspend
  BY <1>7 DEF SrvSuspend, Teardown
<1>8. CASE SrvSuspended
  BY <1>8 DEF SrvSuspended
<1>9. CASE SrvRelock
  BY <1>9 DEF SrvRelock, Lock
<1>10. CASE SrvRelockFails
  BY <1>10 DEF SrvRelockFails
<1>11. CASE SrvReopened
  <2>1. owed' \in BOOLEAN /\ stopping' \in BOOLEAN
    BY <1>11, Zenon DEF SrvReopened, TypeOK
  <2> QED BY <1>11, <2>1 DEF SrvReopened
<1>12. CASE SrvStop
  BY <1>12 DEF SrvStop
<1>13. CASE SrvClose
  BY <1>13 DEF SrvClose, Teardown
<1>14. CASE SrvExited
  <2>1. owed' \in BOOLEAN /\ stopping' \in BOOLEAN
    BY <1>14, Zenon DEF SrvExited, TypeOK
  <2> QED BY <1>14, <2>1 DEF SrvExited
<1>15. CASE SrvCrash
  <2>1. owed' \in BOOLEAN /\ stopping' \in BOOLEAN
    BY <1>15, Zenon DEF SrvCrash, TypeOK
  <2> QED BY <1>15, <2>1 DEF SrvCrash, Crash
<1>16. ASSUME NEW c \in Clis, SrvBegin(c) PROVE TypeOK'
  BY <1>16 DEF SrvBegin
<1>17. ASSUME NEW c \in Clis, SrvEnd(c) PROVE TypeOK'
  BY <1>17 DEF SrvEnd
<1>18. ASSUME NEW c \in Clis, SrvDrop(c) PROVE TypeOK'
  BY <1>18 DEF SrvDrop
<1>19. ASSUME NEW c \in Clis, CliOpen(c) PROVE TypeOK'
  BY <1>19 DEF CliOpen, Lock
<1>20. ASSUME NEW c \in Clis, CliRestore(c) PROVE TypeOK'
  BY <1>20 DEF CliRestore
<1>21. ASSUME NEW c \in Clis, CliDial(c) PROVE TypeOK'
  BY <1>21 DEF CliDial
<1>22. ASSUME NEW c \in Clis, CliNoServer(c) PROVE TypeOK'
  BY <1>22 DEF CliNoServer
<1>23. ASSUME NEW c \in Clis, CliAnswered(c) PROVE TypeOK'
  BY <1>23 DEF CliAnswered
<1>24. ASSUME NEW c \in Clis, CliAbandon(c) PROVE TypeOK'
  BY <1>24 DEF CliAbandon
<1>25. ASSUME NEW c \in Clis, CliTake(c) PROVE TypeOK'
  BY <1>25 DEF CliTake, Lock
<1>26. ASSUME NEW c \in Clis, CliOpened(c) PROVE TypeOK'
  BY <1>26 DEF CliOpened
<1>27. ASSUME NEW c \in Clis, CliClose(c) PROVE TypeOK'
  BY <1>27 DEF CliClose, Teardown
<1>28. ASSUME NEW c \in Clis, CliClosed(c) PROVE TypeOK'
  BY <1>28 DEF CliClosed
<1>29. ASSUME NEW c \in Clis, CliProbe(c) PROVE TypeOK'
  BY <1>29 DEF CliProbe
<1>30. ASSUME NEW c \in Clis, CliRename(c) PROVE TypeOK'
  BY <1>30 DEF CliRename, Replace
<1>31. ASSUME NEW c \in Clis, CliEnd(c) PROVE TypeOK'
  BY <1>31 DEF CliEnd
<1>32. ASSUME NEW c \in Clis, CliEnded(c) PROVE TypeOK'
  BY <1>32 DEF CliEnded
<1>33. ASSUME NEW c \in Clis, CliCrash(c) PROVE TypeOK'
  BY <1>33 DEF CliCrash, Crash
<1>34. ASSUME NEW p \in Procs, StorePhase(p) PROVE TypeOK'
    BY <1>34 DEF StorePhase, RecordAndOpen, OpenFails, Reclaim, Teardown, Settle,
      RemoveRecord, Unlock
<1>35. ASSUME NEW w \in Workers, Start(w) \/ Work(w) PROVE TypeOK'
    BY <1>35 DEF Start, Work, Admit, AcquireLease, AcquireRefused, CreateJob,
      CreateJobFails, FinishJob, FinishBare, ReleaseLease
<1>36. CASE UNCHANGED vars
  BY <1>36 DEF vars
<1> QED BY <1>1, <1>2, <1>3, <1>4, <1>5, <1>6, <1>7, <1>8, <1>9, <1>10, <1>11, <1>12,
    <1>13, <1>14, <1>15, <1>16, <1>17, <1>18, <1>19, <1>20, <1>21, <1>22, <1>23, <1>24,
    <1>25, <1>26, <1>27, <1>28, <1>29, <1>30, <1>31, <1>32, <1>33, <1>34, <1>35, <1>36
    DEF Next, SrvStep, SrvServe, CliStep

\* Store, hooks and owed at every point of the server.
LEMMA SrvInvStep ==
  ASSUME TypeOK, SrvInv, PauseInv, [Next]_vars
  PROVE  SrvInv'
<1> USE ProcsAssumption, NoneAssumption
        DEF TypeOK, StoreTypeOK, SrvInv, PauseInv, Rests, Answer, storeVars, srvVars,
        wireVars, cliVars, handoffVars, ownerVars
<1>1. CASE SrvBoot
  BY <1>1 DEF SrvBoot, Lock
<1>2. CASE SrvBooted
  BY <1>2 DEF SrvBooted
<1>3. CASE SrvFinish
  BY <1>3 DEF SrvFinish
<1>4. CASE SrvFinishFails
  BY <1>4 DEF SrvFinishFails
<1>5. CASE SrvCheck
  BY <1>5 DEF SrvCheck, RefuseRunningJob
<1>6. CASE SrvCheck2
  BY <1>6 DEF SrvCheck2, RefuseRunningJob
<1>7. CASE SrvSuspend
  BY <1>7 DEF SrvSuspend, Teardown
<1>8. CASE SrvSuspended
  BY <1>8 DEF SrvSuspended
<1>9. CASE SrvRelock
  BY <1>9 DEF SrvRelock, Lock
<1>10. CASE SrvRelockFails
  BY <1>10 DEF SrvRelockFails
<1>11. CASE SrvReopened
  BY <1>11 DEF SrvReopened
<1>12. CASE SrvStop
  BY <1>12 DEF SrvStop
<1>13. CASE SrvClose
  BY <1>13 DEF SrvClose, Teardown
<1>14. CASE SrvExited
  BY <1>14 DEF SrvExited
<1>15. CASE SrvCrash
  BY <1>15 DEF SrvCrash, Crash
<1>16. ASSUME NEW c \in Clis, SrvBegin(c) PROVE SrvInv'
  BY <1>16 DEF SrvBegin
<1>17. ASSUME NEW c \in Clis, SrvEnd(c) PROVE SrvInv'
  BY <1>17 DEF SrvEnd
<1>18. ASSUME NEW c \in Clis, SrvDrop(c) PROVE SrvInv'
  BY <1>18 DEF SrvDrop
<1>19. ASSUME NEW c \in Clis, CliOpen(c) PROVE SrvInv'
  BY <1>19 DEF CliOpen, Lock
<1>20. ASSUME NEW c \in Clis, CliRestore(c) PROVE SrvInv'
  BY <1>20 DEF CliRestore
<1>21. ASSUME NEW c \in Clis, CliDial(c) PROVE SrvInv'
  BY <1>21 DEF CliDial
<1>22. ASSUME NEW c \in Clis, CliNoServer(c) PROVE SrvInv'
  BY <1>22 DEF CliNoServer
<1>23. ASSUME NEW c \in Clis, CliAnswered(c) PROVE SrvInv'
  BY <1>23 DEF CliAnswered
<1>24. ASSUME NEW c \in Clis, CliAbandon(c) PROVE SrvInv'
  BY <1>24 DEF CliAbandon
<1>25. ASSUME NEW c \in Clis, CliTake(c) PROVE SrvInv'
  BY <1>25 DEF CliTake, Lock
<1>26. ASSUME NEW c \in Clis, CliOpened(c) PROVE SrvInv'
  BY <1>26 DEF CliOpened
<1>27. ASSUME NEW c \in Clis, CliClose(c) PROVE SrvInv'
  BY <1>27 DEF CliClose, Teardown
<1>28. ASSUME NEW c \in Clis, CliClosed(c) PROVE SrvInv'
  BY <1>28 DEF CliClosed
<1>29. ASSUME NEW c \in Clis, CliProbe(c) PROVE SrvInv'
  BY <1>29 DEF CliProbe
<1>30. ASSUME NEW c \in Clis, CliRename(c) PROVE SrvInv'
  BY <1>30 DEF CliRename, Replace
<1>31. ASSUME NEW c \in Clis, CliEnd(c) PROVE SrvInv'
  BY <1>31 DEF CliEnd
<1>32. ASSUME NEW c \in Clis, CliEnded(c) PROVE SrvInv'
  BY <1>32 DEF CliEnded
<1>33. ASSUME NEW c \in Clis, CliCrash(c) PROVE SrvInv'
  BY <1>33 DEF CliCrash, Crash
<1>34. ASSUME NEW p \in Procs, StorePhase(p) PROVE SrvInv'
    BY <1>34 DEF StorePhase, RecordAndOpen, OpenFails, Reclaim, Teardown, Settle,
      RemoveRecord, Unlock
<1>35. ASSUME NEW w \in Workers, Start(w) \/ Work(w) PROVE SrvInv'
    BY <1>35 DEF Start, Work, Admit, AcquireLease, AcquireRefused, CreateJob,
      CreateJobFails, FinishJob, FinishBare, ReleaseLease
<1>36. CASE UNCHANGED vars
  BY <1>36 DEF vars
<1> QED BY <1>1, <1>2, <1>3, <1>4, <1>5, <1>6, <1>7, <1>8, <1>9, <1>10, <1>11, <1>12,
    <1>13, <1>14, <1>15, <1>16, <1>17, <1>18, <1>19, <1>20, <1>21, <1>22, <1>23, <1>24,
    <1>25, <1>26, <1>27, <1>28, <1>29, <1>30, <1>31, <1>32, <1>33, <1>34, <1>35, <1>36
    DEF Next, SrvStep, SrvServe, CliStep

\* The pause and the connections it is bound to.
LEMMA PauseInvStep ==
  ASSUME TypeOK, SrvInv, PauseInv, [Next]_vars
  PROVE  PauseInv'
<1> USE ProcsAssumption, NoneAssumption
        DEF TypeOK, StoreTypeOK, SrvInv, PauseInv, Answer, HangUp, storeVars, srvVars,
        wireVars, cliVars, handoffVars, ownerVars
<1>1. CASE SrvBoot
  BY <1>1 DEF SrvBoot, Lock
<1>2. CASE SrvBooted
  BY <1>2 DEF SrvBooted
<1>3. CASE SrvFinish
  BY <1>3 DEF SrvFinish
<1>4. CASE SrvFinishFails
  BY <1>4 DEF SrvFinishFails
<1>5. CASE SrvCheck
  BY <1>5 DEF SrvCheck, RefuseRunningJob
<1>6. CASE SrvCheck2
  BY <1>6 DEF SrvCheck2, RefuseRunningJob
<1>7. CASE SrvSuspend
  BY <1>7 DEF SrvSuspend, Teardown
<1>8. CASE SrvSuspended
  BY <1>8 DEF SrvSuspended
<1>9. CASE SrvRelock
  BY <1>9 DEF SrvRelock, Lock
<1>10. CASE SrvRelockFails
  BY <1>10 DEF SrvRelockFails
<1>11. CASE SrvReopened
  BY <1>11 DEF SrvReopened
<1>12. CASE SrvStop
  BY <1>12 DEF SrvStop
<1>13. CASE SrvClose
  BY <1>13 DEF SrvClose, Teardown
<1>14. CASE SrvExited
  BY <1>14 DEF SrvExited
<1>15. CASE SrvCrash
  BY <1>15 DEF SrvCrash, Crash
<1>16. ASSUME NEW c \in Clis, SrvBegin(c) PROVE PauseInv'
  BY <1>16 DEF SrvBegin
<1>17. ASSUME NEW c \in Clis, SrvEnd(c) PROVE PauseInv'
  BY <1>17 DEF SrvEnd
<1>18. ASSUME NEW c \in Clis, SrvDrop(c) PROVE PauseInv'
  BY <1>18 DEF SrvDrop
<1>19. ASSUME NEW c \in Clis, CliOpen(c) PROVE PauseInv'
  BY <1>19 DEF CliOpen, Lock
<1>20. ASSUME NEW c \in Clis, CliRestore(c) PROVE PauseInv'
  BY <1>20 DEF CliRestore
<1>21. ASSUME NEW c \in Clis, CliDial(c) PROVE PauseInv'
  BY <1>21 DEF CliDial
<1>22. ASSUME NEW c \in Clis, CliNoServer(c) PROVE PauseInv'
  BY <1>22 DEF CliNoServer
<1>23. ASSUME NEW c \in Clis, CliAnswered(c) PROVE PauseInv'
  BY <1>23 DEF CliAnswered
<1>24. ASSUME NEW c \in Clis, CliAbandon(c) PROVE PauseInv'
  BY <1>24 DEF CliAbandon
<1>25. ASSUME NEW c \in Clis, CliTake(c) PROVE PauseInv'
  BY <1>25 DEF CliTake, Lock
<1>26. ASSUME NEW c \in Clis, CliOpened(c) PROVE PauseInv'
  BY <1>26 DEF CliOpened
<1>27. ASSUME NEW c \in Clis, CliClose(c) PROVE PauseInv'
  BY <1>27 DEF CliClose, Teardown
<1>28. ASSUME NEW c \in Clis, CliClosed(c) PROVE PauseInv'
  BY <1>28 DEF CliClosed
<1>29. ASSUME NEW c \in Clis, CliProbe(c) PROVE PauseInv'
  BY <1>29 DEF CliProbe
<1>30. ASSUME NEW c \in Clis, CliRename(c) PROVE PauseInv'
  BY <1>30 DEF CliRename, Replace
<1>31. ASSUME NEW c \in Clis, CliEnd(c) PROVE PauseInv'
  BY <1>31 DEF CliEnd
<1>32. ASSUME NEW c \in Clis, CliEnded(c) PROVE PauseInv'
  BY <1>32 DEF CliEnded
<1>33. ASSUME NEW c \in Clis, CliCrash(c) PROVE PauseInv'
  BY <1>33 DEF CliCrash, Crash
<1>34. ASSUME NEW p \in Procs, StorePhase(p) PROVE PauseInv'
    BY <1>34 DEF StorePhase, RecordAndOpen, OpenFails, Reclaim, Teardown, Settle,
      RemoveRecord, Unlock
<1>35. ASSUME NEW w \in Workers, Start(w) \/ Work(w) PROVE PauseInv'
    BY <1>35 DEF Start, Work, Admit, AcquireLease, AcquireRefused, CreateJob,
      CreateJobFails, FinishJob, FinishBare, ReleaseLease
<1>36. CASE UNCHANGED vars
  BY <1>36 DEF vars
<1> QED BY <1>1, <1>2, <1>3, <1>4, <1>5, <1>6, <1>7, <1>8, <1>9, <1>10, <1>11, <1>12,
    <1>13, <1>14, <1>15, <1>16, <1>17, <1>18, <1>19, <1>20, <1>21, <1>22, <1>23, <1>24,
    <1>25, <1>26, <1>27, <1>28, <1>29, <1>30, <1>31, <1>32, <1>33, <1>34, <1>35, <1>36
    DEF Next, SrvStep, SrvServe, CliStep

-----------------------------------------------------------------------------
\* HandoffInv holds in every state.
THEOREM HandoffInvariance == Spec => []HandoffInv
<1>1. Init => HandoffInv
  BY HandoffInitInv
<1>2. StoreInv /\ StoreInv' /\ HandoffInv /\ [Next]_vars => HandoffInv'
  BY HandoffTypeStep, SrvInvStep, PauseInvStep DEF HandoffInv, StoreInv, OwnerInv
<1> QED BY <1>1, <1>2, HandoffStoreInvariance, PTL DEF Spec

\* No process has the catalog's write connections, or is going into or out of
\* having them, without the flock: the server's suspend and reopen included.
THEOREM HandoffSingleWriter == Spec => []SingleWriter
<1>1. StoreInv => SingleWriter
  BY DEF StoreInv, OwnerInv
<1> QED BY <1>1, HandoffStoreInvariance, PTL

\* Until a hand-off takes a store from under running work, a lease excludes.
THEOREM HandoffLeaseExclusive == Spec => []LeaseExclusiveUnlessCutOff
<1>1. StoreInv => LeaseExclusiveUnlessCutOff
  BY DEF StoreInv, LeaseInv, LeaseExclusiveUnlessCutOff, InBody, Live
<1> QED BY <1>1, HandoffStoreInvariance, PTL

\* When no write of a job's end fails, a running row of an open store is a job
\* running in its process.
THEOREM HandoffRunningRowIsLive ==
  ASSUME ~IOFaults
  PROVE  Spec => []RunningRowIsLive
<1>1. StoreInv => RunningRowIsLive
  BY DEF StoreInv, RowInv
<1> QED BY <1>1, HandoffStoreInvariance, PTL

\* The host hears OnSuspend and OnReopen in turn, through every refusal and
\* every failed suspend, reopen and last step.
THEOREM HandoffHooksAlternate == Spec => []HooksAlternate
<1>1. HandoffInv => HooksAlternate
  BY DEF HandoffInv, TypeOK, StoreTypeOK, SrvPcs, SrvInv, Rests, HooksAlternate
<1> QED BY <1>1, HandoffInvariance, PTL

\* A server paused for maintenance has closed its library, for a connection it
\* still has.
THEOREM HandoffPausedMeansClosed == Spec => []PausedMeansClosed
<1>1. HandoffInv => PausedMeansClosed
  BY DEF HandoffInv, PauseInv, PausedMeansClosed
<1> QED BY <1>1, HandoffInvariance, PTL

\* Every process of the hand-off may rely on the lock, the record beside it, the
\* lease and the rows of jobs.
THEOREM HandoffStoreSafe == Spec => []StoreSafe
<1>1. StoreInv => StoreSafe
  BY DEF StoreInv, OwnerInv, RowInv, LeaseInv, LeaseExclusiveUnlessCutOff, InBody, Live, StoreSafe
<1> QED BY <1>1, HandoffStoreInvariance, PTL

\* The host hears its hooks in turn and a paused server has closed its library.
THEOREM HandoffSafety == Spec => []HandoffSafe
<1>1. HooksAlternate /\ PausedMeansClosed => HandoffSafe
  BY DEF HandoffSafe
<1> QED BY <1>1, HandoffHooksAlternate, HandoffPausedMeansClosed, PTL

-----------------------------------------------------------------------------
(***************************************************************************)
(* The holder of a hand-off                                                *)
(***************************************************************************)
\* The command was granted the hand-off and has not asked for its end.
Granted(c) ==
  \/ cpc[c] \notin {"idle", "blocked", "asking", "ended"}
  \/ cpc[c] = "asking" /\ reply[c] = "ok"

\* What a live connection's request, its handler and the command's place say of
\* each other, and that a granted one is bound.
HolderInv ==
  /\ srvPc \in {"finish", "relock", "reopening"} => srvWhy # "none"
  /\ \A c \in Clis :
       /\ srvConn = c /\ srvWhy \in {"begin", "fail", "end"} => conn[c] # "none"
       /\ conn[c] = "open" =>
            /\ cpc[c] \notin {"idle", "blocked"}
            /\ req[c] = "begin" => cpc[c] = "asking" /\ reply[c] = "none"
            /\ req[c] = "end" => cpc[c] = "ended"
            /\ srvConn = c /\ srvWhy \in {"begin", "fail"} => cpc[c] = "asking" /\ reply[c] = "none" /\ req[c] = "none"
            /\ srvConn = c /\ srvWhy = "end" => cpc[c] = "ended"
            /\ Granted(c) => maintConn = c

\* The holder's connection through every step of server and commands.
LEMMA HolderInvStep ==
  ASSUME HandoffInv, HolderInv, [Next]_vars
  PROVE  HolderInv'
<1> USE ProcsAssumption, NoneAssumption
        DEF HandoffInv, TypeOK, PauseInv, HolderInv, Granted, Answer, HangUp, Goto, storeVars, srvVars,
        wireVars, cliVars, handoffVars, ownerVars
<1>1. CASE SrvBoot
  BY <1>1 DEF SrvBoot, Lock
<1>2. CASE SrvBooted
  BY <1>2 DEF SrvBooted
<1>3. CASE SrvFinish
  BY <1>3 DEF SrvFinish
<1>4. CASE SrvFinishFails
  BY <1>4 DEF SrvFinishFails
<1>5. CASE SrvCheck
  BY <1>5 DEF SrvCheck, RefuseRunningJob
<1>6. CASE SrvCheck2
  BY <1>6 DEF SrvCheck2, RefuseRunningJob
<1>7. CASE SrvSuspend
  BY <1>7 DEF SrvSuspend, Teardown
<1>8. CASE SrvSuspended
  BY <1>8 DEF SrvSuspended
<1>9. CASE SrvRelock
  BY <1>9 DEF SrvRelock, Lock
<1>10. CASE SrvRelockFails
  BY <1>10 DEF SrvRelockFails
<1>11. CASE SrvReopened
  BY <1>11 DEF SrvReopened
<1>12. CASE SrvStop
  BY <1>12 DEF SrvStop
<1>13. CASE SrvClose
  BY <1>13 DEF SrvClose, Teardown
<1>14. CASE SrvExited
  BY <1>14 DEF SrvExited
<1>15. CASE SrvCrash
  BY <1>15 DEF SrvCrash, Crash
<1>16. ASSUME NEW c \in Clis, SrvBegin(c) PROVE HolderInv'
  BY <1>16 DEF SrvBegin
<1>17. ASSUME NEW c \in Clis, SrvEnd(c) PROVE HolderInv'
  BY <1>17 DEF SrvEnd
<1>18. ASSUME NEW c \in Clis, SrvDrop(c) PROVE HolderInv'
  BY <1>18 DEF SrvDrop
<1>19. ASSUME NEW c \in Clis, CliOpen(c) PROVE HolderInv'
  BY <1>19 DEF CliOpen, Lock
<1>20. ASSUME NEW c \in Clis, CliRestore(c) PROVE HolderInv'
  BY <1>20 DEF CliRestore
<1>21. ASSUME NEW c \in Clis, CliDial(c) PROVE HolderInv'
  BY <1>21 DEF CliDial
<1>22. ASSUME NEW c \in Clis, CliNoServer(c) PROVE HolderInv'
  BY <1>22 DEF CliNoServer
<1>23. ASSUME NEW c \in Clis, CliAnswered(c) PROVE HolderInv'
  BY <1>23 DEF CliAnswered
<1>24. ASSUME NEW c \in Clis, CliAbandon(c) PROVE HolderInv'
  BY <1>24 DEF CliAbandon
<1>25. ASSUME NEW c \in Clis, CliTake(c) PROVE HolderInv'
  BY <1>25 DEF CliTake, Lock
<1>26. ASSUME NEW c \in Clis, CliOpened(c) PROVE HolderInv'
  BY <1>26 DEF CliOpened
<1>27. ASSUME NEW c \in Clis, CliClose(c) PROVE HolderInv'
  BY <1>27 DEF CliClose, Teardown
<1>28. ASSUME NEW c \in Clis, CliClosed(c) PROVE HolderInv'
  BY <1>28 DEF CliClosed
<1>29. ASSUME NEW c \in Clis, CliProbe(c) PROVE HolderInv'
  BY <1>29 DEF CliProbe
<1>30. ASSUME NEW c \in Clis, CliRename(c) PROVE HolderInv'
  BY <1>30 DEF CliRename, Replace
<1>31. ASSUME NEW c \in Clis, CliEnd(c) PROVE HolderInv'
  BY <1>31 DEF CliEnd
<1>32. ASSUME NEW c \in Clis, CliEnded(c) PROVE HolderInv'
  BY <1>32 DEF CliEnded
<1>33. ASSUME NEW c \in Clis, CliCrash(c) PROVE HolderInv'
  BY <1>33 DEF CliCrash, Crash
<1>34. ASSUME NEW p \in Procs, StorePhase(p) PROVE HolderInv'
    BY <1>34 DEF StorePhase, RecordAndOpen, OpenFails, Reclaim, Teardown, Settle,
      RemoveRecord, Unlock
<1>35. ASSUME NEW w \in Workers, Start(w) \/ Work(w) PROVE HolderInv'
    BY <1>35 DEF Start, Work, Admit, AcquireLease, AcquireRefused, CreateJob,
      CreateJobFails, FinishJob, FinishBare, ReleaseLease
<1>36. CASE UNCHANGED vars
  BY <1>36 DEF vars
<1> QED BY <1>1, <1>2, <1>3, <1>4, <1>5, <1>6, <1>7, <1>8, <1>9, <1>10, <1>11, <1>12,
    <1>13, <1>14, <1>15, <1>16, <1>17, <1>18, <1>19, <1>20, <1>21, <1>22, <1>23, <1>24,
    <1>25, <1>26, <1>27, <1>28, <1>29, <1>30, <1>31, <1>32, <1>33, <1>34, <1>35, <1>36
    DEF Next, SrvStep, SrvServe, CliStep

\* The command that was granted a hand-off keeps it until it ends it: no other
\* command's request, drop or death takes it away (serve.go, dispatch of
\* maintenance-begin and -end, releaseMaintenanceIfHeld).
THEOREM HolderKeepsHandoffHolds == Spec => []HolderKeepsHandoff
<1>1. Init => HolderInv
  BY NoneAssumption DEF Init, HolderInv, Granted
<1>2. HandoffInv /\ HolderInv /\ [Next]_vars => HolderInv'
  BY HolderInvStep
<1>3. HolderInv => HolderKeepsHandoff
  BY DEF HolderInv, Granted, HolderKeepsHandoff
<1> QED BY <1>1, <1>2, <1>3, HandoffInvariance, PTL DEF Spec
=============================================================================
