----------------------------- MODULE MCServices ----------------------------
(***************************************************************************)
(* The watcher, the framing of the control socket, the change bus and a    *)
(* command's way to the library: each behaviour is one of one of them, so  *)
(* that one run checks all four.                                           *)
(***************************************************************************)
EXTENDS Watch, Wire, Bus, Proxied

VARIABLE runs  \* the part this behaviour is of

MCParent == [d \in Dir |-> "r"]
MCStarts == {[disk |-> {"r"}, files |-> 3, tree |-> 0], [disk |-> {"r"}, files |-> 0, tree |-> 2],
             [disk |-> {"r"}, files |-> 1, tree |-> 1],
             [disk |-> Dir, files |-> 1, tree |-> 0], [disk |-> Dir, files |-> 0, tree |-> 1]}

\* An error that only a class tells, and one whose reason tells it from its like.
MCRefusals == {<<"locked", "">>, <<"conflict", "lease_held">>}

\* One option at a time, and two where the library reads one beside the other: a
\* write-back, which changes how a call ends, with a role or a lock.
MCGiven(c) == {o \in DOMAIN c.opts : c.opts[o] # Unsaid(o)}
MCCommands ==
  {c \in Commands : Cardinality(MCGiven(c)) <= 1
                    \/ MCGiven(c) \in {{"writeBack", "role"}, {"writeBack", "lock"}}}

MCInit ==
  /\ WatchInit /\ WireInit /\ BusInit /\ ProxiedInit
  /\ runs \in {"watch", "wire", "bus", "proxy"}
  /\ runs # "watch" => disk = Dir
  /\ IF runs = "proxy" THEN command \in MCCommands
     ELSE server = "none" /\ command = CHOOSE c \in MCCommands : TRUE

MCNext ==
  \/ runs = "watch" /\ WatchNext /\ UNCHANGED <<wireVars, busVars, proxiedVars, runs>>
  \/ runs = "wire" /\ WireNext /\ UNCHANGED <<watchVars, busVars, proxiedVars, runs>>
  \/ runs = "bus" /\ BusNext /\ UNCHANGED <<watchVars, wireVars, proxiedVars, runs>>
  \/ runs = "proxy" /\ ProxiedNext /\ UNCHANGED <<watchVars, wireVars, busVars, runs>>

\* The goroutines of the watcher run, ticks come, and a catalog that is read or a lease
\* that is free again and again is read and taken some time.  Timers fire, and the
\* runtime gives every callback its turn.
WatchRuns(A) == runs = "watch" /\ A
WatchFairness ==
  /\ WF_watchVars(WatchRuns(Follow))
  /\ WF_watchVars(WatchRuns(ReadEvent \/ ReadOverflow))
  /\ WF_watchVars(WatchRuns(HandleEvent))
  /\ \A t \in Timer : WF_watchVars(WatchRuns(Fire(t) \/ Callback(t) \/ Send(t)))
  /\ WF_watchVars(WatchRuns(TakeReq \/ Rescan))
  /\ WF_watchVars(WatchRuns(RescanDone \/ RescanSkipped))
  /\ SF_watchVars(WatchRuns(TickFollows))
  /\ SF_watchVars(WatchRuns(RescanDone))

MCSpec ==
  /\ MCInit /\ [][MCNext]_<<watchVars, wireVars, busVars, proxiedVars, runs>>
  /\ WatchFairness /\ WireFairness

\* What must come to pass: a change below a registered root is scanned, a stopped
\* watcher leaves no callback behind (live.go), and a canceled call returns
\* (client.go).
ServicesProgress == Swept /\ CallbacksEnd /\ CancelReturns
=============================================================================
