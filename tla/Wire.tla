-------------------------------- MODULE Wire -------------------------------
(***************************************************************************)
(* The framing of the control socket's client.  Nothing in the protocol    *)
(* pairs an answer with its request: the client counts the answers it has  *)
(* given up on and discards that many frames before it reads its own.      *)
(*                                                                         *)
(* A frame is two chunks, so that a call can end between them.             *)
(***************************************************************************)
EXTENDS Integers, Sequences, FiniteSets

CONSTANT MaxCalls  \* bound: calls of one client

ASSUME WireAssumption == MaxCalls \in Nat \ {0}

VARIABLES
  call,      \* the call under the client's mutex: number, stage, canceled
  owedFrames,\* Client.owed
  broken,    \* Client.broken
  got,       \* call -> None, Failed, or the call whose answer it returned
  up,        \* requests on the wire, a half one as its negative number
  down,      \* chunks of answers on the wire
  serving,   \* the request whose answer the server is writing, and whether half of it is out
  hungUp     \* the server has closed its end

wireVars == <<call, owedFrames, broken, got, up, down, serving, hungUp>>

Call == 1..MaxCalls
None == 0
Failed == -1
NoCall == [n |-> 0, at |-> "idle", canceled |-> FALSE, half |-> FALSE]

Nothing == [n |-> 0, half |-> FALSE]

WireInit ==
  /\ call = NoCall
  /\ owedFrames = 0 /\ broken = FALSE
  /\ got = [c \in Call |-> None]
  /\ up = <<>> /\ down = <<>> /\ serving = Nothing /\ hungUp = FALSE

-----------------------------------------------------------------------------
(***************************************************************************)
(* The client.                                                             *)
(***************************************************************************)
\* The call returns.
Ends(result) ==
  /\ got' = [got EXCEPT ![call.n] = result]
  /\ call' = NoCall

\* call: the next one gets the mutex; a lost framing is refused.
StartCall ==
  \E c \in Call :
    /\ call.at = "idle" /\ got[c] = None /\ \A b \in 1..(c - 1) : got[b] # None
    /\ call' = [n |-> c, at |-> "drain", canceled |-> FALSE, half |-> FALSE]
    /\ UNCHANGED <<owedFrames, broken, got, up, down, serving, hungUp>>

RefuseBroken ==
  /\ call.at = "drain" /\ broken
  /\ Ends(Failed)
  /\ UNCHANGED <<owedFrames, broken, up, down, serving, hungUp>>

\* The caller's context ends; the watcher arms a deadline that is already past.
CancelCall ==
  /\ call.at # "idle" /\ ~call.canceled
  /\ call' = [call EXCEPT !.canceled = TRUE]
  /\ UNCHANGED <<owedFrames, broken, got, up, down, serving, hungUp>>

\* readFrame's next chunk; the chunk that ends a frame is handled by the caller.
Reads == call.at \in {"drain", "read"} /\ ~broken /\ down # <<>> /\ (call.at = "drain" => owedFrames > 0)

ReadHalf ==
  /\ Reads /\ ~Head(down).last
  /\ call' = [call EXCEPT !.half = TRUE]
  /\ down' = Tail(down)
  /\ UNCHANGED <<owedFrames, broken, got, up, serving, hungUp>>

\* Mutant: the frame a canceled call was in the middle of counts as discarded.
GivesUpCounts == owedFrames' = IF call.half /\ owedFrames > 0 THEN owedFrames - 1 ELSE owedFrames

\* A read that ends early drops what it has: the rest of that frame is the next read's.
GivesUp == UNCHANGED owedFrames

\* Mutant: a read is not cut short when its call is canceled.
ReadFailsLate ==
  /\ call.at \in {"drain", "read"} /\ ~broken /\ (call.at = "drain" => owedFrames > 0)
  /\ hungUp /\ down = <<>>
  /\ GivesUp
  /\ Ends(Failed)
  /\ UNCHANGED <<broken, up, down, serving, hungUp>>

\* The read ends without a frame: the call was canceled, or the server is gone.
ReadFails ==
  /\ call.at \in {"drain", "read"} /\ ~broken /\ (call.at = "drain" => owedFrames > 0)
  /\ call.canceled \/ (hungUp /\ down = <<>>)
  /\ GivesUp
  /\ Ends(Failed)
  /\ UNCHANGED <<broken, up, down, serving, hungUp>>

\* One owed frame less.
Discard ==
  /\ Reads /\ call.at = "drain" /\ Head(down).last
  /\ down' = Tail(down)
  /\ owedFrames' = owedFrames - 1
  /\ call' = [call EXCEPT !.half = FALSE]
  /\ UNCHANGED <<broken, got, up, serving, hungUp>>

\* Mutant: the request goes out before the owed frames are read.
WriteFrameEager ==
  /\ call.at = "drain" /\ ~broken
  /\ up' = Append(up, call.n)
  /\ owedFrames' = owedFrames + 1
  /\ call' = [call EXCEPT !.at = "read"]
  /\ UNCHANGED <<broken, got, down, serving, hungUp>>

\* writeFrame: whole, or cut off by the deadline or the closed connection.
WriteFrame ==
  /\ call.at = "drain" /\ ~broken /\ owedFrames = 0
  /\ up' = Append(up, call.n)
  /\ owedFrames' = owedFrames + 1
  /\ call' = [call EXCEPT !.at = "read"]
  /\ UNCHANGED <<broken, got, down, serving, hungUp>>

\* Mutant: a request cut off on the wire leaves the connection in use.
WriteFailsUnmarked(sent) == UNCHANGED broken

WriteBreaks(sent) == broken' = sent

WriteFails ==
  /\ call.at = "drain" /\ ~broken /\ owedFrames = 0
  /\ call.canceled \/ hungUp
  /\ \E sent \in BOOLEAN :
       /\ WriteBreaks(sent)
       /\ up' = IF sent THEN Append(up, -call.n) ELSE up
  /\ Ends(Failed)
  /\ UNCHANGED <<owedFrames, down, serving, hungUp>>

\* The call's answer, an error of the server's included.  Half a frame does not decode.
ReadAnswer ==
  /\ Reads /\ call.at = "read" /\ Head(down).last
  /\ down' = Tail(down)
  /\ owedFrames' = owedFrames - 1
  /\ Ends(IF call.half THEN Head(down).of ELSE Failed)
  /\ UNCHANGED <<broken, up, serving, hungUp>>

-----------------------------------------------------------------------------
(***************************************************************************)
(* The server's end: one request at a time, in order.                      *)
(***************************************************************************)
\* A whole request runs into the half one before it: what is read then is no request,
\* or another one than was asked for.
ServeRequest ==
  /\ serving = Nothing /\ ~hungUp /\ up # <<>> /\ (Head(up) > 0 \/ Len(up) > 1)
  /\ IF Head(up) > 0
     THEN serving' = [n |-> Head(up), half |-> FALSE] /\ up' = Tail(up) /\ UNCHANGED hungUp
     ELSE hungUp' = TRUE /\ UNCHANGED <<serving, up>>
  /\ UNCHANGED <<call, owedFrames, broken, got, down>>

\* The answer, a chunk at a time.
Answer ==
  /\ serving # Nothing /\ ~hungUp
  /\ down' = Append(down, [of |-> serving.n, last |-> serving.half])
  /\ serving' = IF serving.half THEN Nothing ELSE [serving EXCEPT !.half = TRUE]
  /\ UNCHANGED <<call, owedFrames, broken, got, up, hungUp>>

HangUp ==
  /\ ~hungUp
  /\ hungUp' = TRUE
  /\ UNCHANGED <<call, owedFrames, broken, got, up, down, serving>>

WireClient == RefuseBroken \/ ReadHalf \/ ReadFails \/ Discard \/ WriteFrame \/ WriteFails \/ ReadAnswer

WireNext ==
  \/ StartCall \/ CancelCall \/ WireClient
  \/ ServeRequest \/ Answer \/ HangUp

WireSpec == WireInit /\ [][WireNext]_wireVars

WireFairness == WF_wireVars(WireClient)

-----------------------------------------------------------------------------
(***************************************************************************)
(* Properties                                                              *)
(***************************************************************************)
\* What a result is to the caller that got it.
Outcome(c, result) ==
  IF result = None THEN "none" ELSE IF result = Failed THEN "error"
  ELSE IF result = c THEN "answer" ELSE "another call's"

Promise == INSTANCE CallPromise WITH
  current <- call.n,
  outcome <- [c \in Call |-> Outcome(c, got[c])]

\* The framing keeps the client's promise: a call ends with the answer to it or an
\* error, never with one a call before it gave up on.
KeepsPromise == Promise!Spec

\* A connection whose framing is known has on it what the client counts: the owed
\* answers are those in the wire, being written, or still to be asked.
Pairing ==
  ~broken /\ ~hungUp =>
    owedFrames = Cardinality({k \in 1..Len(down) : down[k].last}) + Len(up) + (IF serving = Nothing THEN 0 ELSE 1)

\* A canceled call returns, whatever the server does.
CancelReturns == call.canceled ~> ~call.canceled
=============================================================================
