--------------------------- MODULE ServicesProofs --------------------------
(***************************************************************************)
(* Proofs about Wire, for any number of calls; about Bus, for any room of  *)
(* the channel and any number of rows; and about Proxied, for any errors   *)
(* of the library: the client of the control socket keeps its promise and  *)
(* counts the frames it owes right, a listener of the change bus misses no *)
(* row but where the code lets it, and a command says and hears the same   *)
(* through a server as without one.                                        *)
(***************************************************************************)
EXTENDS Watch, Wire, Bus, Proxied, FiniteSetTheorems, SequenceTheorems, TLAPS

(***************************************************************************)
(* The framing of the control socket.                                      *)
(*                                                                         *)
(* A request goes out only when nothing is owed, so at most one answer is  *)
(* outstanding.  The invariant says where it is.                           *)
(***************************************************************************)
CallState == [n : 0..MaxCalls, at : {"idle", "drain", "read"}, canceled : BOOLEAN, half : BOOLEAN]
Part(n, last) == [of |-> n, last |-> last]

\* The call under the mutex is unanswered, and no answer is another call's.
CallsApart ==
  /\ call \in CallState /\ got \in [Call -> Int]
  /\ call.at = "idle" <=> call.n = 0
  /\ call.at # "idle" => got[call.n] = None
  /\ \A c \in Call : got[c] \in {None, Failed, c}

\* The request of call n, or what is left of the answer to it, is under way alone.
Asked(n) == up = <<n>> /\ serving = Nothing /\ down = <<>>
Taken(n) == up = <<>> /\ serving = [n |-> n, half |-> FALSE] /\ down = <<>>
HalfOut(n) == up = <<>> /\ serving = [n |-> n, half |-> TRUE] /\ (down = <<>> \/ down = <<Part(n, FALSE)>>)
Written(n) == up = <<>> /\ serving = Nothing /\ (down = <<Part(n, FALSE), Part(n, TRUE)>> \/ down = <<Part(n, TRUE)>>)
UnderWay(n) == Asked(n) \/ Taken(n) \/ HalfOut(n) \/ Written(n)

\* A request was cut off: nothing is answered any more.
FramingLost == broken /\ owedFrames = 0 /\ serving = Nothing /\ down = <<>> /\ \E n \in Call : up = <<-n>>
NothingOwed == ~broken /\ owedFrames = 0 /\ up = <<>> /\ serving = Nothing /\ down = <<>>
AnswerOwed(n) == ~broken /\ owedFrames = 1 /\ UnderWay(n)

\* What is owed is under way, and a call that reads has only its own answer there.
Framed ==
  \/ (FramingLost \/ NothingOwed) /\ call.at # "read"
  \/ \E n \in Call : AnswerOwed(n) /\ (call.at = "read" => n = call.n)

\* The inductive invariant of WireSpec.
WireInv == CallsApart /\ Framed

-----------------------------------------------------------------------------
(***************************************************************************)
(* Facts about the data.                                                   *)
(***************************************************************************)
LEMMA AppendSecond ==
  ASSUME NEW S, NEW a \in S, NEW b \in S
  PROVE  Append(<<a>>, b) = <<a, b>>
  <1> DEFINE s == Append(<<a>>, b)
             t == <<a, b>>
  <1>1. <<a>> \in Seq(S) OBVIOUS
  <1>2. s \in Seq(S) /\ t \in Seq(S) BY <1>1, AppendProperties
  <1>3. Len(s) = 2 /\ s[1] = a /\ s[2] = b BY <1>1, AppendProperties
  <1>4. Len(t) = 2 /\ t[1] = a /\ t[2] = b OBVIOUS
  <1> HIDE DEF s, t
  <1>5. Len(s) = Len(t) /\ \A i \in 1..Len(s) : s[i] = t[i] BY <1>3, <1>4
  <1>6. s = t BY <1>2, <1>5, SeqEqual
  <1> QED BY <1>6 DEF s, t

\* A call that is not idle has a number.
LEMMA CallNumbered ==
  ASSUME CallsApart, call.at # "idle"
  PROVE  call.n \in Call
  BY DEF CallsApart, CallState, Call

\* The end of a call touches its own result only.
LEMMA EndsKeepsApart ==
  ASSUME CallsApart, call.at # "idle", NEW r \in {Failed, call.n}, Ends(r)
  PROVE  CallsApart' /\ call'.at = "idle"
  <1>1. call.n \in Call
    BY CallNumbered
  <1>2. call' = NoCall /\ NoCall \in CallState
    BY WireAssumption DEF Ends, NoCall, CallState
  <1>3. r \in Int
    BY <1>1, WireAssumption DEF Failed, Call
  <1>4. got' \in [Call -> Int]
    BY <1>1, <1>3 DEF CallsApart, Ends
  <1>5. \A c \in Call : got'[c] \in {None, Failed, c}
    BY <1>1 DEF CallsApart, Ends
  <1> QED BY <1>2, <1>4, <1>5 DEF CallsApart, NoCall

\* A step that changes neither the wire nor the stage of the call keeps the framing.
LEMMA FramedKept ==
  ASSUME Framed, UNCHANGED <<owedFrames, broken, up, down, serving>>,
         call'.at # "read" \/ (call'.at = call.at /\ call'.n = call.n)
  PROVE  Framed'
  <1>1. CASE FramingLost \/ NothingOwed
    <2>1. (FramingLost \/ NothingOwed)'
      BY <1>1 DEF FramingLost, NothingOwed
    <2>2. ~\E n \in Call : AnswerOwed(n)
      BY <1>1 DEF FramingLost, NothingOwed, AnswerOwed
    <2> QED BY <2>1, <2>2 DEF Framed
  <1>2. CASE \E n \in Call : AnswerOwed(n) /\ (call.at = "read" => n = call.n)
    <2>1. PICK n \in Call : AnswerOwed(n) /\ (call.at = "read" => n = call.n)
      BY <1>2
    <2>2. AnswerOwed(n)'
      BY <2>1 DEF AnswerOwed, UnderWay, Asked, Taken, HalfOut, Written
    <2>3. call'.at = "read" => n = call'.n
      BY <2>1
    <2> QED BY <2>2, <2>3 DEF Framed
  <1> QED BY <1>1, <1>2 DEF Framed

-----------------------------------------------------------------------------
LEMMA WireInitInv == WireInit => WireInv
  <1> SUFFICES ASSUME WireInit PROVE WireInv
    OBVIOUS
  <1>1. NoCall \in CallState
    BY WireAssumption DEF NoCall, CallState
  <1>2. CallsApart
    BY <1>1, WireAssumption DEF WireInit, CallsApart, NoCall, Call, None
  <1>3. Framed
    BY DEF WireInit, Framed, NothingOwed, NoCall
  <1> QED BY <1>2, <1>3 DEF WireInv

\* What a read of the answer to call n finds and leaves on the wire.
Chunks(n) ==
  /\ AnswerOwed(n) /\ (call.at = "read" => n = call.n) /\ Head(down).of = n
  /\ ~Head(down).last => \/ HalfOut(n) /\ Tail(down) = <<>>
                         \/ Written(n) /\ Tail(down) = <<Part(n, TRUE)>>
  /\ Head(down).last => up = <<>> /\ serving = Nothing /\ Tail(down) = <<>>

\* A read takes its chunk from the one answer under way.
LEMMA ReadsOwed ==
  ASSUME WireInv, Reads
  PROVE  call.n \in Call /\ call.at # "idle" /\ \E n \in Call : Chunks(n)
  <1>1. call.at # "idle" /\ down # <<>> /\ ~broken /\ (call.at = "drain" => owedFrames > 0)
    BY DEF Reads
  <1>2. call.n \in Call
    BY <1>1, CallNumbered DEF WireInv
  <1>3. PICK n \in Call : AnswerOwed(n) /\ (call.at = "read" => n = call.n)
    <2>1. ~NothingOwed /\ ~FramingLost
      BY <1>1 DEF NothingOwed, FramingLost
    <2> QED BY <2>1 DEF WireInv, Framed
  <1>4. CASE HalfOut(n) /\ down = <<Part(n, FALSE)>>
    <2>1. Head(down) = Part(n, FALSE) /\ Tail(down) = <<>>
      BY <1>4
    <2>2. Head(down).of = n /\ Head(down).last = FALSE
      BY <2>1 DEF Part
    <2>3. Chunks(n)
      BY <1>3, <1>4, <2>1, <2>2 DEF Chunks
    <2> QED BY <1>1, <1>2, <2>3
  <1>5. CASE Written(n) /\ down = <<Part(n, FALSE), Part(n, TRUE)>>
    <2> DEFINE a == Part(n, FALSE)
               b == Part(n, TRUE)
    <2>0. down = <<a, b>>
      BY <1>5
    <2>1. a.of = n /\ a.last = FALSE
      BY DEF Part
    <2> HIDE DEF a, b
    <2>2. Head(down) = a /\ Tail(down) = <<b>>
      BY <2>0
    <2>3. Chunks(n)
      BY <1>3, <1>5, <2>1, <2>2 DEF Chunks, b
    <2> QED BY <1>1, <1>2, <2>3
  <1>6. CASE Written(n) /\ down = <<Part(n, TRUE)>>
    <2>1. Head(down) = Part(n, TRUE) /\ Tail(down) = <<>>
      BY <1>6
    <2>2. Head(down).of = n /\ Head(down).last = TRUE
      BY <2>1 DEF Part
    <2>3. up = <<>> /\ serving = Nothing
      BY <1>6 DEF Written
    <2>4. Chunks(n)
      BY <1>3, <2>1, <2>2, <2>3 DEF Chunks
    <2> QED BY <1>1, <1>2, <2>4
  <1> QED BY <1>1, <1>3, <1>4, <1>5, <1>6 DEF AnswerOwed, UnderWay, Asked, Taken, HalfOut, Written

-----------------------------------------------------------------------------
(***************************************************************************)
(* Every step keeps the invariant.                                         *)
(***************************************************************************)
LEMMA StartCallKeeps ==
  ASSUME WireInv, StartCall
  PROVE  WireInv'
  <1>1. PICK c \in Call : /\ call.at = "idle" /\ got[c] = None
                          /\ call' = [n |-> c, at |-> "drain", canceled |-> FALSE, half |-> FALSE]
                          /\ UNCHANGED <<owedFrames, broken, got, up, down, serving, hungUp>>
    BY DEF StartCall
  <1>2. call' \in CallState /\ call'.n = c /\ call'.at = "drain"
    BY <1>1, WireAssumption DEF CallState, Call
  <1>3. CallsApart'
    BY <1>1, <1>2, WireAssumption DEF WireInv, CallsApart, Call
  <1>4. Framed'
    BY <1>1, <1>2, FramedKept DEF WireInv
  <1> QED BY <1>3, <1>4 DEF WireInv

LEMMA CancelCallKeeps ==
  ASSUME WireInv, CancelCall
  PROVE  WireInv'
  <1>1. call' \in CallState /\ call'.n = call.n /\ call'.at = call.at
    BY DEF WireInv, CallsApart, CancelCall, CallState
  <1>2. CallsApart'
    BY <1>1 DEF WireInv, CallsApart, CancelCall
  <1>3. Framed'
    BY <1>1, FramedKept DEF WireInv, CancelCall
  <1> QED BY <1>2, <1>3 DEF WireInv

\* A call that fails without touching the wire.
LEMMA FailureKeeps ==
  ASSUME WireInv, RefuseBroken \/ ReadFails
  PROVE  WireInv'
  <1>1. call.at # "idle" /\ Ends(Failed) /\ UNCHANGED <<owedFrames, broken, up, down, serving>>
    BY DEF RefuseBroken, ReadFails, GivesUp
  <1>2. CallsApart' /\ call'.at = "idle"
    BY <1>1, EndsKeepsApart DEF WireInv
  <1>3. Framed'
    BY <1>1, <1>2, FramedKept DEF WireInv
  <1> QED BY <1>2, <1>3 DEF WireInv

LEMMA ReadHalfKeeps ==
  ASSUME WireInv, ReadHalf
  PROVE  WireInv'
  <1>1. call' \in CallState /\ call'.n = call.n /\ call'.at = call.at
    BY DEF WireInv, CallsApart, ReadHalf, CallState
  <1>2. CallsApart'
    BY <1>1 DEF WireInv, CallsApart, ReadHalf
  <1>3. PICK n \in Call : Chunks(n)
    BY ReadsOwed DEF ReadHalf
  <1>4. HalfOut(n)' \/ Written(n)'
    BY <1>3 DEF Chunks, ReadHalf, HalfOut, Written
  <1>5. AnswerOwed(n)' /\ (call'.at = "read" => n = call'.n)
    BY <1>1, <1>3, <1>4 DEF Chunks, AnswerOwed, UnderWay, ReadHalf
  <1> QED BY <1>2, <1>5 DEF WireInv, Framed

LEMMA DiscardKeeps ==
  ASSUME WireInv, Discard
  PROVE  WireInv'
  <1>1. call' \in CallState /\ call'.n = call.n /\ call'.at = "drain"
    BY DEF WireInv, CallsApart, Discard, CallState
  <1>2. CallsApart'
    BY <1>1 DEF WireInv, CallsApart, Discard
  <1>3. PICK n \in Call : Chunks(n)
    BY ReadsOwed DEF Discard
  <1>4. NothingOwed'
    BY <1>3 DEF Chunks, AnswerOwed, Discard, NothingOwed
  <1> QED BY <1>1, <1>2, <1>4 DEF WireInv, Framed

LEMMA ReadAnswerKeeps ==
  ASSUME WireInv, ReadAnswer
  PROVE  WireInv'
  <1>1. PICK n \in Call : Chunks(n)
    BY ReadsOwed DEF ReadAnswer
  <1>2. Head(down).of = call.n /\ call.at = "read"
    BY <1>1 DEF Chunks, ReadAnswer
  <1>3. PICK r \in {Failed, call.n} : Ends(r)
    BY <1>2 DEF ReadAnswer
  <1>4. CallsApart' /\ call'.at = "idle"
    BY <1>2, <1>3, EndsKeepsApart DEF WireInv
  <1>5. NothingOwed'
    BY <1>1 DEF Chunks, AnswerOwed, ReadAnswer, NothingOwed
  <1> QED BY <1>4, <1>5 DEF WireInv, Framed

LEMMA WriteFrameKeeps ==
  ASSUME WireInv, WriteFrame
  PROVE  WireInv'
  <1>1. call' \in CallState /\ call'.n = call.n /\ call'.at = "read"
    BY DEF WireInv, CallsApart, WriteFrame, CallState
  <1>2. CallsApart'
    BY <1>1 DEF WireInv, CallsApart, WriteFrame
  <1>3. call.n \in Call
    BY CallNumbered DEF WireInv, WriteFrame
  <1>4. NothingOwed
    BY DEF WireInv, Framed, FramingLost, AnswerOwed, WriteFrame
  <1>5. up' = <<call.n>> /\ owedFrames' = 1
    BY <1>4 DEF NothingOwed, WriteFrame
  <1>6. AnswerOwed(call.n)'
    <2>1. up' = <<call'.n>> /\ serving' = Nothing /\ down' = <<>> /\ ~broken'
      BY <1>1, <1>4, <1>5 DEF NothingOwed, WriteFrame
    <2> QED BY <2>1, <1>5 DEF AnswerOwed, UnderWay, Asked
  <1>7. \E n \in Call : AnswerOwed(n)' /\ (call'.at = "read" => n = call'.n)
    BY <1>1, <1>3, <1>6
  <1> QED BY <1>2, <1>7 DEF WireInv, Framed

LEMMA WriteFailsKeeps ==
  ASSUME WireInv, WriteFails
  PROVE  WireInv'
  <1>1. call.at # "idle" /\ Ends(Failed)
    BY DEF WriteFails
  <1>2. CallsApart' /\ call'.at = "idle" /\ call.n \in Call
    BY <1>1, EndsKeepsApart, CallNumbered DEF WireInv
  <1>3. NothingOwed
    BY DEF WireInv, Framed, FramingLost, AnswerOwed, WriteFails
  <1>4. PICK sent \in BOOLEAN : broken' = sent /\ up' = IF sent THEN Append(up, -call.n) ELSE up
    BY DEF WriteFails, WriteBreaks
  <1>5. CASE sent
    <2>1. broken' /\ up' = <<-call.n>>
      BY <1>3, <1>4, <1>5 DEF NothingOwed
    <2>2. FramingLost'
      BY <1>2, <1>3, <2>1 DEF FramingLost, NothingOwed, WriteFails
    <2> QED BY <1>2, <2>2 DEF WireInv, Framed
  <1>6. CASE ~sent
    <2>1. NothingOwed'
      BY <1>3, <1>4, <1>6 DEF NothingOwed, WriteFails
    <2> QED BY <1>2, <2>1 DEF WireInv, Framed
  <1> QED BY <1>5, <1>6

LEMMA ServeRequestKeeps ==
  ASSUME WireInv, ServeRequest
  PROVE  WireInv'
  <1>1. CallsApart'
    BY DEF WireInv, CallsApart, ServeRequest
  <1>2. ~FramingLost
    <2> SUFFICES ASSUME NEW n \in Call, up = <<-n>> PROVE FALSE
      BY DEF FramingLost
    <2>1. Head(up) = -n /\ Len(up) = 1 /\ n > 0
      BY WireAssumption DEF Call
    <2> QED BY <2>1 DEF ServeRequest, Call
  <1>3. PICK n \in Call : AnswerOwed(n) /\ (call.at = "read" => n = call.n)
    BY <1>2 DEF WireInv, Framed, NothingOwed, ServeRequest
  <1>4. Asked(n)
    BY <1>3 DEF AnswerOwed, UnderWay, Asked, Taken, HalfOut, Written, ServeRequest
  <1>5. Head(up) = n /\ Tail(up) = <<>> /\ n > 0
    BY <1>4, WireAssumption DEF Asked, Call
  <1>6. Taken(n)'
    BY <1>4, <1>5 DEF Taken, Asked, ServeRequest
  <1>7. AnswerOwed(n)' /\ (call'.at = "read" => n = call'.n)
    BY <1>3, <1>6 DEF AnswerOwed, UnderWay, ServeRequest
  <1> QED BY <1>1, <1>7 DEF WireInv, Framed

LEMMA AnswerKeeps ==
  ASSUME WireInv, Answer
  PROVE  WireInv'
  <1>1. CallsApart'
    BY DEF WireInv, CallsApart, Answer
  <1>2. PICK n \in Call : AnswerOwed(n) /\ (call.at = "read" => n = call.n)
    BY DEF WireInv, Framed, FramingLost, NothingOwed, Answer
  <1>3. CASE Taken(n)
    <2>1. down' = <<Part(n, FALSE)>>
      BY <1>3 DEF Taken, Answer, Part
    <2>2. serving' = [n |-> n, half |-> TRUE]
      BY <1>3 DEF Taken, Answer
    <2>3. HalfOut(n)'
      BY <1>3, <2>1, <2>2 DEF Taken, HalfOut, Answer
    <2> QED BY <1>1, <1>2, <2>3 DEF WireInv, Framed, AnswerOwed, UnderWay, Answer
  <1>4. CASE HalfOut(n)
    <2>1. serving.half /\ serving.n = n /\ serving' = Nothing /\ down' = Append(down, Part(n, TRUE))
      BY <1>4 DEF HalfOut, Answer, Part
    <2>2. Append(<<Part(n, FALSE)>>, Part(n, TRUE)) = <<Part(n, FALSE), Part(n, TRUE)>>
      <3> DEFINE S == {Part(n, FALSE), Part(n, TRUE)}
      <3>1. Part(n, FALSE) \in S /\ Part(n, TRUE) \in S
        OBVIOUS
      <3> HIDE DEF S
      <3> QED BY <3>1, AppendSecond
    <2>3. Append(<<>>, Part(n, TRUE)) = <<Part(n, TRUE)>>
      OBVIOUS
    <2>4. up' = <<>>
      BY <1>4 DEF HalfOut, Answer
    <2>5. down' = <<Part(n, FALSE), Part(n, TRUE)>> \/ down' = <<Part(n, TRUE)>>
      BY <1>4, <2>1, <2>2, <2>3 DEF HalfOut
    <2>6. Written(n)'
      BY <2>1, <2>4, <2>5 DEF Written
    <2> QED BY <1>1, <1>2, <2>6 DEF WireInv, Framed, AnswerOwed, UnderWay, Answer
  <1> QED BY <1>2, <1>3, <1>4 DEF AnswerOwed, UnderWay, Asked, Written, Answer

LEMMA WireStep ==
  ASSUME WireInv, [WireNext]_wireVars
  PROVE  WireInv'
  <1>1. CASE UNCHANGED wireVars
    <2>1. CallsApart'
      BY <1>1 DEF WireInv, CallsApart, wireVars
    <2>2. Framed'
      BY <1>1, FramedKept DEF WireInv, wireVars
    <2> QED BY <2>1, <2>2 DEF WireInv
  <1>2. CASE HangUp
    <2>1. CallsApart'
      BY <1>2 DEF WireInv, CallsApart, HangUp
    <2>2. Framed'
      BY <1>2, FramedKept DEF WireInv, HangUp
    <2> QED BY <2>1, <2>2 DEF WireInv
  <1> QED BY <1>1, <1>2, StartCallKeeps, CancelCallKeeps, FailureKeeps, ReadHalfKeeps, DiscardKeeps, WriteFrameKeeps,
             WriteFailsKeeps, ReadAnswerKeeps, ServeRequestKeeps, AnswerKeeps DEF WireNext, WireClient

\* Of every behaviour of the client and the server's end, at any number of calls.
THEOREM WireInvariance == WireSpec => []WireInv
  BY WireInitInv, WireStep, PTL DEF WireSpec

-----------------------------------------------------------------------------
(***************************************************************************)
(* What follows from the invariant.                                        *)
(***************************************************************************)
\* The whole frames among the chunks of an answer.
Whole == {k \in 1..Len(down) : down[k].last}

LEMMA InvPairs == WireInv => Pairing
  <1> SUFFICES ASSUME WireInv, ~broken
               PROVE  owedFrames = Cardinality(Whole) + Len(up) + (IF serving = Nothing THEN 0 ELSE 1)
    BY DEF Pairing, Whole
  <1>0. Cardinality({}) = 0 /\ Cardinality({1}) = 1 /\ Cardinality({2}) = 1
    BY FS_EmptySet, FS_Singleton
  <1>1. CASE NothingOwed
    <2>1. Whole = {}
      BY <1>1 DEF NothingOwed, Whole
    <2> QED BY <1>0, <1>1, <2>1 DEF NothingOwed
  <1>2. CASE ~NothingOwed
    <2>1. PICK n \in Call : AnswerOwed(n)
      BY <1>2 DEF WireInv, Framed, FramingLost
    <2>2. Nothing # [n |-> n, half |-> FALSE] /\ Nothing # [n |-> n, half |-> TRUE]
      BY WireAssumption DEF Nothing, Call
    <2>3. ~Part(n, FALSE).last /\ Part(n, TRUE).last
      BY DEF Part
    <2>4. CASE down = <<>> /\ (Asked(n) \/ Taken(n) \/ HalfOut(n))
      <3>1. Whole = {}
        BY <2>4 DEF Whole
      <3>2. owedFrames = 1
        BY <2>1 DEF AnswerOwed
      <3>3. CASE Asked(n)
        <4>1. Len(up) = 1 /\ serving = Nothing
          BY <3>3 DEF Asked
        <4> QED BY <1>0, <3>1, <3>2, <4>1
      <3>4. CASE Taken(n) \/ HalfOut(n)
        <4>1. Len(up) = 0 /\ serving # Nothing
          BY <2>2, <3>4 DEF Taken, HalfOut
        <4> QED BY <1>0, <3>1, <3>2, <4>1
      <3> QED BY <2>4, <3>3, <3>4
    <2>5. CASE HalfOut(n) /\ down = <<Part(n, FALSE)>>
      <3>1. Len(down) = 1 /\ down[1] = Part(n, FALSE)
        BY <2>5
      <3>2. Len(down) = 1 /\ ~down[1].last
        BY <2>3, <3>1
      <3>3. Whole = {}
        BY <3>2 DEF Whole
      <3> QED BY <1>0, <2>1, <2>2, <2>5, <3>3 DEF AnswerOwed, HalfOut
    <2>6. CASE Written(n) /\ down = <<Part(n, FALSE), Part(n, TRUE)>>
      <3>1. Len(down) = 2 /\ down[1] = Part(n, FALSE) /\ down[2] = Part(n, TRUE)
        BY <2>6
      <3>2. Len(down) = 2 /\ ~down[1].last /\ down[2].last
        BY <2>3, <3>1
      <3>3. Whole = {2}
        BY <3>2 DEF Whole
      <3> QED BY <1>0, <2>1, <2>6, <3>3 DEF AnswerOwed, Written
    <2>7. CASE Written(n) /\ down = <<Part(n, TRUE)>>
      <3>1. Len(down) = 1 /\ down[1] = Part(n, TRUE)
        BY <2>7
      <3>2. Len(down) = 1 /\ down[1].last
        BY <2>3, <3>1
      <3>3. Whole = {1}
        BY <3>2 DEF Whole
      <3> QED BY <1>0, <2>1, <2>7, <3>3 DEF AnswerOwed, Written
    <2> QED BY <2>1, <2>4, <2>5, <2>6, <2>7 DEF AnswerOwed, UnderWay, Asked, Taken, HalfOut, Written
  <1> QED BY <1>1, <1>2

\* On a connection whose framing is known the client owes exactly the answers that
\* are under way (client.go, owed).
THEOREM PairingHolds == WireSpec => []Pairing
  BY WireInvariance, InvPairs, PTL

\* How the abstract client sees a result.
Seen(g) == [c \in Call |-> Outcome(c, g[c])]

LEMMA EndMaps ==
  ASSUME WireInv, call.at # "idle", NEW r \in {Failed, call.n}, Ends(r)
  PROVE  Promise!Next
  <1>1. call.n \in Call /\ call.n # 0 /\ call.n # Failed
    BY CallNumbered, WireAssumption DEF WireInv, Call, Failed
  <1>2. call'.n = 0
    BY DEF Ends, NoCall
  <1> DEFINE how == IF r = Failed THEN "error" ELSE "answer"
  <1>3. Seen(got') = [Seen(got) EXCEPT ![call.n] = how]
    <2>1. got' = [got EXCEPT ![call.n] = r] /\ got \in [Call -> Int]
      BY DEF Ends, WireInv, CallsApart
    <2>2. Seen(got')[call.n] = how
      <3>1. got'[call.n] = r /\ r # None
        BY <1>1, <2>1 DEF None, Failed
      <3>2. Seen(got')[call.n] = Outcome(call.n, r)
        BY <1>1, <3>1 DEF Seen
      <3> QED BY <3>1, <3>2 DEF Outcome
    <2>3. \A c \in Call \ {call.n} : got'[c] = got[c]
      BY <1>1, <2>1
    <2>4. \A c \in Call \ {call.n} : Seen(got')[c] = Seen(got)[c]
      BY <2>3 DEF Seen
    <2> HIDE DEF how
    <2>5. Seen(got) = [c \in Call |-> Seen(got)[c]] /\ Seen(got') = [c \in Call |-> Seen(got')[c]]
      BY DEF Seen
    <2> QED BY <1>1, <2>2, <2>4, <2>5
  <1>4. CASE r = Failed
    <2>1. Promise!End("error")
      BY <1>1, <1>2, <1>3, <1>4 DEF Promise!End, Seen
    <2> QED BY <2>1 DEF Promise!Next
  <1>5. CASE r # Failed
    <2>1. Promise!End("answer")
      BY <1>1, <1>2, <1>3, <1>5 DEF Promise!End, Seen
    <2> QED BY <2>1 DEF Promise!Next
  <1> QED BY <1>4, <1>5

LEMMA StepMaps ==
  ASSUME WireInv, [WireNext]_wireVars
  PROVE  Promise!Next \/ (call'.n = call.n /\ got' = got)
  <1>1. CASE StartCall
    <2>1. PICK c \in Call : /\ call.at = "idle" /\ got[c] = None /\ \A b \in 1..(c - 1) : got[b] # None
                            /\ call' = [n |-> c, at |-> "drain", canceled |-> FALSE, half |-> FALSE]
                            /\ got' = got
      BY <1>1 DEF StartCall
    <2>2. call.n = 0 /\ call'.n = c
      BY <2>1 DEF WireInv, CallsApart
    <2>3. Seen(got)[c] = "none" /\ \A b \in 1..(c - 1) : Seen(got)[b] # "none"
      <3>1. Seen(got)[c] = "none"
        BY <2>1 DEF Seen, Outcome
      <3>2. 1..(c - 1) \subseteq Call
        BY WireAssumption DEF Call
      <3>3. ASSUME NEW b \in 1..(c - 1) PROVE Seen(got)[b] # "none"
        <4>1. b \in Call /\ got[b] # None
          BY <2>1, <3>2
        <4>2. Seen(got)[b] = Outcome(b, got[b])
          BY <4>1 DEF Seen
        <4> QED BY <4>1, <4>2 DEF Outcome
      <3> QED BY <3>1, <3>3
    <2>4. Promise!Begin(c)
      BY <2>1, <2>2, <2>3 DEF Promise!Begin, Seen
    <2> QED BY <2>4 DEF Promise!Next, Call
  <1>2. CASE RefuseBroken \/ ReadFails \/ WriteFails
    <2>1. call.at # "idle" /\ Ends(Failed)
      BY <1>2 DEF RefuseBroken, ReadFails, WriteFails
    <2> QED BY <2>1, EndMaps
  <1>3. CASE ReadAnswer
    <2>1. PICK n \in Call : Chunks(n)
      BY <1>3, ReadsOwed DEF ReadAnswer
    <2>2. Head(down).of = call.n /\ call.at = "read"
      BY <1>3, <2>1 DEF Chunks, ReadAnswer
    <2>3. PICK r \in {Failed, call.n} : Ends(r)
      BY <1>3, <2>2 DEF ReadAnswer
    <2> QED BY <2>2, <2>3, EndMaps
  <1>4. CASE CancelCall \/ ReadHalf \/ Discard \/ WriteFrame
    BY <1>4 DEF CancelCall, ReadHalf, Discard, WriteFrame, WireInv, CallsApart, CallState
  <1>5. CASE ServeRequest \/ Answer \/ HangUp \/ UNCHANGED wireVars
    BY <1>5 DEF ServeRequest, Answer, HangUp, wireVars
  <1> QED BY <1>1, <1>2, <1>3, <1>4, <1>5 DEF WireNext, WireClient

\* The framing implements CallPromise: every call of the client ends with the answer
\* to it or an error, in whatever order calls are given up and answers come in
\* (client.go, call and readFrame).
THEOREM FramingKeepsPromise == WireSpec => KeepsPromise
  <1>1. WireInit => Promise!Init
    BY DEF WireInit, Promise!Init, NoCall, Call, Outcome
  <1>2. WireInv /\ [WireNext]_wireVars => [Promise!Next]_<<call.n, Seen(got)>>
    BY StepMaps
  <1>3. WireInv /\ [WireNext]_wireVars => [Promise!Next]_<<call.n, [c \in Call |-> Outcome(c, got[c])]>>
    BY <1>2 DEF Seen
  <1> QED BY <1>1, <1>3, WireInvariance, PTL DEF WireSpec, KeepsPromise, Promise!Spec

-----------------------------------------------------------------------------
(***************************************************************************)
(* The change bus.                                                         *)
(*                                                                         *)
(* A row past the listener's cursor is in its channel, ahead of the        *)
(* transaction that publishes, or ahead of the mark of a suspended store.  *)
(* That is inductive with the places of mark, head and transaction.        *)
(***************************************************************************)
Stage == {"none", "open", "publish", "catchup"}

\* The transaction under wmu, the mark of the hand-off and the head of the log.
BusShape ==
  /\ store \in {"open", "suspended", "half", "closed"} /\ listener \in {"none", "subscribed", "primed", "ended"}
  /\ logHead \in Nat /\ mark \in Int /\ cursor \in Nat /\ chan \in Seq(Nat)
  /\ tx \in [at : Stage, pre : Nat, notify : BOOLEAN] /\ tx.pre <= logHead
  /\ tx.at = "open" => tx.pre = logHead
  /\ store \in {"open", "closed"} => mark = -1
  /\ store \in {"suspended", "half"} => mark \in 0..logHead
  /\ store \in {"suspended", "closed"} => tx.at = "none"
  /\ tx.at = "none" => tx = NoTx
  /\ tx.at = "catchup" => store = "half"
  /\ store = "closed" => listener # "primed"

\* Row k is in the channel, being published, or left for the next catch-up.
Coming(k) ==
  \/ \E i \in 1..Len(chan) : chan[i] = k
  \/ tx.at \in {"publish", "catchup"} /\ tx.pre < k
  \/ store = "suspended" /\ mark < k

RowsCome ==
  listener = "primed" /\ ~dropped /\ ~unread /\ ~blind => \A k \in Nat : cursor < k /\ k <= logHead => Coming(k)

\* The inductive invariant of BusSpec.
BusInv == BusShape /\ RowsCome

-----------------------------------------------------------------------------
LEMMA BusInitInv == BusInit => BusInv
  <1> SUFFICES ASSUME BusInit PROVE BusInv
    OBVIOUS
  <1>1. NoTx \in [at : Stage, pre : Nat, notify : BOOLEAN] /\ NoTx.pre = 0 /\ NoTx.at = "none"
    BY DEF NoTx, Stage
  <1>2. BusShape
    BY <1>1 DEF BusInit, BusShape
  <1> QED BY <1>2 DEF BusInit, BusInv, RowsCome

\* The shape: what each step does to the transaction, the mark and the head.
LEMMA ShapeKept ==
  ASSUME BusShape, [BusNext]_busVars
  PROVE  BusShape'
  <1> USE DEF BusShape
  <1>0. NoTx \in [at : Stage, pre : Nat, notify : BOOLEAN] /\ NoTx.pre = 0 /\ NoTx.at = "none"
    BY DEF NoTx, Stage
  <1>1. CASE Begin
    <2>1. tx' \in [at : Stage, pre : Nat, notify : BOOLEAN] /\ tx'.at = "open" /\ tx'.pre = logHead
      BY <1>1 DEF Begin, Stage, Subscribed
    <2> QED BY <1>1, <2>1 DEF Begin, Writable
  <1>2. ASSUME NEW n \in 0..2, Commit(n) PROVE BusShape'
    <2>1. logHead' \in Nat /\ logHead <= logHead'
      BY <1>2 DEF Commit
    <2>2. tx' \in [at : Stage, pre : Nat, notify : BOOLEAN] /\ tx'.pre <= logHead' /\ tx'.at \notin {"open", "catchup"} /\ (tx'.at = "none" => tx' = NoTx)
      <3>1. CASE tx.notify
        <4>1. tx' = [tx EXCEPT !.at = "publish"]
          BY <1>2, <3>1 DEF Commit
        <4>2. tx' \in [at : Stage, pre : Nat, notify : BOOLEAN] /\ tx'.at = "publish" /\ tx'.pre = tx.pre
          BY <4>1 DEF Stage
        <4> QED BY <4>2, <2>1
      <3>2. CASE ~tx.notify
        <4>1. tx' = NoTx
          BY <1>2, <3>2 DEF Commit
        <4> QED BY <4>1, <1>0, <2>1
      <3> QED BY <3>1, <3>2
    <2>3. store \notin {"suspended", "closed"}
      BY <1>2 DEF Commit
    <2> QED BY <1>2, <2>1, <2>2, <2>3 DEF Commit
  <1>3. CASE Rollback \/ PublishFails \/ Published
    BY <1>0, <1>3 DEF Rollback, PublishFails, Published
  <1>4. CASE Publish
    <2>1. tx' \in [at : Stage, pre : Nat, notify : BOOLEAN] /\ tx'.pre <= logHead /\ tx'.at = tx.at
      BY <1>4 DEF Publish
    <2>2. chan' \in Seq(Nat)
      <3>1. tx.pre + 1 \in Nat
        OBVIOUS
      <3>2. chan' = chan \/ chan' = Append(chan, tx.pre + 1)
        BY <1>4 DEF Publish
      <3>3. chan \in Seq(Nat)
        OBVIOUS
      <3>4. Append(chan, tx.pre + 1) \in Seq(Nat)
        BY <3>1, <3>3, AppendProperties
      <3> QED BY <3>2, <3>3, <3>4
    <2> QED BY <1>4, <2>1, <2>2 DEF Publish
  <1>5. CASE Suspend
    <2>1. mark' \in 0..logHead
      BY <1>5 DEF Suspend
    <2> QED BY <1>0, <1>5, <2>1 DEF Suspend
  <1>6. CASE WriteElsewhere
    BY <1>0, <1>6 DEF WriteElsewhere
  <1>7. CASE ReopenStarts
    <2>1. tx' \in [at : Stage, pre : Nat, notify : BOOLEAN] /\ tx'.at = "catchup" /\ tx'.pre = mark
      BY <1>7 DEF ReopenStarts, CatchUpFrom, Stage
    <2> QED BY <1>7, <2>1 DEF ReopenStarts
  <1>8. CASE CaughtUp \/ CatchUpFails
    BY <1>0, <1>8 DEF CaughtUp, CatchUpFails
  <1>9. CASE ReopenEnds \/ CloseStore
    <2>1. tx = NoTx /\ mark' = -1 /\ store' \in {"open", "closed"}
      BY <1>9 DEF ReopenEnds, CloseStore
    <2>2. listener' \in {"none", "subscribed", "primed", "ended"} /\ (store' = "closed" => listener' # "primed")
      BY <1>9 DEF ReopenEnds, CloseStore, Subscribed
    <2> QED BY <1>0, <1>9, <2>1, <2>2 DEF ReopenEnds, CloseStore
  <1>10. CASE Subscribe \/ Prime \/ Unsubscribe
    BY <1>10 DEF Subscribe, Prime, Unsubscribe
  <1>11. CASE Receive
    <2>1. chan' \in Seq(Nat) /\ Head(chan) \in Nat
      BY <1>11, HeadTailProperties DEF Receive
    <2>2. cursor' \in Nat
      BY <1>11, <2>1 DEF Receive
    <2> QED BY <1>11, <2>1, <2>2 DEF Receive
  <1>12. CASE UNCHANGED busVars
    BY <1>12 DEF busVars
  <1> QED BY <1>1, <1>2, <1>3, <1>4, <1>5, <1>6, <1>7, <1>8, <1>9, <1>10, <1>11, <1>12 DEF BusNext

-----------------------------------------------------------------------------
(***************************************************************************)
(* No step loses a row on the way to the listener.                         *)
(***************************************************************************)
\* Rows that were to come still are when the channel, the publication and the
\* catch-up hold as much as before.
LEMMA StillComing ==
  ASSUME RowsCome, listener' = "primed" => listener = "primed", dropped' = dropped,
         unread' = unread, blind' = blind, cursor' = cursor, logHead' = logHead,
         \A k \in Nat : k <= logHead /\ Coming(k) => Coming(k)'
  PROVE  RowsCome'
  BY DEF RowsCome

LEMMA RowsKept ==
  ASSUME BusInv, [BusNext]_busVars
  PROVE  RowsCome'
  <1> USE DEF BusInv
  <1>0. NoTx.at = "none"
    BY DEF NoTx
  <1>1. CASE Begin
    <2>1. tx'.at = "open" /\ tx.at = "none"
      BY <1>0, <1>1 DEF Begin
    <2>2. \A k \in Nat : Coming(k) => Coming(k)'
      BY <1>1, <2>1 DEF Begin, Coming
    <2> QED BY <1>1, <2>2, StillComing DEF Begin
  <1>2. ASSUME NEW n \in 0..2, Commit(n) PROVE RowsCome'
    <2>0. logHead' = logHead + n /\ UNCHANGED <<store, mark, listener, chan, cursor, dropped, unread>>
      BY <1>2 DEF Commit
    <2>1. CASE n = 0
      <3>1. \A k \in Nat : Coming(k) => Coming(k)'
        BY <1>0, <1>2 DEF Commit, Coming
      <3>2. logHead' = logHead
        BY <2>0, <2>1 DEF BusShape
      <3>3. blind => blind'
        BY <1>2 DEF Commit
      <3> QED BY <2>0, <3>1, <3>2, <3>3 DEF RowsCome
    <2>2. CASE n > 0 /\ ~tx.notify
      <3>1. listener = "primed" => blind'
        BY <1>2, <2>2 DEF Commit
      <3> QED BY <2>0, <3>1 DEF RowsCome
    <2>3. CASE n > 0 /\ tx.notify
      <3>1. tx'.at = "publish" /\ tx'.pre = logHead /\ (blind => blind')
        BY <1>2, <2>3 DEF Commit, BusShape
      <3>2. \A k \in Nat : k <= logHead /\ Coming(k) => Coming(k)'
        BY <1>2, <3>1 DEF Commit, Coming
      <3>3. \A k \in Nat : logHead < k => Coming(k)'
        BY <3>1 DEF Coming
      <3> QED BY <2>0, <3>1, <3>2, <3>3 DEF RowsCome, BusShape
    <2> QED BY <1>2, <2>1, <2>2, <2>3
  <1>3. CASE Rollback
    <2>1. \A k \in Nat : Coming(k) => Coming(k)'
      BY <1>0, <1>3 DEF Rollback, Coming
    <2> QED BY <1>3, <2>1, StillComing DEF Rollback
  <1>4. CASE Publish
    <2>1. CASE ~Subscribed \/ Len(chan) >= ChanRoom
      BY <1>4, <2>1, BusAssumption DEF Publish, RowsCome, Subscribed, BusShape
    <2>2. CASE Subscribed /\ Len(chan) < ChanRoom
      <3>1. chan' = Append(chan, tx.pre + 1) /\ tx.pre + 1 \in Nat
        BY <1>4, <2>2 DEF Publish, BusShape
      <3>2. Len(chan') = Len(chan) + 1 /\ chan'[Len(chan) + 1] = tx.pre + 1 /\ \A i \in 1..Len(chan) : chan'[i] = chan[i]
        BY <3>1, AppendProperties DEF BusShape
      <3>3. Len(chan) \in Nat
        BY DEF BusShape
      <3>4. tx'.at = tx.at /\ tx'.pre = tx.pre + 1 /\ tx.at \in {"publish", "catchup"}
        BY <1>4 DEF Publish, BusShape
      <3>5. ASSUME NEW k \in Nat, Coming(k) PROVE Coming(k)'
        <4>1. CASE \E i \in 1..Len(chan) : chan[i] = k
          BY <3>2, <3>3, <4>1 DEF Coming
        <4>2. CASE tx.pre < k
          <5>1. k = tx.pre + 1 \/ tx.pre + 1 < k
            BY <4>2 DEF BusShape
          <5>2. CASE k = tx.pre + 1
            BY <3>2, <3>3, <5>2 DEF Coming
          <5>3. CASE tx.pre + 1 < k
            BY <3>4, <5>3 DEF Coming
          <5> QED BY <5>1, <5>2, <5>3
        <4>3. CASE store = "suspended" /\ mark < k
          BY <1>4, <4>3 DEF Publish, Coming
        <4> QED BY <3>5, <4>1, <4>2, <4>3 DEF Coming
      <3> QED BY <1>4, <2>2, <3>5, StillComing, BusAssumption DEF Publish, BusShape
    <2> QED BY <2>1, <2>2, BusAssumption DEF BusShape
  <1>5. CASE PublishFails \/ CatchUpFails
    BY <1>5 DEF PublishFails, CatchUpFails, RowsCome
  <1>6. CASE Published
    <2>1. \A k \in Nat : k <= logHead /\ Coming(k) => Coming(k)'
      BY <1>6 DEF Published, Coming, BusShape
    <2> QED BY <1>6, <2>1, StillComing DEF Published
  <1>7. CASE Suspend
    <2>1. \A k \in Nat : Coming(k) => Coming(k)'
      BY <1>0, <1>7 DEF Suspend, Coming
    <2> QED BY <1>7, <2>1, StillComing DEF Suspend
  <1>8. CASE WriteElsewhere
    <2>1. \A k \in Nat : Coming(k) => Coming(k)'
      BY <1>8 DEF WriteElsewhere, Coming
    <2>2. \A k \in Nat : k = logHead + 1 => Coming(k)'
      BY <1>8 DEF WriteElsewhere, Coming, BusShape
    <2>3. logHead' = logHead + 1 /\ UNCHANGED <<listener, cursor, dropped, unread, blind>>
      BY <1>8 DEF WriteElsewhere
    <2>4. \A k \in Nat : k <= logHead' => k <= logHead \/ k = logHead + 1
      BY <2>3 DEF BusShape
    <2>5. ASSUME listener = "primed", ~dropped, ~unread, ~blind, NEW k \in Nat, cursor < k, k <= logHead' PROVE Coming(k)'
      <3>1. CASE k <= logHead
        BY <2>1, <2>5, <3>1 DEF RowsCome
      <3>2. CASE k = logHead + 1
        BY <2>2, <3>2
      <3> QED BY <2>4, <2>5, <3>1, <3>2
    <2> QED BY <2>3, <2>5 DEF RowsCome
  <1>9. CASE ReopenStarts
    <2>1. tx'.at = "catchup" /\ tx'.pre = mark /\ tx.at = "none"
      BY <1>9 DEF ReopenStarts, CatchUpFrom, BusShape
    <2>2. \A k \in Nat : Coming(k) => Coming(k)'
      BY <1>9, <2>1 DEF ReopenStarts, Coming
    <2> QED BY <1>9, <2>2, StillComing DEF ReopenStarts
  <1>10. CASE CaughtUp
    <2>1. \A k \in Nat : k <= logHead /\ Coming(k) => Coming(k)'
      BY <1>10 DEF CaughtUp, Coming, BusShape
    <2> QED BY <1>10, <2>1, StillComing DEF CaughtUp
  <1>11. CASE ReopenEnds
    <2>1. \A k \in Nat : Coming(k) => Coming(k)'
      BY <1>11 DEF ReopenEnds, Coming
    <2> QED BY <1>11, <2>1, StillComing DEF ReopenEnds
  <1>12. CASE CloseStore \/ Subscribe \/ Unsubscribe
    <2>1. listener' # "primed"
      BY <1>12, ShapeKept DEF CloseStore, Subscribe, Unsubscribe, Subscribed
    <2> QED BY <2>1 DEF RowsCome
  <1>13. CASE Prime
    BY <1>13 DEF Prime, RowsCome, BusShape
  <1>14. CASE Receive
    <2>1. chan # <<>> /\ chan' = Tail(chan) /\ chan \in Seq(Nat) /\ Head(chan) = chan[1]
      BY <1>14 DEF Receive, BusShape
    <2>2. /\ Head(chan) \in Nat /\ Len(chan') = Len(chan) - 1 /\ Len(chan) \in Nat
          /\ \A i \in 1..Len(chan') : chan'[i] = chan[i + 1]
      BY <2>1, HeadTailProperties
    <2>3. ASSUME NEW k \in Nat, k # Head(chan), Coming(k) PROVE Coming(k)'
      <3>1. CASE \E i \in 1..Len(chan) : chan[i] = k
        <4>1. PICK i \in 1..Len(chan) : chan[i] = k
          BY <3>1
        <4>2. i # 1
          BY <2>1, <2>3, <4>1
        <4>3. i - 1 \in 1..Len(chan') /\ chan'[i - 1] = k
          BY <2>2, <4>1, <4>2
        <4> QED BY <4>3 DEF Coming
      <3>2. CASE ~\E i \in 1..Len(chan) : chan[i] = k
        BY <1>14, <2>3, <3>2 DEF Coming, Receive
      <3> QED BY <3>1, <3>2
    <2>4. CASE Head(chan) <= cursor
      BY <1>14, <2>2, <2>3, <2>4 DEF RowsCome, Receive, BusShape
    <2>5. CASE Head(chan) = cursor + 1
      BY <1>14, <2>2, <2>3, <2>5 DEF RowsCome, Receive, BusShape
    <2>6. CASE Head(chan) > cursor + 1
      BY <1>14, <2>2, <2>6 DEF RowsCome, Receive, BusShape
    <2> QED BY <2>2, <2>4, <2>5, <2>6 DEF BusShape
  <1>15. CASE UNCHANGED busVars
    BY <1>15 DEF busVars, RowsCome, Coming
  <1> QED BY <1>1, <1>2, <1>3, <1>4, <1>5, <1>6, <1>7, <1>8, <1>9, <1>10, <1>11, <1>12, <1>13, <1>14, <1>15 DEF BusNext

\* Of every behaviour of the store, the other process and one listener.
THEOREM BusInvariance == BusSpec => []BusInv
  <1>1. BusInv /\ [BusNext]_busVars => BusInv'
    BY ShapeKept, RowsKept DEF BusInv
  <1> QED BY <1>1, BusInitInv, PTL DEF BusSpec

\* A listener that subscribed and then pulled has every row of the feed or will be
\* handed it, through suspends and failed reopens, unless its channel was full, the rows
\* could not be read for it, or a transaction looked for listeners before it came
\* (store.go, publishSince).
THEOREM NoRowMissed == BusSpec => []NoGapUnlessBlind
  <1>1. BusInv => NoGapUnlessBlind
    <2> SUFFICES ASSUME BusInv, ~blind, ~unread, listener = "primed", ~dropped, NEW k \in (cursor + 1)..logHead
                 PROVE  k \in ToCome
      BY DEF NoGapUnlessBlind, NoGap
    <2>1. k \in Nat /\ cursor < k /\ k <= logHead
      BY DEF BusInv, BusShape
    <2>2. Coming(k)
      BY <2>1 DEF BusInv, RowsCome
    <2> QED BY <2>1, <2>2 DEF Coming, ToCome, BusInv, BusShape
  <1> QED BY <1>1, BusInvariance, PTL

-----------------------------------------------------------------------------
(***************************************************************************)
(* A command's way to the library.                                         *)
(*                                                                         *)
(* What the server reads off the wire is what the command meant, so the    *)
(* library is asked the same either way; what it says is then carried by   *)
(* the reply or by the job's row.                                          *)
(***************************************************************************)
Direct == [method |-> Method, opts |-> Meant(command.opts)]

\* The methods with a write-back whose failures are told.
Writing == EditMethods \cup ArtMethods \cup EntityMethods

\* What the client puts on the wire for the command.
OnWire ==
  IF Method \in ArtMethods THEN ArtWire(Method, command.opts)
  ELSE IF Method \in PlayMethods THEN PlayWire(command.opts)
  ELSE IF Method \in PlaylistMethods THEN PlaylistWire(command.opts)
  ELSE command.opts

\* The server refused the request itself; the library answered at once, and refused if a
\* job was asked for; or a job was started, whose row tells its end.
ServerRefused == reply.by = "server" /\ ~reply.ok /\ asked = <<>> /\ job = NoJob

AnsweredAtOnce ==
  /\ reply.by = "library" /\ asked = <<Direct>> /\ job = NoJob
  /\ Method \in JobMethods => ~reply.ok /\ verdict.report = {}
  /\ reply.class = verdict.class /\ reply.reason = verdict.reason
  /\ reply.failures = verdict.unwritten /\ (Method \notin Writing => verdict.unwritten = FALSE)
  /\ reply.report \subseteq verdict.report /\ verdict.report \ {"own"} \subseteq reply.report

RowTells ==
  /\ job.class = verdict.class /\ job.reason = verdict.reason
  /\ job.report = verdict.report /\ verdict.unwritten = FALSE

JobStarted ==
  /\ reply.by = "library" /\ reply.ok /\ asked = <<Direct>> /\ Method \in JobMethods
  /\ \/ job.state \in {"running", "crashed"}
     \/ job.state \in {"done", "failed", "canceled"} /\ RowTells

\* The inductive invariant of ProxiedSpec.
ProxyInv ==
  /\ command \in Commands /\ handler \in {"none", "frame", "answered", "dropped"}
  /\ AskedAsMeant /\ ToldTheVerdict
  /\ phase \in {"new", "direct", "dialed"} => handler = "none" /\ asked = <<>> /\ told = NotTold
  /\ handler = "none" => reply = NoReply /\ job = NoJob
  /\ handler \in {"frame", "dropped"} =>
       asked = <<>> /\ reply = NoReply /\ job = NoJob /\ told.by \notin {"library", "server"}
  /\ handler = "frame" => frame = OnWire
  /\ handler = "answered" => ServerRefused \/ AnsweredAtOnce \/ JobStarted
  /\ phase = "tailing" => handler = "answered" /\ JobStarted
  /\ job.state = "running" => told.by # "library"

-----------------------------------------------------------------------------
\* A command has a method of one family, and every option of it one of its sayings.
LEMMA CommandShape ==
  ASSUME command \in Commands
  PROVE  /\ Method \in Methods
         /\ command.opts = [o \in Params(Method) |-> command.opts[o]]
         /\ DOMAIN command.opts = Params(Method)
         /\ \A o \in Params(Method) : command.opts[o] \in Sayings(o) \cup {Unsaid(o)}
  <1>1. PICK m \in Methods : \E opts \in OptionsOf(m) : command = [method |-> m, opts |-> opts]
    BY DEF Commands
  <1>2. PICK opts \in OptionsOf(m) : command = [method |-> m, opts |-> opts]
    BY <1>1
  <1>3. PICK given \in SUBSET Params(m) :
          \E f \in Said(given) : opts = [o \in Params(m) |-> IF o \in given THEN f[o] ELSE Unsaid(o)]
    BY <1>2 DEF OptionsOf
  <1>4. PICK f \in Said(given) : opts = [o \in Params(m) |-> IF o \in given THEN f[o] ELSE Unsaid(o)]
    BY <1>3
  <1>5. \A o \in given : f[o] \in Sayings(o)
    BY <1>4 DEF Said
  <1>6. Method = m /\ command.opts = opts
    BY <1>2 DEF Method
  <1>7. \A o \in Params(m) : opts[o] \in Sayings(o) \cup {Unsaid(o)}
    BY <1>4, <1>5
  <1>8. DOMAIN opts = Params(m) /\ opts = [o \in Params(m) |-> opts[o]]
    BY <1>4
  <1> QED BY <1>6, <1>7, <1>8

\* No method is of two families.
LEMMA ArtApart ==
  ASSUME NEW m \in ArtMethods
  PROVE  m \notin EditMethods \cup EntityMethods \cup AdminMethods \cup PlayMethods \cup PlaylistMethods
                  \cup PodcastMethods \cup JobMethods
  BY DEF ArtMethods, EditMethods, EntityMethods, AdminMethods, PlayMethods, PlaylistMethods, PodcastMethods, JobMethods

LEMMA PlayApart ==
  ASSUME NEW m \in PlayMethods
  PROVE  m \notin EditMethods \cup ArtMethods \cup EntityMethods \cup AdminMethods \cup PlaylistMethods
                  \cup PodcastMethods \cup JobMethods
  BY DEF ArtMethods, EditMethods, EntityMethods, AdminMethods, PlayMethods, PlaylistMethods, PodcastMethods, JobMethods

LEMMA PlaylistApart ==
  ASSUME NEW m \in PlaylistMethods
  PROVE  m \notin EditMethods \cup ArtMethods \cup EntityMethods \cup AdminMethods \cup PlayMethods
                  \cup PodcastMethods \cup JobMethods
  BY DEF ArtMethods, EditMethods, EntityMethods, AdminMethods, PlayMethods, PlaylistMethods, PodcastMethods, JobMethods

LEMMA JobApart ==
  ASSUME NEW m \in JobMethods
  PROVE  m \notin EditMethods \cup ArtMethods \cup EntityMethods \cup AdminMethods \cup PlayMethods
                  \cup PlaylistMethods \cup PodcastMethods
  BY DEF ArtMethods, EditMethods, EntityMethods, AdminMethods, PlayMethods, PlaylistMethods, PodcastMethods, JobMethods

LEMMA OthersApart ==
  ASSUME NEW m \in AdminMethods \cup PodcastMethods
  PROVE  m \notin EditMethods \cup ArtMethods \cup EntityMethods
  BY DEF ArtMethods, EditMethods, EntityMethods, AdminMethods, PodcastMethods

\* Only a picture has a role, only an edit, a picture and an entity are written back, and
\* the options the wire spells otherwise are of one family each.
LEMMA RoleOfArt ==
  ASSUME NEW m \in Methods, m \notin ArtMethods
  PROVE  "role" \notin Params(m)
  BY DEF Methods, Params, EditParams, EntityParams, AdminParams, PlayParams, PlaylistParams, PodcastParams, JobParams

LEMMA WriteBackOfWriting ==
  ASSUME NEW m \in Methods, m \notin Writing, m \notin JobMethods
  PROVE  "writeBack" \notin Params(m)
  BY DEF Methods, Writing, Params, AdminParams, PlayParams, PlaylistParams, PodcastParams

LEMMA OptionsKept ==
  ASSUME NEW opts
  PROVE  /\ DOMAIN Meant(opts) = DOMAIN opts
         /\ \A o \in DOMAIN opts : o # "role" => Meant(opts)[o] = opts[o]
         /\ \A o \in DOMAIN opts : o = "role" => Meant(opts)[o] = IF opts[o] = "" THEN "front" ELSE opts[o]
  BY DEF Meant

\* What is not respelled on the wire is read as it was meant.
LEMMA PlainCarried ==
  ASSUME command \in Commands, Method \notin ArtMethods
  PROVE  Meant(command.opts) = command.opts
  <1>1. "role" \notin Params(Method)
    BY CommandShape, RoleOfArt
  <1>2. \A o \in DOMAIN command.opts : o # "role"
    BY <1>1, CommandShape
  <1>3. Meant(command.opts) = [o \in DOMAIN command.opts |-> command.opts[o]]
    BY <1>2 DEF Meant
  <1> QED BY <1>3, CommandShape

\* The front cover goes out as an omitted role, and an omitted role is the front cover.
LEMMA ArtCarried ==
  ASSUME command \in Commands
  PROVE  ParseArtRole(ArtWire(Method, command.opts)) = Meant(command.opts)
  <1> DEFINE opts == command.opts
             wire == ArtWire(Method, opts)
  <1>1. DOMAIN wire = DOMAIN opts
    BY DEF ArtWire
  <1>2. \A o \in DOMAIN opts :
          (IF o = "role" /\ wire[o] = "" THEN "front" ELSE wire[o])
            = (IF o = "role" /\ opts[o] = "" THEN "front" ELSE opts[o])
    BY DEF ArtWire
  <1> HIDE DEF wire
  <1>3. ParseArtRole(wire) = [o \in DOMAIN opts |-> IF o = "role" /\ wire[o] = "" THEN "front" ELSE wire[o]]
    BY <1>1 DEF ParseArtRole
  <1>4. Meant(opts) = [o \in DOMAIN opts |-> IF o = "role" /\ opts[o] = "" THEN "front" ELSE opts[o]]
    BY DEF Meant
  <1>5. ParseArtRole(wire) = Meant(opts)
    BY <1>2, <1>3, <1>4
  <1> QED BY <1>5 DEF wire

\* A time of zero is no time, and no request gives one.
LEMMA PlayCarried ==
  ASSUME command \in Commands
  PROVE  PlayRead(PlayWire(command.opts)) = command.opts
  <1> DEFINE opts == command.opts
             wire == PlayWire(opts)
  <1>1. DOMAIN wire = DOMAIN opts
    BY DEF PlayWire
  <1>2. \A o \in DOMAIN opts : o = "asOf" => opts[o] \in {"set", "nil"}
    BY CommandShape DEF Sayings, Unsaid
  <1>3. \A o \in DOMAIN opts : (IF o = "asOf" THEN AsOf(wire[o]) ELSE wire[o]) = opts[o]
    BY <1>2 DEF PlayWire, AsOf, asOfToWire
  <1> HIDE DEF wire
  <1>4. PlayRead(wire) = [o \in DOMAIN opts |-> IF o = "asOf" THEN AsOf(wire[o]) ELSE wire[o]]
    BY <1>1 DEF PlayRead
  <1>5. PlayRead(wire) = [o \in DOMAIN opts |-> opts[o]]
    BY <1>3, <1>4
  <1>6. PlayRead(wire) = opts
    BY <1>5, CommandShape
  <1> QED BY <1>6 DEF wire

\* No guard and a guard of no entries stay apart, and so do no rule and a rule.
LEMMA PlaylistCarried ==
  ASSUME command \in Commands
  PROVE  PlaylistRead(PlaylistWire(command.opts)) = command.opts
  <1> DEFINE opts == command.opts
             wire == PlaylistWire(opts)
             read(o) == CASE o = "expect" /\ wire[o] = "null" -> "nil"
                          [] o = "expect" /\ wire[o] = "[]" -> "empty"
                          [] o = "rule" /\ wire[o] = "" -> "nil"
                          [] OTHER -> wire[o]
  <1>1. DOMAIN wire = DOMAIN opts
    BY DEF PlaylistWire
  <1>2. \A o \in DOMAIN opts : /\ o = "expect" => opts[o] \in {"nil", "empty", "pids"}
                               /\ o = "rule" => opts[o] \in {"nil", "set"}
    BY CommandShape DEF Sayings, Unsaid
  <1>3. ASSUME NEW o \in DOMAIN opts PROVE read(o) = opts[o]
    <2>1. wire[o] = CASE o = "expect" /\ opts[o] = "nil" -> "null"
                      [] o = "expect" /\ opts[o] = "empty" -> "[]"
                      [] o = "rule" /\ opts[o] = "nil" -> ""
                      [] OTHER -> opts[o]
      BY DEF PlaylistWire
    <2> HIDE DEF wire, opts
    <2>2. CASE o = "expect"
      BY <1>2, <2>1, <2>2
    <2>3. CASE o = "rule"
      BY <1>2, <2>1, <2>3
    <2>4. CASE o \notin {"expect", "rule"}
      BY <2>1, <2>4
    <2> QED BY <2>2, <2>3, <2>4
  <1> HIDE DEF wire
  <1>4. PlaylistRead(wire) = [o \in DOMAIN opts |-> read(o)]
    BY <1>1 DEF PlaylistRead
  <1>5. PlaylistRead(wire) = [o \in DOMAIN opts |-> opts[o]]
    BY <1>3, <1>4
  <1>6. PlaylistRead(wire) = opts
    BY <1>5, CommandShape
  <1> QED BY <1>6 DEF wire

-----------------------------------------------------------------------------
\* Files are left unwritten only where writing them was asked for.
LEMMA UnwrittenOfWriting ==
  ASSUME NEW m \in Methods, m \notin Writing, m \notin JobMethods,
         NEW opts, DOMAIN opts = Params(m), NEW v \in Answers(m, opts)
  PROVE  v.unwritten = FALSE
  <1>1. ~Says(opts, "writeBack", "set")
    BY WriteBackOfWriting DEF Says
  <1>2. v \in {Verdict("invalid", "", FALSE, {})} \cup {Done(m)} \cup {Verdict(r[1], r[2], FALSE, {}) : r \in Refusals}
    BY <1>1 DEF Answers
  <1>3. CASE v = Done(m)
    BY <1>3 DEF Verdict, Done
  <1>4. CASE v = Verdict("invalid", "", FALSE, {})
    BY <1>4 DEF Verdict
  <1>5. CASE \E r \in Refusals : v = Verdict(r[1], r[2], FALSE, {})
    <2>1. PICK r : v = Verdict(r[1], r[2], FALSE, {})
      BY <1>5
    <2> QED BY <2>1 DEF Verdict
  <1> QED BY <1>2, <1>3, <1>4, <1>5

\* The end of a job leaves no file unwritten.
LEMMA EndingsPlain ==
  ASSUME NEW m, NEW v \in Endings(m)
  PROVE  v.unwritten = FALSE
  <1>1. CASE v = Done(m)
    BY <1>1 DEF Verdict, Done
  <1>2. CASE \E r \in Refusals \cup {<<"canceled", "">>}, p \in Partial(m) : v = Verdict(r[1], r[2], FALSE, p)
    <2>1. PICK r, p : v = Verdict(r[1], r[2], FALSE, p)
      BY <1>2
    <2> QED BY <2>1 DEF Verdict
  <1> QED BY <1>1, <1>2 DEF Endings

LEMMA AppendToNone ==
  ASSUME NEW x
  PROVE  Append(<<>>, x) = <<x>> /\ Len(<<x>>) = 1
  OBVIOUS

\* An answer before the server has the request: nothing is asked yet.
LEMMA AsksInv ==
  ASSUME ProxyInv, handler = "frame", Method \notin JobMethods,
         NEW opts, opts = Meant(command.opts), NEW withheld \in {{}, {"own"}},
         Asks(opts, withheld), UNCHANGED <<command, server, phase, frame, told, job>>
  PROVE  ProxyInv'
  <1>1. asked = <<>> /\ job = NoJob /\ told.by \notin {"library", "server"} /\ handler' = "answered"
    BY DEF ProxyInv, Asks, Responds
  <1>2. Method' = Method /\ Direct' = Direct
    BY DEF Method, Direct
  <1>3. asked' = <<Direct>>
    BY <1>1, AppendToNone DEF Asks, Direct
  <1>4. PICK v \in Answers(Method, opts) :
          /\ verdict' = v
          /\ Responds("library", v.class, v.reason, v.unwritten, v.report \ withheld)
    BY DEF Asks
  <1>5. Method \in Methods /\ DOMAIN opts = Params(Method)
    BY CommandShape, OptionsKept DEF ProxyInv
  <1>6. Method \notin Writing => v.unwritten = FALSE
    BY <1>5, UnwrittenOfWriting
  <1>7. /\ reply'.by = "library" /\ reply'.class = verdict'.class /\ reply'.reason = verdict'.reason
        /\ reply'.failures = verdict'.unwritten /\ reply'.report = verdict'.report \ withheld
    BY <1>4 DEF Responds
  <1>8. AnsweredAtOnce'
    BY <1>1, <1>2, <1>3, <1>4, <1>6, <1>7 DEF AnsweredAtOnce
  <1>9. AskedAsMeant' /\ ToldTheVerdict'
    BY <1>1, <1>2, <1>3 DEF AskedAsMeant, ToldTheVerdict, Direct
  <1>10. phase \notin {"new", "direct", "dialed", "tailing"}
    BY DEF ProxyInv
  <1> QED BY <1>1, <1>8, <1>9, <1>10 DEF ProxyInv, NoJob

LEMMA RefusesInv ==
  ASSUME ProxyInv, handler = "frame", NEW class \in {"conflict", "invalid"}, Refuses(class),
         UNCHANGED <<command, server, phase, frame, job, told>>
  PROVE  ProxyInv'
  <1>1. asked = <<>> /\ job = NoJob /\ told.by \notin {"library", "server"} /\ handler' = "answered"
        /\ asked' = asked
    BY DEF ProxyInv, Refuses, Responds
  <1>2. reply'.by = "server" /\ ~reply'.ok
    BY DEF Refuses, Responds
  <1>3. ServerRefused'
    BY <1>1, <1>2 DEF ServerRefused
  <1>4. AskedAsMeant' /\ ToldTheVerdict'
    BY <1>1 DEF AskedAsMeant, ToldTheVerdict, Method
  <1>5. phase \notin {"new", "direct", "dialed", "tailing"}
    BY DEF ProxyInv
  <1> QED BY <1>1, <1>3, <1>4, <1>5 DEF ProxyInv, NoJob

\* What the command is told of a lost server, or of itself, says nothing of the library.
LEMMA LostInv ==
  ASSUME ProxyInv, NEW class, NEW unwritten, NEW report, Tells("lost", class, "", unwritten, report),
         UNCHANGED <<command, server, handler, frame, reply, job, asked, verdict>>
  PROVE  ProxyInv'
  <1>1. told'.by = "lost" /\ phase' = "done"
    BY DEF Tells
  <1>2. AskedAsMeant' /\ ToldTheVerdict'
    BY <1>1 DEF ProxyInv, AskedAsMeant, ToldTheVerdict, Method
  <1>3. OnWire' = OnWire /\ ServerRefused' = ServerRefused /\ AnsweredAtOnce' = AnsweredAtOnce
        /\ JobStarted' = JobStarted
    BY DEF OnWire, ServerRefused, AnsweredAtOnce, JobStarted, RowTells, Direct, Method
  <1> QED BY <1>1, <1>2, <1>3 DEF ProxyInv

\* An answer that is there is told as it came.
LEMMA ReturnsInv ==
  ASSUME ProxyInv, NEW methods, NEW failures, Returns(methods, failures),
         methods \cap JobMethods = {},
         \/ failures = reply.failures
         \/ failures = FALSE /\ methods \cap Writing = {}
  PROVE  ProxyInv'
  <1>1. handler = "answered" /\ Method \in methods /\ phase' = "done"
        /\ UNCHANGED <<command, server, handler, frame, reply, job, asked, verdict>>
    BY DEF ProxyInv, Returns, Tells
  <1>2. ServerRefused \/ AnsweredAtOnce
    BY <1>1 DEF ProxyInv, JobStarted
  <1>3. Method' = Method /\ Direct' = Direct
    BY <1>1 DEF Method, Direct
  <1>4. /\ told'.by = reply.by /\ told'.class = reply.class /\ told'.reason = reply.reason
        /\ told'.unwritten = failures
        /\ told'.report = IF reply.class = "ok" \/ Method \in ShowsPartial THEN reply.report ELSE {}
    BY DEF Returns, Tells
  <1>5. CASE ServerRefused
    <2>1. told'.by = "server" /\ asked' = <<>>
      BY <1>1, <1>4, <1>5 DEF ServerRefused
    <2>2. ToldTheVerdict'
      BY <2>1 DEF ToldTheVerdict
    <2> QED BY <1>1, <1>3, <1>5, <2>1, <2>2 DEF ProxyInv, AskedAsMeant, ServerRefused, NoJob, Method
  <1>6. CASE AnsweredAtOnce
    <2>1. told'.by = "library" /\ Len(asked') = 1
      BY <1>1, <1>4, <1>6, AppendToNone DEF AnsweredAtOnce
    <2>2. told'.unwritten = verdict'.unwritten
      BY <1>1, <1>4, <1>6 DEF AnsweredAtOnce
    <2>3. ToldTheVerdict'
      BY <1>1, <1>3, <1>4, <1>6, <2>1, <2>2 DEF ToldTheVerdict, AnsweredAtOnce
    <2>4. AnsweredAtOnce' /\ job'.state # "running"
      BY <1>1, <1>3, <1>6 DEF AnsweredAtOnce, NoJob
    <2> QED BY <1>1, <1>3, <2>3, <2>4 DEF ProxyInv, AskedAsMeant, Method
  <1> QED BY <1>2, <1>5, <1>6

-----------------------------------------------------------------------------
LEMMA ProxiedInitInv == ProxiedInit => ProxyInv
  BY DEF ProxiedInit, ProxyInv, AskedAsMeant, ToldTheVerdict, NotTold, NoReply, NoJob

LEMMA TellsSays ==
  ASSUME NEW by, NEW class, NEW reason, NEW unwritten, NEW report, Tells(by, class, reason, unwritten, report)
  PROVE  phase' = "done" /\ told'.by = by
  BY DEF Tells

\* The client's half before an answer.
LEMMA OpenInv ==
  ASSUME ProxyInv, OpenMutator \/ OpenRefused
  PROVE  ProxyInv'
  <1>1. CASE OpenRefused
    BY <1>1, LostInv DEF OpenRefused, TellsError
  <1>2. CASE OpenMutator
    <2>1. handler = "none" /\ asked = <<>> /\ told = NotTold /\ job = NoJob
      BY <1>2 DEF OpenMutator, ProxyInv
    <2>2. /\ UNCHANGED <<command, server, handler, frame, reply, job, asked, verdict>>
          /\ \/ phase' \in {"direct", "dialed"} /\ UNCHANGED told
             \/ TellsError("server", "invalid")
      BY <1>2 DEF OpenMutator
    <2>3. TellsError("server", "invalid") => phase' = "done" /\ told'.by = "server"
      BY TellsSays DEF TellsError
    <2>4. AskedAsMeant' /\ ToldTheVerdict'
      BY <2>1, <2>2, <2>3 DEF AskedAsMeant, ToldTheVerdict, NotTold
    <2> QED BY <2>1, <2>2, <2>3, <2>4 DEF ProxyInv, NoJob
  <1> QED BY <1>1, <1>2

LEMMA SendsInv ==
  ASSUME ProxyInv, NEW methods, NEW wire, Sends(methods, wire), wire = OnWire
  PROVE  ProxyInv'
  <1>1. /\ asked = <<>> /\ told = NotTold /\ reply = NoReply /\ job = NoJob
        /\ phase' = "sent" /\ handler' = "frame" /\ frame' = OnWire'
        /\ UNCHANGED <<command, server, reply, job, asked, verdict, told>>
    BY DEF ProxyInv, Sends, OnWire, Method
  <1>2. AskedAsMeant' /\ ToldTheVerdict'
    BY <1>1 DEF AskedAsMeant, ToldTheVerdict, NotTold
  <1> QED BY <1>1, <1>2 DEF ProxyInv, NotTold, NoJob

LEMMA SendInv ==
  ASSUME ProxyInv,
         \/ SendEdit \/ SendArt \/ SendEntity \/ SendAdmin \/ SendPlay \/ SendPlaylist \/ SendPodcast
         \/ SubmitJob
  PROVE  ProxyInv'
  <1>1. CASE SendArt
    <2>1. ArtWire(Method, command.opts) = OnWire
      BY <1>1 DEF SendArt, Sends, OnWire
    <2> QED BY <1>1, <2>1, SendsInv DEF SendArt
  <1>2. CASE SendPlay
    <2>1. PlayWire(command.opts) = OnWire
      BY <1>2, PlayApart DEF SendPlay, Sends, OnWire
    <2> QED BY <1>2, <2>1, SendsInv DEF SendPlay
  <1>3. CASE SendPlaylist
    <2>1. PlaylistWire(command.opts) = OnWire
      BY <1>3, PlaylistApart DEF SendPlaylist, Sends, OnWire
    <2> QED BY <1>3, <2>1, SendsInv DEF SendPlaylist
  <1>4. CASE SendEdit \/ SendEntity \/ SendAdmin \/ SendPodcast \/ SubmitJob
    <2>1. Method \notin ArtMethods \cup PlayMethods \cup PlaylistMethods
      BY <1>4, ArtApart, PlayApart, PlaylistApart
      DEF SendEdit, SendEntity, SendAdmin, SendPodcast, SubmitJob, Sends
    <2>2. command.opts = OnWire
      BY <2>1 DEF OnWire
    <2> QED BY <1>4, <2>2, SendsInv DEF SendEdit, SendEntity, SendAdmin, SendPodcast, SubmitJob
  <1> QED BY <1>1, <1>2, <1>3, <1>4

LEMMA RunDirectInv ==
  ASSUME ProxyInv, RunDirect
  PROVE  ProxyInv'
  <1>1. asked = <<>> /\ handler = "none" /\ job = NoJob /\ reply = NoReply
        /\ UNCHANGED <<command, server, handler, frame, reply, job>> /\ phase' = "done"
    BY DEF ProxyInv, RunDirect, Tells
  <1>2. asked' = <<[method |-> Method, opts |-> Meant(command.opts)]>>
    BY <1>1, AppendToNone DEF RunDirect
  <1>3. Len(asked') = 1
    BY <1>2, AppendToNone
  <1>4. PICK v : verdict' = v /\ Tells("library", v.class, v.reason, v.unwritten, v.report)
    BY DEF RunDirect
  <1>5. /\ told'.by = "library" /\ told'.class = v.class /\ told'.reason = v.reason /\ told'.unwritten = v.unwritten
        /\ told'.report = IF v.class = "ok" \/ Method \in ShowsPartial THEN v.report ELSE {}
    BY <1>4 DEF Tells
  <1>6. AskedAsMeant'
    BY <1>1, <1>2 DEF AskedAsMeant, Method
  <1>7. ToldTheVerdict'
    BY <1>1, <1>3, <1>4, <1>5 DEF ToldTheVerdict, Method
  <1> QED BY <1>1, <1>6, <1>7 DEF ProxyInv, NoJob

\* The server's half.
LEMMA MaintenanceInv ==
  ASSUME ProxyInv, Pause \/ Resume \/ ServerDies
  PROVE  ProxyInv'
  <1>1. /\ UNCHANGED <<command, phase, frame, reply, job, asked, verdict, told>>
        /\ handler' = handler \/ (handler = "frame" /\ handler' = "dropped")
    BY DEF Pause, Resume, ServerDies
  <1>2. AskedAsMeant' /\ ToldTheVerdict'
    BY <1>1 DEF ProxyInv, AskedAsMeant, ToldTheVerdict, Method
  <1>3. OnWire' = OnWire /\ ServerRefused' = ServerRefused /\ AnsweredAtOnce' = AnsweredAtOnce
        /\ JobStarted' = JobStarted
    BY <1>1 DEF OnWire, ServerRefused, AnsweredAtOnce, JobStarted, RowTells, Direct, Method
  <1> QED BY <1>1, <1>2, <1>3 DEF ProxyInv

LEMMA ServeInv ==
  ASSUME ProxyInv,
         \/ DispatchPaused \/ ServeEdit \/ ServeArt \/ ServeEntity \/ ServeAdmin \/ ServePlay
         \/ ServePlaylist \/ ServePodcast
  PROVE  ProxyInv'
  <1>1. handler = "frame" /\ frame = OnWire /\ command \in Commands
    BY DEF ProxyInv, DispatchPaused, ServeEdit, ServeArt, ServeEntity, ServeAdmin, ServePlay,
           ServePlaylist, ServePodcast, Dispatches
  <1>2. CASE DispatchPaused
    BY <1>2, RefusesInv DEF DispatchPaused
  <1>3. CASE ServeArt
    <2>1. Method \in ArtMethods /\ UNCHANGED <<command, server, phase, frame, told, job>>
      BY <1>3 DEF ServeArt, Dispatches
    <2>2. ParseArtRole(frame) = Meant(command.opts)
      BY <1>1, <2>1, ArtCarried DEF OnWire
    <2> QED BY <1>1, <1>3, <2>1, <2>2, ArtApart, AsksInv, RefusesInv DEF ServeArt
  <1>4. CASE ServePlay
    <2>1. Method \in PlayMethods /\ UNCHANGED <<command, server, phase, frame, told, job>>
      BY <1>4 DEF ServePlay, Dispatches
    <2>2. PlayRead(frame) = Meant(command.opts)
      BY <1>1, <2>1, PlayApart, PlayCarried, PlainCarried DEF OnWire
    <2> QED BY <1>1, <1>4, <2>1, <2>2, PlayApart, AsksInv DEF ServePlay
  <1>5. CASE ServePlaylist
    <2>1. Method \in PlaylistMethods /\ UNCHANGED <<command, server, phase, frame, told, job>>
      BY <1>5 DEF ServePlaylist, Dispatches
    <2>2. PlaylistRead(frame) = Meant(command.opts)
      BY <1>1, <2>1, PlaylistApart, PlaylistCarried, PlainCarried DEF OnWire
    <2> QED BY <1>1, <1>5, <2>1, <2>2, PlaylistApart, AsksInv DEF ServePlaylist
  <1>6. CASE ServeEdit \/ ServeEntity \/ ServeAdmin \/ ServePodcast
    <2>1. /\ Method \in EditMethods \cup EntityMethods \cup AdminMethods \cup PodcastMethods
          /\ UNCHANGED <<command, server, phase, frame, told, job>>
      BY <1>6 DEF ServeEdit, ServeEntity, ServeAdmin, ServePodcast, Dispatches
    <2>2. Method \notin ArtMethods \cup PlayMethods \cup PlaylistMethods \cup JobMethods
      BY <2>1, ArtApart, PlayApart, PlaylistApart, JobApart
    <2>3. frame = Meant(command.opts)
      BY <1>1, <2>2, PlainCarried DEF OnWire
    <2>4. Refuses("invalid") \/ Asks(frame, {}) \/ Asks(frame, {"own"})
      BY <1>6 DEF ServeEdit, ServeEntity, ServeAdmin, ServePodcast
    <2> QED BY <1>1, <2>1, <2>2, <2>3, <2>4, AsksInv, RefusesInv
  <1> QED BY <1>2, <1>3, <1>4, <1>5, <1>6

\* A request for a job is refused at once, or its row tells how the job ended.
LEMMA ServeJobInv ==
  ASSUME ProxyInv, ServeJob
  PROVE  ProxyInv'
  <1>1. /\ handler = "frame" /\ asked = <<>> /\ job = NoJob /\ told.by \notin {"library", "server"}
        /\ Method \in JobMethods /\ handler' = "answered"
        /\ UNCHANGED <<command, server, phase, frame, told>>
    BY DEF ProxyInv, ServeJob, Dispatches, Responds
  <1>2. Method' = Method /\ Direct' = Direct
    BY <1>1 DEF Method, Direct
  <1>3. frame = Meant(command.opts)
    BY <1>1, JobApart, PlainCarried DEF ProxyInv, OnWire
  <1>4. asked' = <<Direct>>
    BY <1>1, <1>3, AppendToNone DEF ServeJob, Direct
  <1>5. (AnsweredAtOnce \/ JobStarted)'
    <2>1. CASE \E r \in Refusals : /\ verdict' = Verdict(r[1], r[2], FALSE, {})
                                   /\ Responds("library", r[1], r[2], FALSE, {}) /\ UNCHANGED job
      <3>1. PICK r \in Refusals : /\ verdict' = Verdict(r[1], r[2], FALSE, {})
                                  /\ Responds("library", r[1], r[2], FALSE, {}) /\ UNCHANGED job
        BY <2>1
      <3>2. r[1] # "ok"
        BY ProxiedAssumption
      <3>3. /\ reply'.by = "library" /\ ~reply'.ok /\ reply'.class = verdict'.class
            /\ reply'.reason = verdict'.reason /\ reply'.failures = FALSE /\ verdict'.unwritten = FALSE
            /\ reply'.report = {} /\ verdict'.report = {}
        BY <3>1, <3>2 DEF Responds, Verdict
      <3> QED BY <1>1, <1>2, <1>4, <3>1, <3>3 DEF AnsweredAtOnce
    <2>2. CASE job' = [state |-> "running"] /\ Responds("library", "ok", "", FALSE, {})
      BY <1>1, <1>2, <1>4, <2>2 DEF JobStarted, Responds
    <2> QED BY <2>1, <2>2 DEF ServeJob
  <1>6. AskedAsMeant' /\ ToldTheVerdict'
    BY <1>1, <1>2, <1>4 DEF AskedAsMeant, ToldTheVerdict, Direct
  <1>7. phase \notin {"new", "direct", "dialed", "tailing"}
    BY <1>1 DEF ProxyInv
  <1> QED BY <1>1, <1>5, <1>6, <1>7 DEF ProxyInv

LEMMA RowInv ==
  ASSUME ProxyInv, JobEnds \/ ReclaimJob
  PROVE  ProxyInv'
  <1>1. /\ job.state = "running" /\ told.by # "library"
        /\ UNCHANGED <<command, phase, handler, frame, reply, asked, told>>
    BY DEF ProxyInv, JobEnds, ReclaimJob
  <1>2. handler = "answered" /\ JobStarted
    BY <1>1 DEF ProxyInv, NoJob, ServerRefused, AnsweredAtOnce
  <1>3. Method' = Method /\ Direct' = Direct
    BY <1>1 DEF Method, Direct
  <1>4. \/ job'.state = "crashed"
        \/ job'.state \in {"done", "failed", "canceled"} /\ RowTells'
    <2>1. CASE ReclaimJob
      BY <2>1 DEF ReclaimJob
    <2>2. CASE JobEnds
      <3>1. PICK v \in Endings(Method) :
              /\ verdict' = v
              /\ job' = [state |-> CASE v.class = "ok" -> "done" [] v.class = "canceled" -> "canceled" [] OTHER -> "failed",
                         class |-> v.class, reason |-> v.reason, report |-> v.report]
        BY <2>2 DEF JobEnds
      <3>2. v.unwritten = FALSE
        BY EndingsPlain
      <3>3. job'.state \in {"done", "failed", "canceled"}
        BY <3>1
      <3> QED BY <3>1, <3>2, <3>3 DEF RowTells
    <2> QED BY <2>1, <2>2
  <1>5. JobStarted' /\ job'.state # "running"
    BY <1>1, <1>2, <1>3, <1>4 DEF JobStarted
  <1>6. AskedAsMeant' /\ ToldTheVerdict'
    BY <1>1, <1>3 DEF ProxyInv, AskedAsMeant, ToldTheVerdict, Method
  <1> QED BY <1>1, <1>2, <1>5, <1>6 DEF ProxyInv

\* The command's half of an answer.
LEMMA ReturnInv ==
  ASSUME ProxyInv,
         \/ ReturnEdit \/ ReturnArt \/ ReturnEntity \/ ReturnAdmin \/ ReturnPlay \/ ReturnPlaylist
         \/ ReturnPodcast
  PROVE  ProxyInv'
  <1>1. /\ EditMethods \cap JobMethods = {} /\ ArtMethods \cap JobMethods = {}
        /\ EntityMethods \cap JobMethods = {} /\ AdminMethods \cap JobMethods = {}
        /\ PlayMethods \cap JobMethods = {} /\ PlaylistMethods \cap JobMethods = {}
        /\ PodcastMethods \cap JobMethods = {}
    BY JobApart
  <1>2. /\ AdminMethods \cap Writing = {} /\ PodcastMethods \cap Writing = {}
        /\ PlayMethods \cap Writing = {} /\ PlaylistMethods \cap Writing = {}
    BY OthersApart, PlayApart, PlaylistApart DEF Writing
  <1>3. CASE ReturnEdit \/ ReturnArt \/ ReturnEntity
    BY <1>1, <1>3, ReturnsInv DEF ReturnEdit, ReturnArt, ReturnEntity
  <1>4. CASE ReturnAdmin \/ ReturnPlay \/ ReturnPlaylist \/ ReturnPodcast
    BY <1>1, <1>2, <1>4, ReturnsInv DEF ReturnAdmin, ReturnPlay, ReturnPlaylist, ReturnPodcast
  <1> QED BY <1>3, <1>4

LEMMA FollowJobInv ==
  ASSUME ProxyInv, FollowJob
  PROVE  ProxyInv'
  <1>1. /\ handler = "answered" /\ phase = "sent" /\ Method \in JobMethods
        /\ UNCHANGED <<command, server, handler, frame, reply, job, asked, verdict>>
    BY DEF ProxyInv, FollowJob
  <1>2. Method' = Method /\ Direct' = Direct
    BY <1>1 DEF Method, Direct
  <1>3. ServerRefused' = ServerRefused /\ AnsweredAtOnce' = AnsweredAtOnce /\ JobStarted' = JobStarted
    BY <1>1 DEF ServerRefused, AnsweredAtOnce, JobStarted, RowTells, Direct, Method
  <1>4. CASE reply.ok
    <2>1. phase' = "tailing" /\ UNCHANGED told /\ JobStarted
      BY <1>1, <1>4 DEF ProxyInv, FollowJob, ServerRefused, AnsweredAtOnce
    <2>2. AskedAsMeant' /\ ToldTheVerdict'
      BY <1>1, <2>1 DEF ProxyInv, AskedAsMeant, ToldTheVerdict, Method
    <2> QED BY <1>1, <1>3, <2>1, <2>2 DEF ProxyInv
  <1>5. CASE ~reply.ok
    <2>1. Tells(reply.by, reply.class, reply.reason, FALSE, {})
      BY <1>5 DEF FollowJob
    <2>2. /\ phase' = "done" /\ told'.by = reply.by /\ told'.class = reply.class /\ told'.reason = reply.reason
          /\ told'.unwritten = FALSE /\ told'.report = {}
      BY <2>1 DEF Tells
    <2>3. CASE ServerRefused
      <3>1. AskedAsMeant' /\ ToldTheVerdict'
        BY <1>1, <2>2, <2>3 DEF ServerRefused, AskedAsMeant, ToldTheVerdict
      <3> QED BY <1>1, <1>3, <2>2, <2>3, <3>1 DEF ProxyInv, ServerRefused, NoJob
    <2>4. CASE AnsweredAtOnce
      <3>1. told'.by = "library" /\ verdict'.unwritten = FALSE /\ verdict'.report = {}
            /\ told'.class = verdict'.class /\ told'.reason = verdict'.reason /\ Len(asked') = 1
        BY <1>1, <2>2, <2>4, JobApart, AppendToNone DEF AnsweredAtOnce, Writing
      <3>2. AskedAsMeant' /\ ToldTheVerdict'
        BY <1>1, <1>2, <2>2, <3>1 DEF ProxyInv, AskedAsMeant, ToldTheVerdict, Method
      <3> QED BY <1>1, <1>3, <2>2, <2>4, <3>2 DEF ProxyInv, AnsweredAtOnce, NoJob
    <2> QED BY <1>1, <1>5, <2>3, <2>4 DEF ProxyInv, JobStarted
  <1> QED BY <1>4, <1>5

LEMMA TailJobInv ==
  ASSUME ProxyInv, TailJob
  PROVE  ProxyInv'
  <1>1. /\ handler = "answered" /\ phase = "tailing" /\ job.state # "running" /\ JobStarted
        /\ UNCHANGED <<command, server, handler, frame, reply, job, asked, verdict>>
    BY DEF ProxyInv, TailJob
  <1>2. CASE job.state = "crashed"
    BY <1>2, LostInv DEF TailJob
  <1>3. CASE job.state # "crashed"
    <2>1. RowTells /\ asked = <<Direct>>
      BY <1>1, <1>3 DEF JobStarted
    <2>2. Tells("library", job.class, job.reason, FALSE, job.report)
      BY <1>3 DEF TailJob
    <2>3. /\ phase' = "done" /\ told'.by = "library" /\ told'.class = verdict.class
          /\ told'.reason = verdict.reason /\ told'.unwritten = verdict.unwritten
          /\ told'.report = IF verdict.class = "ok" \/ Method \in ShowsPartial THEN verdict.report ELSE {}
      BY <2>1, <2>2 DEF Tells, RowTells
    <2>4. Len(asked') = 1
      BY <1>1, <2>1, AppendToNone
    <2>5. AskedAsMeant' /\ ToldTheVerdict'
      BY <1>1, <2>3, <2>4 DEF ProxyInv, AskedAsMeant, ToldTheVerdict, Method
    <2>6. JobStarted'
      BY <1>1 DEF JobStarted, RowTells, Direct, Method
    <2> QED BY <1>1, <2>3, <2>5, <2>6 DEF ProxyInv
  <1> QED BY <1>2, <1>3

LEMMA GivesUpInv ==
  ASSUME ProxyInv, LoseServer \/ StopWaiting
  PROVE  ProxyInv'
  BY LostInv DEF LoseServer, StopWaiting, TellsError

LEMMA ProxiedStepInv == ProxyInv /\ [ProxiedNext]_proxiedVars => ProxyInv'
  <1> SUFFICES ASSUME ProxyInv, [ProxiedNext]_proxiedVars PROVE ProxyInv'
    OBVIOUS
  <1>1. CASE OpenMutator \/ OpenRefused \/ RunDirect
    BY <1>1, OpenInv, RunDirectInv
  <1>2. CASE \/ SendEdit \/ SendArt \/ SendEntity \/ SendAdmin \/ SendPlay \/ SendPlaylist \/ SendPodcast
             \/ SubmitJob
    BY <1>2, SendInv
  <1>3. CASE Pause \/ Resume \/ ServerDies
    BY <1>3, MaintenanceInv
  <1>4. CASE \/ DispatchPaused \/ ServeEdit \/ ServeArt \/ ServeEntity \/ ServeAdmin \/ ServePlay
             \/ ServePlaylist \/ ServePodcast
    BY <1>4, ServeInv
  <1>5. CASE ServeJob \/ JobEnds \/ ReclaimJob
    BY <1>5, ServeJobInv, RowInv
  <1>6. CASE \/ ReturnEdit \/ ReturnArt \/ ReturnEntity \/ ReturnAdmin \/ ReturnPlay \/ ReturnPlaylist
             \/ ReturnPodcast
    BY <1>6, ReturnInv
  <1>7. CASE FollowJob \/ TailJob \/ LoseServer \/ StopWaiting
    BY <1>7, FollowJobInv, TailJobInv, GivesUpInv
  <1>8. CASE UNCHANGED proxiedVars
    <2>1. UNCHANGED <<command, server, phase, handler, frame, reply, job, asked, verdict, told>>
      BY <1>8 DEF proxiedVars
    <2>2. AskedAsMeant' = AskedAsMeant /\ ToldTheVerdict' = ToldTheVerdict
      BY <2>1 DEF AskedAsMeant, ToldTheVerdict, Method
    <2>3. OnWire' = OnWire /\ ServerRefused' = ServerRefused /\ AnsweredAtOnce' = AnsweredAtOnce
          /\ JobStarted' = JobStarted
      BY <2>1 DEF OnWire, ServerRefused, AnsweredAtOnce, JobStarted, RowTells, Direct, Method
    <2> QED BY <2>1, <2>2, <2>3 DEF ProxyInv
  <1> QED BY <1>1, <1>2, <1>3, <1>4, <1>5, <1>6, <1>7, <1>8 DEF ProxiedNext

(***************************************************************************)
(* For any refusals of the library and any options given together: what is *)
(* on the wire is the command, what the library is asked is what it meant, *)
(* and its verdict is in the reply, in the job's row or already told       *)
(* (client.go, serve.go, serverjobs.go).                                   *)
(***************************************************************************)
THEOREM ProxyInvariance == ProxiedSpec => []ProxyInv
  <1>1. ProxiedInit => ProxyInv
    BY ProxiedInitInv
  <1>2. ProxyInv /\ [ProxiedNext]_proxiedVars => ProxyInv'
    BY ProxiedStepInv
  <1> QED BY <1>1, <1>2, PTL DEF ProxiedSpec

(***************************************************************************)
(* A command asks the library once at most for what its direct half would, *)
(* and is told of a verdict of the library's exactly what it was           *)
(* (mutator.go, joblong.go).                                               *)
(***************************************************************************)
THEOREM ProxyHoldsAlways == ProxiedSpec => []ProxyHolds
  <1>1. ProxyInv => ProxyHolds
    BY DEF ProxyInv, ProxyHolds
  <1> QED BY <1>1, ProxyInvariance, PTL

-----------------------------------------------------------------------------
(***************************************************************************)
(* The watcher, for any tree of folders, room of the queues and number of  *)
(* timers: no change whose event was read is forgotten before a rescan of  *)
(* its folder, and a watcher that does not say it is degraded watches what *)
(* it holds and no walk passed by.                                         *)
(***************************************************************************)

\* Events on their way to the worker, and what they will tell it.
Pending == Range(queue) \cup Range(kernel)
Comes(d) == \E ev \in Pending : ev[1] = "created" /\ d \in Below(ev[2])
Goes(r) == \E ev \in Pending : ev[1] \in {"removed", "renamed"} /\ ev[2] = r

\* What the variables are, and that a watch goes with its folder and a folder with the
\* one above it.
Shape ==
  /\ WatchTypeOK
  /\ lib \subseteq Root /\ roots \subseteq Root /\ heldRoots \subseteq Root
  /\ handed \in [set : BOOLEAN, roots : SUBSET Root]
  /\ loop \in [at : {"idle", "begin", "scan", "stopped"}, dirs : SUBSET Dir, again : SUBSET Dir]
  /\ watches \subseteq disk
  /\ \A d \in disk \ Root : Parent[d] \in disk

\* A change on its way lies under a root of the set the callbacks look at, and only a
\* live layer that runs has any.
Flow ==
  /\ EventsKept
  /\ noted \subseteq Reach(roots)
  /\ noted # {} => live = "on"
  /\ loop.at = "stopped" => live = "ended"
  /\ loop.at = "idle" => loop.dirs = {}

\* A folder below an armed root is watched, or an event will have it watched or its root
\* let go, or a walk passed it by, which no walk does with a root it arms.  A root that
\* went is let go when its event is handled.
SetWhole ==
  /\ \A d \in disk : RootOf(d) \in armed => d \in watches \/ Comes(d) \/ Goes(RootOf(d)) \/ PassedBy(d)
  /\ \A r \in (Root \cap armed) \ disk : Goes(r)
  /\ Root \cap armed \cap skipped = {}
Covered ==
  /\ \A ev \in Pending : ev[1] = "created" => ev[2] \notin Root
  /\ live = "on" /\ ~degraded /\ ~missed => SetWhole

\* The inductive invariant of WatchNext.
WatchInv == Shape /\ Flow /\ Covered

-----------------------------------------------------------------------------
(***************************************************************************)
(* The tree of folders.                                                    *)
(***************************************************************************)
LEMMA TreeFacts ==
  ASSUME NEW d \in Dir
  PROVE  /\ Parent[d] \in Dir /\ RootOf(d) \in Root /\ RootOf(d) \in Dir
         /\ Parent[RootOf(d)] = RootOf(d)
         /\ d \in Below(d) /\ d \in Below(Parent[d]) /\ d \in Below(RootOf(d))
         /\ Below(d) \subseteq Dir
         /\ d \in Root => Parent[d] = d /\ RootOf(d) = d
  BY WatchAssumption DEF RootOf, Below

\* What lies below a folder lies below the one above it and has its root.
LEMMA BelowFacts ==
  ASSUME NEW e \in Dir, NEW d \in Below(e)
  PROVE  /\ d \in Dir /\ RootOf(d) = RootOf(e)
         /\ d \in Below(Parent[e]) /\ d \in Below(RootOf(e))
         /\ d \in Root => e = d
  BY WatchAssumption DEF RootOf, Below

\* Below is transitive.
LEMMA BelowBelow ==
  ASSUME NEW e \in Dir, NEW d \in Below(e), NEW x \in Below(d)
  PROVE  x \in Below(e)
  BY WatchAssumption DEF Below, RootOf

\* What lies in the reach of a set of roots has its root in the set, and back.
LEMMA ReachFacts ==
  ASSUME NEW rs \in SUBSET Root
  PROVE  /\ Reach(rs) \subseteq Dir
         /\ \A d \in Dir : d \in Reach(rs) <=> RootOf(d) \in rs
  BY WatchAssumption, TreeFacts, BelowFacts DEF Reach

-----------------------------------------------------------------------------
(***************************************************************************)
(* What is in a sequence.                                                  *)
(***************************************************************************)
LEMMA SeqItems ==
  ASSUME NEW S, NEW s \in Seq(S)
  PROVE  /\ \A x : x \in Range(s) <=> \E n \in 1..Len(s) : x = s[n]
         /\ s = <<>> => Range(s) = {}
         /\ Range(s) \subseteq S
  <1>1. s \in [1..Len(s) -> S] /\ 1..Len(s) = DOMAIN s
    BY LenProperties
  <1>2. \A x : x \in Range(s) <=> \E n \in 1..Len(s) : x = s[n]
    BY <1>1 DEF Range
  <1>3. Range(s) \subseteq S
    BY <1>1, <1>2
  <1>4. s = <<>> => 1..Len(s) = {}
    OBVIOUS
  <1>5. s = <<>> => Range(s) = {}
    BY <1>2, <1>4
  <1> QED BY <1>2, <1>3, <1>5

LEMMA TailItems ==
  ASSUME NEW S, NEW s \in Seq(S), s # <<>>
  PROVE  /\ Head(s) \in S /\ Tail(s) \in Seq(S)
         /\ Range(s) = {Head(s)} \cup Range(Tail(s))
         /\ Len(s) \in Nat /\ Len(Tail(s)) = Len(s) - 1
  <1>1. /\ Head(s) \in S /\ Tail(s) \in Seq(S) /\ Len(Tail(s)) = Len(s) - 1
        /\ \A i \in 1..Len(Tail(s)) : Tail(s)[i] = s[i + 1]
    BY HeadTailProperties
  <1>2. Len(s) \in Nat \ {0} /\ Head(s) = s[1]
    BY EmptySeq
  <1>3. /\ \A x : x \in Range(s) <=> \E n \in 1..Len(s) : x = s[n]
        /\ \A x : x \in Range(Tail(s)) <=> \E n \in 1..Len(Tail(s)) : x = Tail(s)[n]
    BY <1>1, SeqItems
  <1>4. ASSUME NEW n \in 1..Len(s) PROVE s[n] \in {Head(s)} \cup Range(Tail(s))
    <2>1. CASE n = 1 BY <2>1, <1>2
    <2>2. CASE n # 1
      <3>1. n - 1 \in 1..Len(Tail(s)) /\ Tail(s)[n - 1] = s[(n - 1) + 1] /\ (n - 1) + 1 = n
        BY <2>2, <1>1, <1>2
      <3> QED BY <3>1, <1>3
    <2> QED BY <2>1, <2>2
  <1>5. ASSUME NEW n \in 1..Len(Tail(s)) PROVE Tail(s)[n] \in Range(s)
    <2>1. n + 1 \in 1..Len(s) /\ Tail(s)[n] = s[n + 1]
      BY <1>1, <1>2
    <2> QED BY <2>1, <1>3
  <1>6. Head(s) \in Range(s)
    BY <1>2, <1>3
  <1> QED BY <1>1, <1>2, <1>3, <1>4, <1>5, <1>6

LEMMA ConcatItems ==
  ASSUME NEW S, NEW s \in Seq(S), NEW t \in Seq(S)
  PROVE  s \o t \in Seq(S) /\ Range(s \o t) = Range(s) \cup Range(t)
  <1>1. /\ s \o t \in Seq(S) /\ Len(s \o t) = Len(s) + Len(t) /\ Len(s) \in Nat /\ Len(t) \in Nat
        /\ \A i \in 1..Len(s) + Len(t) : (s \o t)[i] = IF i <= Len(s) THEN s[i] ELSE t[i - Len(s)]
    BY ConcatProperties, LenProperties
  <1>2. /\ \A x : x \in Range(s) <=> \E n \in 1..Len(s) : x = s[n]
        /\ \A x : x \in Range(t) <=> \E n \in 1..Len(t) : x = t[n]
        /\ \A x : x \in Range(s \o t) <=> \E n \in 1..Len(s \o t) : x = (s \o t)[n]
    BY <1>1, SeqItems
  <1>3. ASSUME NEW n \in 1..Len(s \o t) PROVE (s \o t)[n] \in Range(s) \cup Range(t)
    <2>1. CASE n <= Len(s) BY <2>1, <1>1, <1>2
    <2>2. CASE ~(n <= Len(s))
      <3>1. n - Len(s) \in 1..Len(t) /\ (s \o t)[n] = t[n - Len(s)] BY <2>2, <1>1
      <3> QED BY <3>1, <1>2
    <2> QED BY <2>1, <2>2
  <1>4. ASSUME NEW n \in 1..Len(s) PROVE s[n] \in Range(s \o t)
    <2>1. n \in 1..Len(s \o t) /\ (s \o t)[n] = s[n] BY <1>1
    <2> QED BY <2>1, <1>2
  <1>5. ASSUME NEW n \in 1..Len(t) PROVE t[n] \in Range(s \o t)
    <2>1. n + Len(s) \in 1..Len(s \o t) /\ (s \o t)[n + Len(s)] = t[(n + Len(s)) - Len(s)] /\ (n + Len(s)) - Len(s) = n
      BY <1>1
    <2> QED BY <2>1, <1>2
  <1> QED BY <1>1, <1>2, <1>3, <1>4, <1>5

LEMMA AppendItems ==
  ASSUME NEW S, NEW s \in Seq(S), NEW e \in S
  PROVE  /\ Append(s, e) \in Seq(S) /\ Range(Append(s, e)) = Range(s) \cup {e}
         /\ Len(s) \in Nat /\ Len(Append(s, e)) = Len(s) + 1
  <1>1. /\ Append(s, e) \in Seq(S) /\ Len(Append(s, e)) = Len(s) + 1 /\ Len(s) \in Nat
        /\ \A i \in 1..Len(s) : Append(s, e)[i] = s[i]
        /\ Append(s, e)[Len(s) + 1] = e
    BY AppendProperties, LenProperties
  <1>2. \A x : x \in Range(s) <=> \E n \in 1..Len(s) : x = s[n]
    BY SeqItems
  <1>4. \A x : x \in Range(Append(s, e)) <=> \E n \in 1..Len(Append(s, e)) : x = Append(s, e)[n]
    <2>1. Append(s, e) \in Seq(S)
      BY <1>1
    <2> QED BY <2>1, SeqItems
  <1>3. 1..Len(s) + 1 = 1..Len(s) \cup {Len(s) + 1}
    BY <1>1
  <1> QED BY <1>1, <1>2, <1>3, <1>4

-----------------------------------------------------------------------------
(***************************************************************************)
(* What the parts of an action do.                                         *)
(***************************************************************************)
Heard == Event \cup {Overflow}

LEMMA EventFacts ==
  ASSUME NEW ev \in Event
  PROVE  /\ ev[2] \in Dir /\ ev[1] \in {"file", "created", "removed", "renamed"}
         /\ ev # Overflow /\ DirOf(ev) \in Dir
         /\ \A d \in Below(ev[2]) : d \in Below(DirOf(ev))
  <1>1. ev[2] \in Dir /\ ev[1] \in {"file", "created", "removed", "renamed"} /\ ev # Overflow
    BY DEF Event, Overflow
  <1>2. DirOf(ev) \in Dir
    BY <1>1, TreeFacts DEF DirOf
  <1>3. ASSUME NEW d \in Below(ev[2]) PROVE d \in Below(DirOf(ev))
    BY <1>1, BelowFacts DEF DirOf
  <1> QED BY <1>1, <1>2, <1>3

\* What is told reaches the source's queue, or the loss of it is on record.
LEMMA TellAdds ==
  ASSUME Shape, NEW evs \in Seq(Event), NEW lost \in BOOLEAN, Tell(evs, lost)
  PROVE  /\ kernel' \in Seq(Heard)
         /\ Range(kernel) \subseteq Range(kernel')
         /\ Range(kernel') \subseteq Range(kernel) \cup Range(evs) \cup {Overflow}
         /\ missed => missed'
         /\ live = "on" /\ ~missed' => \A ev \in Range(evs) : ev[1] # "file" => ev \in Range(kernel')
  <1>1. kernel \in Seq(Heard) /\ evs \in Seq(Heard)
    BY SeqMonotonic DEF Shape, WatchTypeOK, Heard
  <1>2. Overflow \in Heard /\ (evs = <<>> => Range(evs) = {})
    BY SeqItems DEF Heard
  <1>3. Append(kernel, Overflow) \in Seq(Heard) /\ Range(Append(kernel, Overflow)) = Range(kernel) \cup {Overflow}
    BY <1>1, <1>2, AppendItems
  <1>4. kernel \o evs \in Seq(Heard) /\ Range(kernel \o evs) = Range(kernel) \cup Range(evs)
    BY <1>1, ConcatItems
  <1>5. /\ kernel' = IF live # "on" \/ evs = <<>> THEN kernel
                     ELSE IF lost THEN Append(kernel, Overflow) ELSE kernel \o evs
        /\ missed' = (missed \/ (lost /\ \E ev \in Range(evs) : ev[1] # "file"))
    BY DEF Tell
  <1>6. missed => missed'
    BY <1>5
  <1>7. live = "on" /\ ~missed' => \A ev \in Range(evs) : ev[1] # "file" => ev \in Range(kernel')
    <2>1. CASE evs = <<>> BY <2>1, <1>2
    <2>2. CASE evs # <<>> /\ lost BY <2>2, <1>5
    <2>3. CASE evs # <<>> /\ ~lost BY <2>3, <1>4, <1>5
    <2> QED BY <2>1, <2>2, <2>3
  <1> HIDE DEF Heard
  <1>8. CASE live # "on" \/ evs = <<>> BY <1>8, <1>1, <1>5, <1>6, <1>7
  <1>9. CASE ~(live # "on" \/ evs = <<>>) /\ lost BY <1>9, <1>3, <1>5, <1>6, <1>7
  <1>10. CASE ~(live # "on" \/ evs = <<>>) /\ ~lost BY <1>10, <1>4, <1>5, <1>6, <1>7
  <1> QED BY <1>8, <1>9, <1>10

\* After schedule a timer is set for each folder of the set, and no folder that was
\* carried is let fall: the callbacks it supersedes are of folders of the set.
LEMMA ScheduleCarries ==
  ASSUME Shape, NEW ds \in SUBSET Dir, Schedule(ds)
  PROVE  /\ gen' \in [Dir -> Nat] /\ entry' \in [Dir -> 0..MaxTimers]
         /\ timers' \in [Timer -> [dir : Dir, gen : Nat, at : {"free", "set", "fired", "send"}]]
         /\ \A e \in ds : \A d \in Below(e) : Carried(d)'
         /\ \A d \in Dir : Carried(d) => Carried(d)'
  <1> DEFINE State == [dir : Dir, gen : Nat, at : {"free", "set", "fired", "send"}]
  <1>1. gen \in [Dir -> Nat] /\ entry \in [Dir -> 0..MaxTimers] /\ timers \in [Timer -> State]
    BY DEF Shape, WatchTypeOK
  <1>2. CASE ds = {}
    <2>1. UNCHANGED <<gen, timers, entry>>
      BY <1>2 DEF Schedule, debouncer
    <2>2. \A d \in Dir : Carried(d) => Carried(d)'
      BY <2>1 DEF Carried, Latest
    <2> QED BY <1>1, <1>2, <2>1, <2>2
  <1>3. CASE ds # {}
    <2>1. PICK new \in [ds -> Free] :
            /\ \A d, e \in ds : new[d] = new[e] => d = e
            /\ gen' = [d \in Dir |-> IF d \in ds THEN gen[d] + 1 ELSE gen[d]]
            /\ entry' = [d \in Dir |-> IF d \in ds THEN new[d] ELSE entry[d]]
            /\ timers' = [t \in Timer |->
                 IF \E d \in ds : t = new[d] THEN LET d == CHOOSE x \in ds : t = new[x] IN
                                                  [dir |-> d, gen |-> gen[d] + 1, at |-> "set"]
                 ELSE IF timers[t].at = "set" /\ timers[t].dir \in ds /\ entry[timers[t].dir] = t THEN NoTimer
                 ELSE timers[t]]
      BY <1>3 DEF Schedule
    <2>2. Free \subseteq Timer /\ Timer \subseteq 0..MaxTimers
      BY WatchAssumption DEF Free, Timer
    <2>3. \A d \in ds : new[d] \in Timer /\ timers[new[d]].at = "free"
      BY <2>2 DEF Free
    <2>4. \A d \in ds : timers'[new[d]] = [dir |-> d, gen |-> gen[d] + 1, at |-> "set"]
      <3> TAKE d \in ds
      <3>1. \A x \in ds : new[d] = new[x] => x = d
        BY <2>1
      <3>2. (CHOOSE x \in ds : new[d] = new[x]) = d
        BY <3>1
      <3> QED BY <2>1, <2>3, <3>2
    <2>5. NoTimer \in State
      BY WatchAssumption DEF NoTimer
    <2>6. \A t \in Timer : timers'[t] \in State
      <3> TAKE t \in Timer
      <3>1. CASE \E d \in ds : t = new[d]
        <4>1. PICK d \in ds : t = new[d] BY <3>1
        <4>2. d \in Dir /\ gen[d] + 1 \in Nat BY <1>1
        <4>3. timers'[t] = [dir |-> d, gen |-> gen[d] + 1, at |-> "set"] BY <4>1, <2>4
        <4> QED BY <4>2, <4>3
      <3>2. CASE ~\E d \in ds : t = new[d] BY <3>2, <1>1, <2>1, <2>5
      <3> QED BY <3>1, <3>2
    <2>7. timers' \in [Timer -> State]
      BY <2>1, <2>6
    <2>8. gen' \in [Dir -> Nat] /\ entry' \in [Dir -> 0..MaxTimers]
      <3>1. \A d \in ds : new[d] \in 0..MaxTimers BY <2>2, <2>3
      <3>2. \A d \in Dir : gen[d] + 1 \in Nat BY <1>1
      <3> QED BY <1>1, <2>1, <3>1, <3>2
    <2>9. ASSUME NEW e \in ds, NEW d \in Below(e) PROVE Carried(d)'
      <3>1. gen'[e] = gen[e] + 1
        BY <2>1
      <3>2. timers'[new[e]].dir = e /\ timers'[new[e]].gen = gen[e] + 1 /\ timers'[new[e]].at = "set"
        <4>1. timers'[new[e]] = [dir |-> e, gen |-> gen[e] + 1, at |-> "set"]
          BY <2>4, Zenon
        <4> QED BY <4>1
      <3>3. new[e] \in Timer
        BY <2>3
      <3> HIDE DEF State
      <3> QED BY <3>1, <3>2, <3>3 DEF Carried, Latest
    <2>10. ASSUME NEW d \in Dir, Carried(d) PROVE Carried(d)'
      <3>1. PICK t \in Timer :
              /\ d \in Below(timers[t].dir)
              /\ timers[t].at = "send" \/ (timers[t].at \in {"set", "fired"} /\ Latest(t))
        BY <2>10 DEF Carried
      <3>2. CASE timers[t].dir \in ds
        BY <3>1, <3>2, <2>9
      <3>3. CASE timers[t].dir \notin ds
        <4>1. timers'[t] = timers[t]
          BY <3>1, <3>3, <2>1, <2>3
        <4>2. gen'[timers[t].dir] = gen[timers[t].dir]
          BY <1>1, <2>1, <3>3
        <4> QED BY <3>1, <4>1, <4>2 DEF Carried, Latest
      <3> QED BY <3>2, <3>3
    <2> QED BY <2>7, <2>8, <2>9, <2>10
  <1> QED BY <1>2, <1>3

\* A change of the world takes nothing from the way to a rescan.
LEMMA FlowKept ==
  ASSUME Flow, noted' \subseteq noted, UNCHANGED <<queue, gen, timers, reqs, roots, live>>,
         loop'.dirs = loop.dirs, loop'.at = loop.at
  PROVE  Flow'
  BY DEF Flow, EventsKept, Carried, Latest

\* Nothing of the watched tree moves.
LEMMA CoveredKept ==
  ASSUME Covered, UNCHANGED <<disk, armed, watches, skipped, kernel, queue>>,
         live' = "on" => live = "on", degraded => degraded', missed => missed'
  PROVE  Covered'
  <1>1. Pending' = Pending
    BY DEF Pending
  <1>2. \A d \in Dir : (Comes(d)' <=> Comes(d)) /\ (Goes(d)' <=> Goes(d))
    BY <1>1 DEF Comes, Goes
  <1>3. SetWhole => SetWhole'
    BY <1>1 DEF SetWhole, Comes, Goes, PassedBy
  <1> QED BY <1>1, <1>3 DEF Covered

\* An event that waits is one of a folder, or the overflow.
LEMMA PendingFacts ==
  ASSUME Shape
  PROVE  /\ kernel \in Seq(Heard) /\ queue \in Seq(Event) /\ reqs \in Seq(Dir)
         /\ Pending \subseteq Heard
         /\ \A ev \in Pending : ev[1] # "overflow" => ev \in Event
  <1>1. kernel \in Seq(Heard) /\ queue \in Seq(Event) /\ reqs \in Seq(Dir)
    BY DEF Shape, WatchTypeOK, Heard
  <1>2. Range(kernel) \subseteq Heard /\ Range(queue) \subseteq Event
    BY <1>1, SeqItems
  <1>3. Overflow[1] = "overflow"
    BY DEF Overflow
  <1> QED BY <1>1, <1>2, <1>3 DEF Pending, Heard

LEMMA ReportItems ==
  ASSUME NEW what \in {"file", "created", "removed", "renamed"}, NEW d \in Dir
  PROVE  /\ Report(what, d) \in Seq(Event)
         /\ \A ev : ev \in Range(Report(what, d)) <=> Told(d) /\ ev = <<what, d>>
  <1>1. <<what, d>> \in Event
    BY DEF Event
  <1>2. CASE Told(d)
    <2> DEFINE ev == <<what, d>>
    <2> HIDE DEF ev
    <2>1. <<ev>> \in Seq({ev}) /\ Len(<<ev>>) = 1 /\ <<ev>>[1] = ev
      OBVIOUS
    <2>2. \A x : x \in Range(<<ev>>) <=> x = ev
      <3>1. \A x : x \in Range(<<ev>>) <=> \E n \in 1..Len(<<ev>>) : x = <<ev>>[n]
        BY <2>1, SeqItems
      <3>2. \A n \in 1..1 : n = 1
        OBVIOUS
      <3> QED BY <2>1, <3>1, <3>2
    <2>3. <<ev>> \in Seq(Event)
      BY <1>1, <2>1 DEF ev
    <2> QED BY <1>2, <2>2, <2>3 DEF Report, ev
  <1>3. CASE ~Told(d)
    <2>1. <<>> \in Seq(Event)
      OBVIOUS
    <2>2. Range(<<>>) = {}
      BY <2>1, SeqItems
    <2> QED BY <1>3, <2>1, <2>2 DEF Report
  <1> QED BY <1>2, <1>3

LEMMA UpwardItems ==
  ASSUME NEW ds \in SUBSET Dir, NEW s \in Upward(ds), NEW what \in {"removed", "renamed"}
  PROVE  /\ EventOfEach(what, s) \in Seq(Event)
         /\ \A ev : ev \in Range(EventOfEach(what, s)) <=> \E d \in ds : ev = <<what, d>>
  <1> DEFINE evs == [n \in DOMAIN s |-> <<what, s[n]>>]
             N == Cardinality(ds)
  <1>1. N \in Nat
    BY WatchAssumption, FS_Subset, FS_CardinalityType
  <1>2. s \in [1..N -> ds] /\ Range(s) = ds
    BY DEF Upward
  <1>3. evs \in [1..N -> Event]
    BY <1>2 DEF Event
  <1>4. evs \in Seq(Event)
    BY <1>1, <1>3, SeqDef
  <1>5. \A ev : ev \in Range(evs) <=> \E n \in 1..N : ev = <<what, s[n]>>
    BY <1>2, <1>3 DEF Range
  <1>6. \A d : d \in ds <=> \E n \in 1..N : d = s[n]
    BY <1>2 DEF Range
  <1> QED BY <1>4, <1>5, <1>6 DEF EventOfEach

-----------------------------------------------------------------------------
(***************************************************************************)
(* The world.                                                              *)
(***************************************************************************)
LEMMA ChangeFileKeeps ==
  ASSUME WatchInv, NEW d \in Dir, NEW lost \in BOOLEAN, ChangeFile(d, lost)
  PROVE  WatchInv'
  <1> DEFINE evs == Report("file", d)
  <1>1. Shape /\ Flow /\ Covered /\ Changed({d}) /\ Tell(evs, lost) /\ UNCHANGED <<disk, watches, skipped>>
    BY DEF WatchInv, ChangeFile
  <1>2. evs \in Seq(Event) /\ \A ev \in Range(evs) : ev[1] = "file"
    BY ReportItems
  <1> HIDE DEF evs
  <1>3. /\ kernel' \in Seq(Heard) /\ Range(kernel) \subseteq Range(kernel')
        /\ Range(kernel') \subseteq Range(kernel) \cup Range(evs) \cup {Overflow}
        /\ missed => missed'
    BY <1>1, <1>2, TellAdds
  <1>4. /\ stale' = stale \cup {d} /\ noted' = noted \ {d}
        /\ loop' = [loop EXCEPT !.again = @ \cup ({d} \cap loop.dirs)]
        /\ UNCHANGED <<lib, roots, handed, live, armed, heldRoots, queue, gen, timers, entry, reqs, degraded>>
    BY <1>1 DEF Changed, debouncer
  <1>5. Shape'
    BY <1>1, <1>3, <1>4 DEF Shape, WatchTypeOK, Heard
  <1>6. Flow'
    <2>1. loop'.dirs = loop.dirs /\ loop'.at = loop.at
      BY <1>1, <1>4 DEF Shape
    <2> QED BY <1>1, <1>4, <2>1, FlowKept
  <1>7. Covered'
    <2>1. Pending \subseteq Pending' /\ Pending' \subseteq Pending \cup Range(evs) \cup {Overflow}
      BY <1>3, <1>4 DEF Pending
    <2>2. \A ev \in Pending' : ev[1] = "created" => ev \in Pending
      BY <1>2, <2>1 DEF Overflow
    <2>3. SetWhole => SetWhole'
      BY <1>1, <1>4, <2>1 DEF SetWhole, Comes, Goes, PassedBy
    <2> QED BY <1>1, <1>3, <1>4, <2>2, <2>3 DEF Covered
  <1> QED BY <1>5, <1>6, <1>7 DEF WatchInv

\* A new folder with an armed root was told to the source, or a folder above it waits to
\* be armed, or the root to be let go.
LEMMA CreateDirKeeps ==
  ASSUME WatchInv, NEW d \in Dir, NEW ds \in {{d}, Below(d)}, NEW lost \in BOOLEAN, CreateDir(d, ds, lost)
  PROVE  WatchInv'
  <1> DEFINE evs == Report("created", d)
  <1>1. /\ Shape /\ Flow /\ Covered /\ Changed(ds) /\ Tell(evs, lost)
        /\ disk' = disk \cup ds /\ watches' = watches /\ skipped' = skipped
        /\ d \notin disk /\ (d \in Root \/ Parent[d] \in disk)
    BY DEF WatchInv, CreateDir
  <1>2. evs \in Seq(Event) /\ \A ev : ev \in Range(evs) <=> Told(d) /\ ev = <<"created", d>>
    BY ReportItems
  <1> HIDE DEF evs
  <1>3. /\ kernel' \in Seq(Heard) /\ Range(kernel) \subseteq Range(kernel')
        /\ Range(kernel') \subseteq Range(kernel) \cup Range(evs) \cup {Overflow}
        /\ missed => missed'
        /\ live = "on" /\ ~missed' => \A ev \in Range(evs) : ev[1] # "file" => ev \in Range(kernel')
    BY <1>1, <1>2, TellAdds
  <1>4. /\ stale' = stale \cup ds /\ noted' = noted \ ds
        /\ loop' = [loop EXCEPT !.again = @ \cup (ds \cap loop.dirs)]
        /\ UNCHANGED <<lib, roots, handed, live, armed, heldRoots, queue, gen, timers, entry, reqs, degraded>>
    BY <1>1 DEF Changed, debouncer
  <1>5. /\ ds \subseteq Below(d) /\ Below(d) \subseteq Dir
        /\ \A x \in ds \ Root : Parent[x] \in disk'
    <2>1. ds \subseteq Below(d) /\ Below(d) \subseteq Dir
      BY TreeFacts
    <2>2. ASSUME NEW x \in ds \ Root PROVE Parent[x] \in disk'
      <3>1. CASE x = d BY <3>1, <1>1, <2>2
      <3>2. CASE x # d
        <4>1. ds = Below(d) /\ x \in Dir BY <2>1, <3>2
        <4>2. Parent[x] \in Below(d) BY <4>1, <3>2, WatchAssumption DEF Below, RootOf
        <4> QED BY <4>1, <4>2, <1>1
      <3> QED BY <3>1, <3>2
    <2> QED BY <2>1, <2>2
  <1>6. Shape'
    <2>1. disk' \subseteq Dir /\ stale' \subseteq Dir
      BY <1>1, <1>4, <1>5 DEF Shape, WatchTypeOK
    <2>2. \A x \in disk' \ Root : Parent[x] \in disk'
      BY <1>1, <1>5 DEF Shape
    <2> QED BY <1>1, <1>3, <1>4, <2>1, <2>2 DEF Shape, WatchTypeOK, Heard
  <1>7. Flow'
    <2>1. loop'.dirs = loop.dirs /\ loop'.at = loop.at
      BY <1>1, <1>4 DEF Shape
    <2> QED BY <1>1, <1>4, <2>1, FlowKept
  <1>8. Covered'
    <2>1. Pending \subseteq Pending' /\ Pending' \subseteq Pending \cup Range(evs) \cup {Overflow}
      BY <1>3, <1>4 DEF Pending
    <2>2. \A x \in Dir : (Comes(x) => Comes(x)') /\ (Goes(x) => Goes(x)')
      BY <2>1 DEF Comes, Goes
    <2>3. Told(d) => d \notin Root /\ Parent[d] \in watches
      BY <1>1, TreeFacts DEF Told, Shape
    <2>4. \A ev \in Pending' : ev[1] = "created" => ev[2] \notin Root
      BY <1>1, <1>2, <2>1, <2>3 DEF Covered, Overflow
    <2>5. ASSUME live = "on", ~degraded, ~missed', SetWhole PROVE SetWhole'
      <3>1. ASSUME NEW x \in disk', RootOf(x) \in armed
            PROVE  x \in watches \/ Comes(x)' \/ Goes(RootOf(x))' \/ PassedBy(x)
        <4>1. CASE x \in disk
          <5>1. x \in Dir /\ RootOf(x) \in Dir BY <4>1, <1>1, TreeFacts DEF Shape, WatchTypeOK
          <5> QED BY <4>1, <5>1, <3>1, <2>2, <2>5 DEF SetWhole
        <4>2. CASE x \in ds
          <5>1. x \in Below(d) /\ RootOf(x) = RootOf(d) /\ RootOf(d) \in Dir
            BY <4>2, <1>5, BelowFacts, TreeFacts
          <5>2. CASE d \in Root
            <6>1. RootOf(d) = d BY <5>2, TreeFacts
            <6>2. Goes(d) BY <6>1, <5>1, <5>2, <3>1, <1>1, <2>5 DEF SetWhole
            <6> QED BY <6>1, <6>2, <5>1, <2>2
          <5>3. CASE d \notin Root
            <6>1. Parent[d] \in disk /\ Parent[d] \in Dir /\ d \in Below(Parent[d])
              BY <5>3, <1>1, TreeFacts
            <6>2. RootOf(Parent[d]) = RootOf(d) /\ x \in Below(Parent[d])
              BY <6>1, <5>1, BelowFacts, BelowBelow
            <6>3. Parent[d] \in watches \/ Comes(Parent[d]) \/ Goes(RootOf(d)) \/ PassedBy(Parent[d])
              BY <6>1, <6>2, <5>1, <3>1, <2>5 DEF SetWhole
            <6>4. CASE Parent[d] \in watches
              <7>1. <<"created", d>> \in Range(kernel')
                BY <6>4, <1>2, <1>3, <2>5 DEF Told
              <7> QED BY <7>1, <5>1 DEF Comes, Pending
            <6>5. CASE Comes(Parent[d])
              <7>1. PICK ev \in Pending : ev[1] = "created" /\ Parent[d] \in Below(ev[2])
                BY <6>5 DEF Comes
              <7>2. ev \in Event BY <1>1, <7>1, PendingFacts
              <7>3. x \in Below(ev[2]) BY <7>1, <7>2, <6>2, EventFacts, BelowBelow
              <7> QED BY <7>1, <7>3, <2>1 DEF Comes
            <6>6. CASE Goes(RootOf(d)) BY <6>6, <5>1, <2>2
            <6>7. CASE PassedBy(Parent[d])
              <7>1. PICK s \in skipped : Parent[d] \in Below(s) BY <6>7 DEF PassedBy
              <7>2. s \in Dir BY <7>1, <1>1 DEF Shape, WatchTypeOK
              <7>3. x \in Below(s) BY <7>1, <7>2, <6>2, BelowBelow
              <7> QED BY <7>1, <7>3 DEF PassedBy
            <6> QED BY <6>3, <6>4, <6>5, <6>6, <6>7
          <5> QED BY <5>2, <5>3
        <4> QED BY <4>1, <4>2, <3>1, <1>1
      <3>2. ASSUME NEW r \in (Root \cap armed) \ disk' PROVE Goes(r)'
        <4>1. r \in Dir /\ r \notin disk BY <1>1, WatchAssumption
        <4> QED BY <4>1, <2>2, <2>5 DEF SetWhole
      <3>3. \A x : PassedBy(x)' <=> PassedBy(x) BY <1>1 DEF PassedBy
      <3> QED BY <3>1, <3>2, <3>3, <1>1, <1>4, <2>5 DEF SetWhole
    <2> QED BY <1>1, <1>3, <1>4, <2>4, <2>5 DEF Covered
  <1> QED BY <1>6, <1>7, <1>8 DEF WatchInv

\* A root that goes from under its watches is told to the source.
LEMMA LoseDirKeeps ==
  ASSUME WatchInv, NEW d \in Dir, NEW how \in {"removed", "renamed"}, NEW lost \in BOOLEAN,
         LoseDir(d, how, lost)
  PROVE  WatchInv'
  <1> DEFINE gone == Below(d) \cap disk
             heardOf == {x \in gone : Told(x)}
  <1>1. /\ Shape /\ Flow /\ Covered /\ Changed(gone)
        /\ disk' = disk \ gone /\ watches' = watches \ gone /\ skipped' = skipped \ gone /\ d \in gone
    BY TreeFacts DEF WatchInv, LoseDir
  <1>2. gone \subseteq Dir /\ heardOf \subseteq Dir
    BY TreeFacts
  <1>3. \E evs \in Seq(Event) : /\ Tell(evs, lost)
                                /\ \A ev \in Range(evs) : ev[1] = how
                                /\ Told(d) => <<how, d>> \in Range(evs)
    <2>1. CASE how = "removed" /\ \E s \in Upward(heardOf) : Tell(EventOfEach(how, s), lost)
      <3>1. PICK s \in Upward(heardOf) : Tell(EventOfEach(how, s), lost)
        BY <2>1
      <3> DEFINE evs == EventOfEach(how, s)
      <3>2. evs \in Seq(Event) /\ \A ev : ev \in Range(evs) <=> \E x \in heardOf : ev = <<how, x>>
        BY <1>2, UpwardItems
      <3>3. Told(d) => d \in heardOf
        BY <1>1
      <3> HIDE DEF evs
      <3>4. Tell(evs, lost)
        BY <3>1 DEF evs
      <3> QED BY <3>2, <3>3, <3>4
    <2>2. CASE how = "renamed" /\ Tell(Report(how, d), lost)
      BY <2>2, ReportItems
    <2> QED BY <2>1, <2>2 DEF LoseDir
  <1>4. PICK evs \in Seq(Event) : /\ Tell(evs, lost)
                                  /\ \A ev \in Range(evs) : ev[1] = how
                                  /\ Told(d) => <<how, d>> \in Range(evs)
    BY <1>3
  <1>5. /\ kernel' \in Seq(Heard) /\ Range(kernel) \subseteq Range(kernel')
        /\ Range(kernel') \subseteq Range(kernel) \cup Range(evs) \cup {Overflow}
        /\ missed => missed'
        /\ live = "on" /\ ~missed' => \A ev \in Range(evs) : ev[1] # "file" => ev \in Range(kernel')
    BY <1>1, <1>4, TellAdds
  <1>6. /\ stale' = stale \cup gone /\ noted' = noted \ gone
        /\ loop' = [loop EXCEPT !.again = @ \cup (gone \cap loop.dirs)]
        /\ UNCHANGED <<lib, roots, handed, live, armed, heldRoots, queue, gen, timers, entry, reqs, degraded>>
    BY <1>1 DEF Changed, debouncer
  <1>7. Shape'
    <2>1. /\ stale' \subseteq Dir /\ disk' \subseteq Dir /\ watches' \subseteq Dir /\ watches' \subseteq disk'
          /\ skipped' \subseteq Dir
      BY <1>1, <1>2, <1>6 DEF Shape, WatchTypeOK
    <2>2. ASSUME NEW x \in disk' \ Root PROVE Parent[x] \in disk'
      <3>1. x \in Dir /\ x \in disk /\ Parent[x] \in disk
        BY <1>1 DEF Shape, WatchTypeOK
      <3>2. Parent[x] \in Below(d) => x \in Below(d)
        BY <3>1, TreeFacts, BelowBelow
      <3> QED BY <3>1, <3>2, <1>1
    <2> HIDE DEF gone
    <2> QED BY <1>1, <1>5, <1>6, <2>1, <2>2 DEF Shape, WatchTypeOK, Heard
  <1>8. Flow'
    <2> HIDE DEF gone
    <2>1. loop'.dirs = loop.dirs /\ loop'.at = loop.at
      BY <1>1, <1>6 DEF Shape
    <2> QED BY <1>1, <1>6, <2>1, FlowKept
  <1>9. Covered'
    <2>1. Pending \subseteq Pending' /\ Pending' \subseteq Pending \cup Range(evs) \cup {Overflow}
      BY <1>5, <1>6 DEF Pending
    <2>2. \A x : (Comes(x) => Comes(x)') /\ (Goes(x) => Goes(x)')
      BY <2>1 DEF Comes, Goes
    <2>3. \A ev \in Pending' : ev[1] = "created" => ev[2] \notin Root
      BY <1>1, <1>4, <2>1 DEF Covered, Overflow
    <2>4. ASSUME live = "on", ~degraded, ~missed', SetWhole PROVE SetWhole'
      <3>1. ASSUME NEW x \in disk', RootOf(x) \in armed
            PROVE  x \in watches' \/ Comes(x)' \/ Goes(RootOf(x))' \/ PassedBy(x)'
        <4>1. x \in watches \/ Comes(x) \/ Goes(RootOf(x)) \/ PassedBy(x)
          BY <3>1, <1>1, <1>6, <2>4 DEF SetWhole
        <4>2. ASSUME PassedBy(x) PROVE PassedBy(x)'
          <5>1. PICK s \in skipped : x \in Below(s) BY <4>2 DEF PassedBy
          <5>2. s \in Dir /\ x \in disk /\ x \notin gone BY <5>1, <3>1, <1>1 DEF Shape, WatchTypeOK
          <5>3. s \notin gone BY <5>1, <5>2, BelowBelow
          <5> QED BY <5>1, <5>3, <1>1 DEF PassedBy
        <4> QED BY <4>1, <4>2, <3>1, <1>1, <2>2
      <3>2. ASSUME NEW r \in (Root \cap armed) \ disk' PROVE Goes(r)'
        <4>1. CASE r \notin disk BY <4>1, <2>2, <2>4 DEF SetWhole
        <4>2. CASE r \in gone
          <5>1. r = d /\ RootOf(r) = r
            BY <4>2, BelowFacts, TreeFacts
          <5>2. ~Comes(r)
            <6> SUFFICES ASSUME NEW ev \in Pending, ev[1] = "created", r \in Below(ev[2]) PROVE FALSE
              BY DEF Comes
            <6>1. ev \in Event BY <1>1, PendingFacts
            <6>2. ev[2] = r BY <6>1, EventFacts, BelowFacts
            <6> QED BY <6>2, <1>1 DEF Covered
          <5>3. r \in watches \/ Goes(r)
            <6>1. ~PassedBy(r)
              <7> SUFFICES ASSUME NEW s \in skipped, r \in Below(s) PROVE FALSE
                BY DEF PassedBy
              <7>1. s = r BY <1>1, BelowFacts DEF Shape, WatchTypeOK
              <7> QED BY <7>1, <3>2, <1>6, <2>4 DEF SetWhole
            <6> QED BY <6>1, <4>2, <5>1, <5>2, <3>2, <1>6, <2>4 DEF SetWhole
          <5>4. CASE r \in watches
            <6>1. <<how, r>> \in Range(kernel')
              BY <5>1, <5>4, <1>4, <1>5, <2>4 DEF Told
            <6> QED BY <6>1 DEF Goes, Pending
          <5> QED BY <5>3, <5>4, <2>2
        <4> QED BY <4>1, <4>2, <1>1
      <3> QED BY <3>1, <3>2, <1>1, <1>6, <2>4 DEF SetWhole
    <2> QED BY <1>1, <1>5, <1>6, <2>3, <2>4 DEF Covered
  <1> QED BY <1>7, <1>8, <1>9 DEF WatchInv

LEMMA RegisterRootsKeeps ==
  ASSUME WatchInv, NEW rs \in SUBSET Root, RegisterRoots(rs)
  PROVE  WatchInv'
  <1>1. /\ lib' = rs
        /\ UNCHANGED <<disk, stale, kernel, roots, handed, live, armed, watches, heldRoots, skipped, queue, gen,
                       timers, entry, reqs, loop, degraded, noted, missed>>
    BY DEF RegisterRoots, watchSet, debouncer
  <1>2. Shape'
    BY <1>1 DEF WatchInv, Shape, WatchTypeOK
  <1>3. Flow' /\ Covered'
    BY <1>1, FlowKept, CoveredKept DEF WatchInv
  <1> QED BY <1>2, <1>3 DEF WatchInv

-----------------------------------------------------------------------------
(***************************************************************************)
(* The watched folders.                                                    *)
(***************************************************************************)
LEMMA StartLiveKeeps ==
  ASSUME WatchInv, StartLive
  PROVE  WatchInv'
  <1>1. /\ Shape /\ Flow /\ Covered /\ live = "off" /\ loop.at # "stopped"
        /\ UNCHANGED <<disk, lib, stale, kernel, roots, handed, queue, gen, timers, entry, reqs, loop,
                       noted, missed>>
    BY DEF WatchInv, StartLive, world, debouncer
  <1>2. noted = {}
    BY <1>1 DEF Flow
  <1>3. CASE live' = "ended" /\ degraded' = TRUE /\ UNCHANGED watchSet
    <2>1. UNCHANGED <<armed, watches, heldRoots, skipped>>
      BY <1>3 DEF watchSet
    <2>2. Shape'
      BY <1>1, <2>1 DEF Shape, WatchTypeOK
    <2>3. Flow'
      BY <1>1, <1>2, <1>3 DEF Flow, EventsKept
    <2>4. Covered'
      BY <1>1, <1>3, <2>1, CoveredKept
    <2> QED BY <2>2, <2>3, <2>4 DEF WatchInv
  <1>4. CASE live' = "on" /\ heldRoots' = roots /\ AddTree(Reach(roots), {}, {})
    <2>1. PICK new \in SUBSET (Reach(roots) \cap disk) :
            /\ armed' = new /\ watches' = watches \cup new
            /\ \/ degraded' = TRUE /\ skipped' = {}
               \/ ~degraded /\ skipped' = (skipped \ Reach(roots)) \cup ((Reach(roots) \cap disk) \ watches') /\ UNCHANGED degraded
      BY <1>4 DEF AddTree
    <2>2. roots \in SUBSET Root /\ Reach(roots) \subseteq Dir
      BY <1>1, ReachFacts DEF Shape
    <2>3. Shape'
      BY <1>1, <1>4, <2>1, <2>2 DEF Shape, WatchTypeOK
    <2>4. Flow'
      BY <1>1, <1>2, <1>4 DEF Flow, EventsKept
    <2>5. Covered'
      <3>1. \A ev \in Pending' : ev[1] = "created" => ev[2] \notin Root
        BY <1>1 DEF Covered, Pending
      <3>2. ASSUME ~degraded' PROVE SetWhole'
        <4>1. skipped' = (skipped \ Reach(roots)) \cup ((Reach(roots) \cap disk) \ watches')
          BY <2>1, <3>2
        <4>2. ASSUME NEW d \in disk, RootOf(d) \in new PROVE d \in watches' \/ PassedBy(d)'
          <5>1. d \in Dir /\ RootOf(d) \in Root /\ RootOf(RootOf(d)) = RootOf(d)
            BY <1>1, TreeFacts DEF Shape, WatchTypeOK
          <5>2. RootOf(d) \in roots
            BY <4>2, <5>1, <2>2, ReachFacts
          <5>3. d \in Reach(roots) /\ d \in Below(d)
            BY <5>1, <5>2, <2>2, ReachFacts, TreeFacts
          <5> QED BY <4>1, <5>3 DEF PassedBy
        <4>3. Root \cap armed' \cap skipped' = {}
          BY <4>1, <2>1
        <4> QED BY <1>1, <2>1, <4>2, <4>3 DEF SetWhole
      <3> QED BY <3>1, <3>2 DEF Covered
    <2> QED BY <2>3, <2>4, <2>5 DEF WatchInv
  <1> QED BY <1>3, <1>4 DEF StartLive

LEMMA FollowKeeps ==
  ASSUME WatchInv, Follow
  PROVE  WatchInv'
  <1> DEFINE set == handed.roots
             gone == UNION {Dropped(r) : r \in heldRoots \ set}
             fresh == {r \in set : r \notin armed \ gone}
  <1>1. /\ Shape /\ Flow /\ Covered /\ live = "on"
        /\ AddTree(Reach(fresh \cap disk), armed \ gone, gone)
        /\ heldRoots' = set /\ handed' = NoSet
        /\ UNCHANGED <<disk, lib, stale, kernel, roots, live, queue, gen, timers, entry, reqs, loop,
                       noted, missed>>
    BY DEF WatchInv, Follow, world, debouncer
  <1>2. /\ set \in SUBSET Root /\ heldRoots \ set \in SUBSET Root /\ fresh \cap disk \in SUBSET Root
        /\ armed \subseteq Dir
    BY <1>1 DEF Shape, WatchTypeOK
  <1>3. PICK new \in SUBSET (Reach(fresh \cap disk) \cap disk) :
          /\ armed' = (armed \ gone) \cup new /\ watches' = (watches \ gone) \cup new
          /\ \/ degraded' = TRUE /\ skipped' = {}
             \/ /\ ~degraded /\ UNCHANGED degraded
                /\ skipped' = (skipped \ Reach(fresh \cap disk)) \cup ((Reach(fresh \cap disk) \cap disk) \ watches')
    BY <1>1 DEF AddTree
  <1>a. gone \subseteq armed /\ gone \subseteq Reach(heldRoots \ set) /\ (heldRoots \cap armed) \ set \subseteq gone
    <2>1. \A r \in heldRoots : r \in Dir /\ r \in Below(r)
      BY <1>1, TreeFacts, WatchAssumption DEF Shape
    <2> QED BY <2>1 DEF Dropped, Reach
  <1>4. Shape'
    <2>1. armed' \subseteq Dir /\ watches' \subseteq Dir /\ watches' \subseteq disk /\ skipped' \subseteq Dir
      BY <1>1, <1>2, <1>3, ReachFacts DEF Shape, WatchTypeOK
    <2>2. handed' \in [set : BOOLEAN, roots : SUBSET Root] /\ heldRoots' \subseteq Root
      BY <1>1, <1>2 DEF NoSet
    <2> HIDE DEF set
    <2> QED BY <1>1, <2>1, <2>2 DEF Shape, WatchTypeOK
  <1>5. Flow'
    <2> HIDE DEF set
    <2> QED BY <1>1, FlowKept
  <1>6. Covered'
    <2>1. Pending' = Pending /\ \A x : (Comes(x)' <=> Comes(x)) /\ (Goes(x)' <=> Goes(x))
      BY <1>1 DEF Pending, Comes, Goes
    <2>2. ASSUME ~degraded', SetWhole PROVE SetWhole'
      <3>1. skipped' = (skipped \ Reach(fresh \cap disk)) \cup ((Reach(fresh \cap disk) \cap disk) \ watches')
        BY <1>3, <2>2
      <3>2. ASSUME NEW d \in disk, RootOf(d) \in armed'
            PROVE  d \in watches' \/ Comes(d) \/ Goes(RootOf(d)) \/ PassedBy(d)'
        <4>1. d \in Dir /\ RootOf(d) \in Root /\ RootOf(d) \in Dir /\ RootOf(RootOf(d)) = RootOf(d)
              /\ d \in Below(d)
          BY <1>1, TreeFacts DEF Shape, WatchTypeOK
        <4>2. CASE d \in Reach(fresh \cap disk)
          <5>1. d \in watches' \/ d \in skipped'
            BY <4>2, <3>1
          <5> QED BY <5>1, <4>1 DEF PassedBy
        <4>3. CASE d \notin Reach(fresh \cap disk)
          <5>1. RootOf(d) \in armed \ gone
            <6>1. RootOf(d) \notin fresh \cap disk
              BY <4>1, <4>3, <1>2, ReachFacts
            <6>2. RootOf(d) \notin Reach(fresh \cap disk)
              BY <6>1, <4>1, <1>2, ReachFacts
            <6> QED BY <6>2, <3>2, <1>3
          <5>2. d \in watches \/ Comes(d) \/ Goes(RootOf(d)) \/ PassedBy(d)
            BY <5>1, <2>2 DEF SetWhole
          <5>3. d \notin gone
            <6>1. d \in gone => RootOf(d) \in heldRoots \ set
              BY <4>1, <1>2, <1>a, ReachFacts
            <6>2. RootOf(d) \in heldRoots \ set => RootOf(d) \in gone
              BY <5>1, <1>a
            <6> QED BY <5>1, <6>1, <6>2
          <5>4. PassedBy(d) => PassedBy(d)'
            <6> SUFFICES ASSUME NEW s \in skipped, d \in Below(s) PROVE PassedBy(d)'
              BY DEF PassedBy
            <6>1. s \in Dir /\ RootOf(d) = RootOf(s)
              BY <1>1, BelowFacts DEF Shape, WatchTypeOK
            <6>2. s \notin Reach(fresh \cap disk)
              BY <6>1, <4>1, <4>3, <1>2, ReachFacts
            <6> QED BY <6>2, <3>1 DEF PassedBy
          <5> QED BY <5>2, <5>3, <5>4, <1>3
        <4> QED BY <4>2, <4>3
      <3>3. ASSUME NEW r \in (Root \cap armed') \ disk PROVE Goes(r)
        <4>1. r \in armed
          BY <1>3, <3>3
        <4> QED BY <4>1, <3>3, <2>2 DEF SetWhole
      <3>4. ASSUME NEW r \in Root \cap armed' \cap skipped' PROVE FALSE
        <4>1. r \in Dir /\ RootOf(r) = r
          BY <3>4, TreeFacts, WatchAssumption
        <4>2. r \notin new
          BY <3>1, <3>4, <1>3
        <4>3. r \in armed \ gone
          BY <4>2, <3>4, <1>3
        <4>4. r \notin Reach(fresh \cap disk)
          BY <4>1, <4>3, <1>2, ReachFacts
        <4>5. r \in skipped
          BY <4>4, <3>1, <3>4
        <4> QED BY <4>3, <4>5, <3>4, <2>2 DEF SetWhole
      <3> QED BY <1>1, <2>1, <3>2, <3>3, <3>4 DEF SetWhole
    <2> HIDE DEF gone, fresh, set
    <2> QED BY <1>1, <1>3, <2>1, <2>2 DEF Covered
  <1> QED BY <1>4, <1>5, <1>6 DEF WatchInv

-----------------------------------------------------------------------------
(***************************************************************************)
(* The debouncer.                                                          *)
(***************************************************************************)
LEMMA FireKeeps ==
  ASSUME WatchInv, NEW t \in Timer, Fire(t)
  PROVE  WatchInv'
  <1>1. /\ Shape /\ Flow /\ Covered /\ timers[t].at = "set"
        /\ timers' = [timers EXCEPT ![t].at = "fired"]
        /\ UNCHANGED <<disk, lib, stale, kernel, roots, handed, live, armed, watches, heldRoots, skipped, queue,
                       gen, entry, reqs, loop, degraded, noted, missed>>
    BY DEF WatchInv, Fire, world, watchSet
  <1>2. timers \in [Timer -> [dir : Dir, gen : Nat, at : {"free", "set", "fired", "send"}]]
    BY <1>1 DEF Shape, WatchTypeOK
  <1>3. timers' \in [Timer -> [dir : Dir, gen : Nat, at : {"free", "set", "fired", "send"}]]
    BY <1>1, <1>2
  <1>4. \A u \in Timer : /\ timers'[u].dir = timers[u].dir /\ timers'[u].gen = timers[u].gen
                         /\ u # t => timers'[u].at = timers[u].at
    BY <1>1, <1>2
  <1>5. timers'[t].at = "fired"
    BY <1>1, <1>2
  <1>6. Shape'
    BY <1>1, <1>3 DEF Shape, WatchTypeOK
  <1>7. \A d \in Dir : Carried(d) => Carried(d)'
    BY <1>1, <1>4, <1>5 DEF Carried, Latest
  <1>8. Flow'
    BY <1>1, <1>7 DEF Flow, EventsKept, Shape, WatchTypeOK
  <1>9. Covered'
    BY <1>1, CoveredKept
  <1> QED BY <1>6, <1>8, <1>9 DEF WatchInv

\* The callback hands on what it carried, or a younger timer of the folder carries it.
LEMMA CallbackKeeps ==
  ASSUME WatchInv, NEW t \in Timer, Callback(t)
  PROVE  WatchInv'
  <1> DEFINE dir == timers[t].dir
             latest == live = "on" /\ Latest(t)
  <1>1. /\ Shape /\ Flow /\ Covered /\ timers[t].at = "fired"
        /\ gen' = IF latest THEN [gen EXCEPT ![dir] = 0] ELSE gen
        /\ entry' = IF latest THEN [entry EXCEPT ![dir] = 0] ELSE entry
        /\ timers' = [timers EXCEPT ![t] =
             IF latest /\ RootOf(dir) \in roots THEN [timers[t] EXCEPT !.at = "send"] ELSE NoTimer]
        /\ UNCHANGED <<disk, lib, stale, kernel, roots, handed, live, armed, watches, heldRoots, skipped, queue,
                       reqs, loop, degraded, noted, missed>>
    BY DEF WatchInv, Callback, world, watchSet
  <1>2. /\ timers \in [Timer -> [dir : Dir, gen : Nat, at : {"free", "set", "fired", "send"}]]
        /\ gen \in [Dir -> Nat] /\ entry \in [Dir -> 0..MaxTimers] /\ dir \in Dir
    BY <1>1 DEF Shape, WatchTypeOK
  <1>3. NoTimer \in [dir : Dir, gen : Nat, at : {"free", "set", "fired", "send"}]
    BY WatchAssumption DEF NoTimer
  <1>4. timers' \in [Timer -> [dir : Dir, gen : Nat, at : {"free", "set", "fired", "send"}]]
    <2>1. [timers[t] EXCEPT !.at = "send"] \in [dir : Dir, gen : Nat, at : {"free", "set", "fired", "send"}]
      BY <1>2
    <2> HIDE DEF latest, dir
    <2> QED BY <1>1, <1>2, <1>3, <2>1
  <1>5. gen' \in [Dir -> Nat] /\ entry' \in [Dir -> 0..MaxTimers]
    <2>1. 0 \in Nat /\ 0 \in 0..MaxTimers
      BY WatchAssumption
    <2> HIDE DEF latest, dir
    <2> QED BY <1>1, <1>2, <2>1
  <1>6. \A u \in Timer \ {t} : timers'[u] = timers[u]
    BY <1>1, <1>2
  <1>7. latest /\ RootOf(dir) \in roots => timers'[t].dir = dir /\ timers'[t].at = "send"
    BY <1>1, <1>2
  <1>8. \A d \in Dir : gen'[d] = gen[d] \/ (latest /\ d = dir)
    BY <1>1, <1>2
  <1>9. ASSUME NEW d \in noted, Carried(d) PROVE Carried(d)'
    <2>1. d \in Dir /\ live = "on" /\ RootOf(d) \in roots /\ roots \in SUBSET Root
      BY <1>1, ReachFacts DEF Flow, Shape, WatchTypeOK
    <2>2. PICK u \in Timer :
            /\ d \in Below(timers[u].dir)
            /\ timers[u].at = "send" \/ (timers[u].at \in {"set", "fired"} /\ Latest(u))
      BY <1>9 DEF Carried
    <2>3. timers[u].dir \in Dir /\ RootOf(d) = RootOf(timers[u].dir)
      BY <1>2, <2>2, BelowFacts
    <2>4. CASE latest /\ timers[u].dir = dir
      BY <2>1, <2>2, <2>3, <2>4, <1>7 DEF Carried
    <2>5. CASE u = t
      BY <2>1, <2>2, <2>4, <2>5, <1>1
    <2>6. CASE u # t /\ ~(latest /\ timers[u].dir = dir)
      BY <2>2, <2>3, <2>6, <1>6, <1>8 DEF Carried, Latest
    <2> QED BY <2>4, <2>5, <2>6
  <1> HIDE DEF latest, dir
  <1>10. Shape'
    BY <1>1, <1>4, <1>5 DEF Shape, WatchTypeOK
  <1>11. Flow'
    BY <1>1, <1>9 DEF Flow, EventsKept
  <1>12. Covered'
    BY <1>1, CoveredKept
  <1> QED BY <1>10, <1>11, <1>12 DEF WatchInv

LEMMA SendKeeps ==
  ASSUME WatchInv, NEW t \in Timer, Send(t)
  PROVE  WatchInv'
  <1>1. /\ Shape /\ Flow /\ Covered /\ timers[t].at = "send"
        /\ timers' = [timers EXCEPT ![t] = NoTimer]
        /\ UNCHANGED <<disk, lib, stale, kernel, roots, handed, live, armed, watches, heldRoots, skipped, queue,
                       gen, entry, loop, degraded, noted, missed>>
    BY DEF WatchInv, Send, world, watchSet
  <1>2. /\ timers \in [Timer -> [dir : Dir, gen : Nat, at : {"free", "set", "fired", "send"}]]
        /\ timers[t].dir \in Dir /\ reqs \in Seq(Dir) /\ Len(reqs) <= ReqBuffer
    BY <1>1 DEF Shape, WatchTypeOK
  <1>3. NoTimer \in [dir : Dir, gen : Nat, at : {"free", "set", "fired", "send"}]
    BY WatchAssumption DEF NoTimer
  <1>4. /\ timers' \in [Timer -> [dir : Dir, gen : Nat, at : {"free", "set", "fired", "send"}]]
        /\ \A u \in Timer \ {t} : timers'[u] = timers[u]
    BY <1>1, <1>2, <1>3
  <1>5. Covered'
    BY <1>1, CoveredKept
  <1>6. CASE loop.at # "stopped" /\ Len(reqs) < ReqBuffer /\ reqs' = Append(reqs, timers[t].dir)
    <2>1. /\ reqs' \in Seq(Dir) /\ Range(reqs') = Range(reqs) \cup {timers[t].dir}
          /\ Len(reqs') = Len(reqs) + 1 /\ Len(reqs) \in Nat
      BY <1>2, <1>6, AppendItems
    <2>2. Shape'
      <3>1. Len(reqs') <= ReqBuffer
        BY <1>6, <2>1, WatchAssumption
      <3> QED BY <1>1, <1>4, <2>1, <3>1 DEF Shape, WatchTypeOK
    <2>3. ASSUME NEW d \in noted, Carried(d) PROVE Carried(d)' \/ \E r \in Range(reqs') : d \in Below(r)
      <3>1. PICK u \in Timer :
              /\ d \in Below(timers[u].dir)
              /\ timers[u].at = "send" \/ (timers[u].at \in {"set", "fired"} /\ Latest(u))
        BY <2>3 DEF Carried
      <3>2. CASE u = t BY <3>1, <3>2, <2>1
      <3>3. CASE u # t BY <3>1, <3>3, <1>1, <1>4 DEF Carried, Latest
      <3> QED BY <3>2, <3>3
    <2>4. Flow'
      BY <1>1, <2>1, <2>3 DEF Flow, EventsKept
    <2> QED BY <1>5, <2>2, <2>4 DEF WatchInv
  <1>7. CASE loop.at = "stopped" /\ UNCHANGED reqs
    <2>1. Shape'
      BY <1>1, <1>4, <1>7 DEF Shape, WatchTypeOK
    <2>2. noted = {}
      BY <1>1, <1>7 DEF Flow
    <2>3. Flow'
      BY <1>1, <2>2 DEF Flow, EventsKept
    <2> QED BY <1>5, <2>1, <2>3 DEF WatchInv
  <1> QED BY <1>6, <1>7 DEF Send

-----------------------------------------------------------------------------
(***************************************************************************)
(* The read loop and the worker.                                           *)
(***************************************************************************)
\* What settle does to the debouncer and to the watched folders.
LEMMA SettleDoes ==
  ASSUME Shape, NEW ev \in Event, Settle(ev)
  PROVE  /\ gen' \in [Dir -> Nat] /\ entry' \in [Dir -> 0..MaxTimers]
         /\ timers' \in [Timer -> [dir : Dir, gen : Nat, at : {"free", "set", "fired", "send"}]]
         /\ \A d \in Dir : d \in Below(ev[2]) \/ Carried(d) => Carried(d)'
         /\ armed' \subseteq armed /\ watches' \subseteq watches
         /\ armed' = (IF Gone(ev) THEN armed \ Dropped(ev[2]) ELSE armed)
         /\ watches' = (IF Gone(ev) THEN watches \ Dropped(ev[2]) ELSE watches)
  <1>1. Schedule(Rescans(ev)) /\ Rescans(ev) \in SUBSET Dir
    BY EventFacts DEF Settle, Rescans
  <1>2. /\ gen' \in [Dir -> Nat] /\ entry' \in [Dir -> 0..MaxTimers]
        /\ timers' \in [Timer -> [dir : Dir, gen : Nat, at : {"free", "set", "fired", "send"}]]
        /\ \A e \in Rescans(ev) : \A d \in Below(e) : Carried(d)'
        /\ \A d \in Dir : Carried(d) => Carried(d)'
    BY <1>1, ScheduleCarries
  <1>3. ASSUME NEW d \in Below(ev[2]) PROVE Carried(d)'
    <2>1. CASE Rescans(ev) = {ev[2]} BY <2>1, <1>2
    <2>2. CASE Rescans(ev) = {DirOf(ev)} BY <2>2, <1>2, EventFacts
    <2> QED BY <2>1, <2>2 DEF Rescans
  <1> QED BY <1>2, <1>3 DEF Settle

LEMMA ReadEventKeeps ==
  ASSUME WatchInv, ReadEvent
  PROVE  WatchInv'
  <1> DEFINE ev == Head(kernel)
  <1>1. /\ Shape /\ Flow /\ Covered /\ live = "on" /\ kernel # <<>> /\ ev # Overflow
        /\ kernel' = Tail(kernel)
        /\ UNCHANGED <<disk, lib, stale, roots, handed, live, heldRoots, skipped, reqs, loop, degraded>>
    BY DEF WatchInv, ReadEvent, world
  <1>2. /\ kernel \in Seq(Heard) /\ queue \in Seq(Event) /\ roots \in SUBSET Root
        /\ stale \subseteq Dir /\ noted \subseteq Dir
    BY <1>1, PendingFacts DEF Shape, WatchTypeOK
  <1>3. /\ ev \in Event /\ kernel' \in Seq(Heard) /\ Range(kernel) = {ev} \cup Range(kernel')
    BY <1>1, <1>2, TailItems DEF Heard
  <1>4. CASE /\ RootOf(ev[2]) \notin roots /\ missed' = (missed \/ ev[1] # "file")
             /\ UNCHANGED <<queue, armed, watches, debouncer, noted>>
    <2>1. UNCHANGED <<queue, armed, watches, gen, timers, entry, noted>>
      BY <1>4 DEF debouncer
    <2>2. Shape'
      BY <1>1, <1>3, <2>1 DEF Shape, WatchTypeOK, Heard
    <2>3. Flow'
      BY <1>1, <2>1, FlowKept
    <2>4. Covered'
      <3>1. Pending = {ev} \cup Pending'
        BY <1>3, <2>1 DEF Pending
      <3>2. ASSUME ev[1] = "file", SetWhole PROVE SetWhole'
        <4>1. \A x : (Comes(x) => Comes(x)') /\ (Goes(x) => Goes(x)')
          BY <3>1, <3>2 DEF Comes, Goes
        <4> QED BY <1>1, <2>1, <3>2, <4>1 DEF SetWhole, PassedBy
      <3> HIDE DEF ev
      <3> QED BY <1>1, <1>4, <3>1, <3>2 DEF Covered
    <2> QED BY <2>2, <2>3, <2>4 DEF WatchInv
  <1>5. CASE RootOf(ev[2]) \in roots
    <2> DEFINE more == {d \in stale \cap Below(ev[2]) : \A n \in 2..Len(kernel) :
                          kernel[n] # Overflow /\ d \notin Below(kernel[n][2])}
    <2>1. /\ noted' = noted \cup more /\ more \subseteq Below(ev[2]) /\ more \subseteq Dir
          /\ \/ Len(queue) < EventBuffer /\ queue' = Append(queue, ev) /\ UNCHANGED <<armed, watches, debouncer, missed>>
             \/ Overloaded(ev) /\ UNCHANGED queue
      BY <1>2, <1>5 DEF ReadEvent
    <2> HIDE DEF more
    <2>2. noted' \subseteq Reach(roots)
      <3>1. \A d \in more : RootOf(d) = RootOf(ev[2])
        BY <1>3, <2>1, EventFacts, BelowFacts
      <3> QED BY <1>1, <1>2, <1>5, <2>1, <3>1, ReachFacts DEF Flow
    <2>3. CASE Len(queue) < EventBuffer /\ queue' = Append(queue, ev) /\ UNCHANGED <<armed, watches, debouncer, missed>>
      <3>1. UNCHANGED <<armed, watches, gen, timers, entry, missed>>
        BY <2>3 DEF debouncer
      <3>2. /\ queue' \in Seq(Event) /\ Range(queue') = Range(queue) \cup {ev}
            /\ Len(queue) \in Nat /\ Len(queue') = Len(queue) + 1
        BY <1>2, <1>3, <2>3, AppendItems
      <3>3. Shape'
        <4>1. Len(queue') <= EventBuffer
          BY <2>3, <3>2, WatchAssumption
        <4> QED BY <1>1, <1>2, <1>3, <2>1, <3>1, <3>2, <4>1 DEF Shape, WatchTypeOK, Heard
      <3>4. Flow'
        <4>1. \A d : Carried(d) => Carried(d)'
          BY <3>1 DEF Carried, Latest
        <4> QED BY <1>1, <2>1, <2>2, <3>1, <3>2, <4>1 DEF Flow, EventsKept
      <3>5. Covered'
        <4>1. Pending' = Pending
          BY <1>3, <3>2 DEF Pending
        <4> QED BY <1>1, <3>1, <4>1 DEF Covered, SetWhole, Comes, Goes, PassedBy
      <3> QED BY <3>3, <3>4, <3>5 DEF WatchInv
    <2>4. CASE Overloaded(ev) /\ UNCHANGED queue
      <3>1. Settle(ev) /\ missed' = (missed \/ ev[1] # "file")
        BY <2>4 DEF Overloaded
      <3>2. /\ gen' \in [Dir -> Nat] /\ entry' \in [Dir -> 0..MaxTimers]
            /\ timers' \in [Timer -> [dir : Dir, gen : Nat, at : {"free", "set", "fired", "send"}]]
            /\ \A d \in Dir : d \in Below(ev[2]) \/ Carried(d) => Carried(d)'
            /\ armed' \subseteq armed /\ watches' \subseteq watches
            /\ ev[1] = "file" => armed' = armed /\ watches' = watches
        BY <1>1, <1>3, <3>1, SettleDoes DEF Gone
      <3> HIDE DEF ev
      <3>3. Shape'
        BY <1>1, <1>2, <1>3, <2>1, <2>4, <3>2 DEF Shape, WatchTypeOK, Heard
      <3>4. Flow'
        BY <1>1, <1>2, <2>1, <2>2, <2>4, <3>2 DEF Flow, EventsKept
      <3>5. Covered'
        <4>1. Pending = {ev} \cup Pending'
          BY <1>3, <2>4 DEF Pending
        <4>2. ASSUME ev[1] = "file", SetWhole PROVE SetWhole'
          <5>1. \A x : (Comes(x) => Comes(x)') /\ (Goes(x) => Goes(x)')
            BY <4>1, <4>2 DEF Comes, Goes
          <5> QED BY <1>1, <3>2, <4>2, <5>1 DEF SetWhole, PassedBy
        <4> QED BY <1>1, <3>1, <4>1, <4>2 DEF Covered
      <3> QED BY <3>3, <3>4, <3>5 DEF WatchInv
    <2> QED BY <2>1, <2>3, <2>4
  <1> QED BY <1>4, <1>5 DEF ReadEvent

LEMMA ReadOverflowKeeps ==
  ASSUME WatchInv, ReadOverflow
  PROVE  WatchInv'
  <1> DEFINE more == {d \in stale \cap Reach(roots) : \A n \in 2..Len(kernel) :
                        kernel[n] # Overflow /\ d \notin Below(kernel[n][2])}
  <1>1. /\ Shape /\ Flow /\ Covered /\ live = "on" /\ kernel # <<>> /\ Head(kernel) = Overflow
        /\ kernel' = Tail(kernel) /\ Schedule(roots) /\ noted' = noted \cup more
        /\ UNCHANGED <<disk, lib, stale, roots, handed, live, armed, watches, heldRoots, skipped, queue, reqs, loop,
                       degraded, missed>>
    BY DEF WatchInv, ReadOverflow, world, watchSet
  <1>2. more \subseteq Reach(roots)
    OBVIOUS
  <1> HIDE DEF more
  <1>3. /\ kernel \in Seq(Heard) /\ roots \in SUBSET Root /\ roots \in SUBSET Dir /\ noted \subseteq Dir
    BY <1>1, PendingFacts, WatchAssumption DEF Shape, WatchTypeOK
  <1>4. /\ kernel' \in Seq(Heard) /\ Range(kernel) = {Overflow} \cup Range(kernel')
    BY <1>1, <1>3, TailItems
  <1>5. /\ gen' \in [Dir -> Nat] /\ entry' \in [Dir -> 0..MaxTimers]
        /\ timers' \in [Timer -> [dir : Dir, gen : Nat, at : {"free", "set", "fired", "send"}]]
        /\ \A e \in roots : \A d \in Below(e) : Carried(d)'
        /\ \A d \in Dir : Carried(d) => Carried(d)'
    BY <1>1, <1>3, ScheduleCarries
  <1>6. noted' \subseteq Dir /\ noted' \subseteq Reach(roots)
    BY <1>1, <1>2, <1>3, ReachFacts DEF Flow
  <1>7. Shape'
    BY <1>1, <1>4, <1>5, <1>6 DEF Shape, WatchTypeOK, Heard
  <1>8. Flow'
    <2>1. \A d \in more : Carried(d)'
      BY <1>2, <1>5 DEF Reach
    <2> QED BY <1>1, <1>3, <1>5, <1>6, <2>1 DEF Flow, EventsKept
  <1>9. Covered'
    <2>1. Pending = {Overflow} \cup Pending'
      BY <1>1, <1>4 DEF Pending
    <2>2. \A x : (Comes(x) => Comes(x)') /\ (Goes(x) => Goes(x)')
      BY <2>1 DEF Comes, Goes, Overflow
    <2> QED BY <1>1, <2>1, <2>2 DEF Covered, SetWhole, PassedBy
  <1> QED BY <1>7, <1>8, <1>9 DEF WatchInv

\* A folder that stands has those above it standing.
LEMMA StandsBelow ==
  ASSUME Shape, NEW e \in Dir \ Root, NEW d \in disk, d \in Below(e)
  PROVE  e \in disk
  <1>1. d \in Dir /\ (d \notin Root => Parent[d] \in disk)
    BY DEF Shape, WatchTypeOK
  <1>2. RootOf(d) \in Root /\ (d \in Root => Parent[d] = d)
    BY <1>1, TreeFacts
  <1> QED BY <1>1, <1>2 DEF Below

\* The event's folders are armed or let go, and what it would have told of is watched, or
\* told of again behind it, or it was overtaken.
LEMMA HandleEventKeeps ==
  ASSUME WatchInv, HandleEvent
  PROVE  WatchInv'
  <1> DEFINE ev == Head(queue)
  <1>1. /\ Shape /\ Flow /\ Covered /\ live = "on" /\ queue # <<>>
        /\ queue' = Tail(queue)
        /\ UNCHANGED <<disk, lib, stale, kernel, roots, handed, live, heldRoots, reqs, loop, noted>>
    BY DEF WatchInv, HandleEvent, world
  <1>2. queue \in Seq(Event) /\ Len(queue) <= EventBuffer /\ noted \subseteq Dir /\ armed \subseteq Dir
    BY <1>1 DEF Shape, WatchTypeOK
  <1>3. /\ ev \in Event /\ queue' \in Seq(Event) /\ Range(queue) = {ev} \cup Range(queue')
        /\ Len(queue) \in Nat /\ Len(queue') = Len(queue) - 1
    BY <1>1, <1>2, TailItems
  <1>4. Len(queue') <= EventBuffer
    BY <1>2, <1>3, WatchAssumption
  <1>5. Pending = {ev} \cup Pending' /\ ev \in Pending
    BY <1>1, <1>3 DEF Pending
  <1>6. ev[2] \in Dir /\ (ev[1] = "created" => ev[2] \notin Root)
    BY <1>1, <1>3, <1>5, EventFacts DEF Covered
  <1>7. ASSUME /\ gen' \in [Dir -> Nat] /\ entry' \in [Dir -> 0..MaxTimers]
               /\ timers' \in [Timer -> [dir : Dir, gen : Nat, at : {"free", "set", "fired", "send"}]]
               /\ \A d \in Dir : d \in Below(ev[2]) \/ Carried(d) => Carried(d)'
               /\ armed' \subseteq Dir /\ watches' \subseteq disk /\ skipped' \subseteq Dir
        PROVE  Shape' /\ Flow'
    <2> HIDE DEF ev
    <2>1. Shape'
      BY <1>1, <1>3, <1>4, <1>7 DEF Shape, WatchTypeOK, Heard
    <2>2. Flow'
      BY <1>1, <1>2, <1>3, <1>7 DEF Flow, EventsKept
    <2> QED BY <2>1, <2>2
  <1>8. CASE /\ ev[1] = "created" /\ ev[2] \in disk
             /\ AddTree(Below(ev[2]), armed, {}) /\ Schedule({ev[2]}) /\ UNCHANGED missed
    <2>1. PICK new \in SUBSET (Below(ev[2]) \cap disk) :
            /\ armed' = armed \cup new /\ watches' = watches \cup new
            /\ \/ degraded' = TRUE /\ skipped' = {}
               \/ /\ ~degraded /\ UNCHANGED degraded
                  /\ skipped' = (skipped \ Below(ev[2])) \cup ((Below(ev[2]) \cap disk) \ watches')
      BY <1>8 DEF AddTree
    <2>2. /\ gen' \in [Dir -> Nat] /\ entry' \in [Dir -> 0..MaxTimers]
          /\ timers' \in [Timer -> [dir : Dir, gen : Nat, at : {"free", "set", "fired", "send"}]]
          /\ \A d \in Dir : d \in Below(ev[2]) \/ Carried(d) => Carried(d)'
      <3>1. {ev[2]} \in SUBSET Dir
        BY <1>6
      <3> HIDE DEF ev
      <3> QED BY <1>1, <1>8, <3>1, ScheduleCarries
    <2>3. armed' \subseteq Dir /\ watches' \subseteq disk /\ skipped' \subseteq Dir
      BY <1>1, <1>2, <1>6, <2>1, TreeFacts DEF Shape, WatchTypeOK
    <2> HIDE DEF ev
    <2>4. Shape' /\ Flow'
      BY <1>7, <2>2, <2>3
    <2>5. ASSUME ~degraded', SetWhole PROVE SetWhole'
      <3>1. skipped' = (skipped \ Below(ev[2])) \cup ((Below(ev[2]) \cap disk) \ watches')
        BY <2>1, <2>5
      <3>2. \A r \in Root : r \in armed' => r \in armed
        BY <1>6, <1>8, <2>1, BelowFacts
      <3>3. \A r : Goes(r) => Goes(r)'
        BY <1>5, <1>8 DEF Goes
      <3>4. ASSUME NEW d \in disk, RootOf(d) \in armed'
            PROVE  d \in watches' \/ Comes(d)' \/ Goes(RootOf(d))' \/ PassedBy(d)'
        <4>1. RootOf(d) \in armed /\ d \in Dir /\ d \in Below(d)
          BY <3>2, <3>4, <1>1, TreeFacts DEF Shape, WatchTypeOK
        <4>2. d \in watches \/ Comes(d) \/ Goes(RootOf(d)) \/ PassedBy(d)
          BY <4>1, <2>5 DEF SetWhole
        <4>3. Comes(d) => Comes(d)' \/ d \in Below(ev[2])
          BY <1>5 DEF Comes
        <4>4. CASE d \in Below(ev[2])
          <5>1. d \in watches' \/ d \in skipped'
            BY <4>4, <3>1
          <5> QED BY <5>1, <4>1 DEF PassedBy
        <4>5. CASE d \notin Below(ev[2])
          <5>1. PassedBy(d) => PassedBy(d)'
            <6> SUFFICES ASSUME NEW s \in skipped, d \in Below(s) PROVE PassedBy(d)'
              BY DEF PassedBy
            <6>1. s \in Dir
              BY <1>1 DEF Shape, WatchTypeOK
            <6>2. s \notin Below(ev[2])
              BY <6>1, <1>6, <4>5, BelowBelow
            <6> QED BY <6>2, <3>1 DEF PassedBy
          <5> QED BY <5>1, <4>2, <4>3, <4>5, <2>1, <3>3
        <4> QED BY <4>4, <4>5
      <3>5. ASSUME NEW r \in Root \cap armed' \cap skipped' PROVE FALSE
        <4>1. r \in armed
          BY <3>2, <3>5
        <4>2. r \notin Below(ev[2])
          BY <3>5, <1>6, <1>8, BelowFacts
        <4> QED BY <4>1, <4>2, <3>1, <3>5, <2>5 DEF SetWhole
      <3> QED BY <1>1, <2>5, <3>2, <3>3, <3>4, <3>5 DEF SetWhole
    <2>6. Covered'
      BY <1>1, <1>5, <1>8, <2>1, <2>5 DEF Covered
    <2> QED BY <2>4, <2>6 DEF WatchInv
  <1>9. CASE /\ ~(ev[1] = "created" /\ ev[2] \in disk)
             /\ Settle(ev) /\ missed' = (missed \/ Overtaken(ev)) /\ UNCHANGED <<degraded, skipped>>
    <2>1. /\ gen' \in [Dir -> Nat] /\ entry' \in [Dir -> 0..MaxTimers]
          /\ timers' \in [Timer -> [dir : Dir, gen : Nat, at : {"free", "set", "fired", "send"}]]
          /\ \A d \in Dir : d \in Below(ev[2]) \/ Carried(d) => Carried(d)'
          /\ armed' \subseteq armed /\ watches' \subseteq watches
          /\ armed' = (IF Gone(ev) THEN armed \ Dropped(ev[2]) ELSE armed)
          /\ watches' = (IF Gone(ev) THEN watches \ Dropped(ev[2]) ELSE watches)
      BY <1>1, <1>3, <1>9, SettleDoes
    <2>2. Gone(ev) <=> ev[1] \in {"removed", "renamed"} /\ ev[2] \in armed
      BY DEF Gone
    <2>3. Overtaken(ev) <=>
            /\ Gone(ev)
            /\ \E d \in Dropped(ev[2]) \cap disk :
                 /\ RootOf(d) \in armed \ Dropped(ev[2])
                 /\ \A later \in Pending' : later[1] = "created" => d \notin Below(later[2])
      BY <1>1 DEF Overtaken, Pending
    <2> HIDE DEF ev
    <2>4. Shape' /\ Flow'
      BY <1>1, <1>2, <1>7, <1>9, <2>1 DEF Shape, WatchTypeOK
    <2>5. ASSUME ~missed', SetWhole PROVE SetWhole'
      <3>1. ~Overtaken(ev)
        BY <1>9, <2>5
      <3>2. \A r \in armed' : Goes(r) => Goes(r)'
        <4> SUFFICES ASSUME NEW r \in armed', Goes(r) PROVE Goes(r)'
          OBVIOUS
        <4>1. PICK e \in Pending : e[1] \in {"removed", "renamed"} /\ e[2] = r
          BY DEF Goes
        <4>2. CASE e = ev
          <5>1. ev[1] \in {"removed", "renamed"} /\ ev[2] = r /\ r \in armed
            BY <4>1, <4>2, <2>1
          <5>2. r \in Dropped(r)
            BY <5>1, <1>6, TreeFacts DEF Dropped
          <5> QED BY <5>1, <5>2, <2>1, <2>2
        <4>3. CASE e # ev
          BY <4>1, <4>3, <1>5 DEF Goes
        <4> QED BY <4>2, <4>3
      <3>3. \A d \in disk : Comes(d) => Comes(d)'
        <4> SUFFICES ASSUME NEW d \in disk, Comes(d) PROVE Comes(d)'
          OBVIOUS
        <4>1. PICK e \in Pending : e[1] = "created" /\ d \in Below(e[2])
          BY DEF Comes
        <4>2. CASE e = ev
          BY <4>1, <4>2, <1>1, <1>6, <1>9, StandsBelow
        <4>3. CASE e # ev
          BY <4>1, <4>3, <1>5 DEF Comes
        <4> QED BY <4>2, <4>3
      <3>4. ASSUME NEW d \in disk, RootOf(d) \in armed'
            PROVE  d \in watches' \/ Comes(d)' \/ Goes(RootOf(d))' \/ PassedBy(d)'
        <4>1. d \in watches \/ Comes(d) \/ Goes(RootOf(d)) \/ PassedBy(d)
          BY <3>4, <2>1, <2>5 DEF SetWhole
        <4>2. CASE d \in watches /\ Gone(ev) /\ d \in Dropped(ev[2])
          <5>1. RootOf(d) \in armed \ Dropped(ev[2])
            BY <4>2, <3>4, <2>1
          <5> QED BY <5>1, <4>2, <3>1, <2>3 DEF Comes
        <4>3. CASE d \in watches /\ ~(Gone(ev) /\ d \in Dropped(ev[2]))
          BY <4>3, <2>1
        <4>4. PassedBy(d) => PassedBy(d)'
          BY <1>9 DEF PassedBy
        <4> QED BY <4>1, <4>2, <4>3, <4>4, <3>2, <3>3, <3>4
      <3>5. ASSUME NEW r \in (Root \cap armed') \ disk PROVE Goes(r)'
        BY <3>2, <3>5, <2>1, <2>5 DEF SetWhole
      <3> QED BY <1>1, <1>9, <2>1, <2>5, <3>4, <3>5 DEF SetWhole
    <2>6. Covered'
      BY <1>1, <1>5, <1>9, <2>5 DEF Covered
    <2> QED BY <2>4, <2>6 DEF WatchInv
  <1> QED BY <1>8, <1>9 DEF HandleEvent

\* With the live layer gone nothing is on its way.
LEMMA LiveEndsKeeps ==
  ASSUME WatchInv, LiveEnds, UNCHANGED loop \/ (loop' = [Idle EXCEPT !.at = "stopped"])
  PROVE  WatchInv'
  <1>1. /\ Shape /\ Flow /\ Covered /\ live' = "ended"
        /\ gen' = [d \in Dir |-> 0] /\ entry' = [d \in Dir |-> 0]
        /\ timers' = [t \in Timer |-> IF timers[t].at = "set" THEN NoTimer ELSE timers[t]]
        /\ kernel' = <<>> /\ armed' = {} /\ watches' = {} /\ queue' = <<>> /\ noted' = {} /\ skipped' = {}
        /\ UNCHANGED <<disk, lib, stale, roots, handed, heldRoots, reqs, missed>>
    BY DEF WatchInv, LiveEnds, world
  <1>2. timers' \in [Timer -> [dir : Dir, gen : Nat, at : {"free", "set", "fired", "send"}]]
    <2>1. NoTimer \in [dir : Dir, gen : Nat, at : {"free", "set", "fired", "send"}]
      BY WatchAssumption DEF NoTimer
    <2> QED BY <1>1, <2>1 DEF Shape, WatchTypeOK
  <1>3. gen' \in [Dir -> Nat] /\ entry' \in [Dir -> 0..MaxTimers]
    <2>1. 0 \in Nat /\ 0 \in 0..MaxTimers
      BY WatchAssumption
    <2> QED BY <1>1, <2>1
  <1>4. /\ <<>> \in Seq(Event) /\ <<>> \in Seq(Heard) /\ Len(<<>>) = 0 /\ 0 <= EventBuffer
    BY WatchAssumption
  <1>5. Range(<<>>) = {}
    BY <1>4, SeqItems
  <1>6. /\ loop' \in [at : {"idle", "begin", "scan", "stopped"}, dirs : SUBSET Dir, again : SUBSET Dir]
        /\ loop'.at = "idle" => loop'.dirs = {}
    BY <1>1 DEF Idle, Shape, Flow
  <1>7. Shape'
    BY <1>1, <1>2, <1>3, <1>4, <1>6 DEF Shape, WatchTypeOK, Heard
  <1>8. Flow'
    BY <1>1, <1>6 DEF Flow, EventsKept
  <1>9. Covered'
    BY <1>1, <1>5 DEF Covered, Pending
  <1> QED BY <1>7, <1>8, <1>9 DEF WatchInv

-----------------------------------------------------------------------------
(***************************************************************************)
(* The loop.                                                               *)
(***************************************************************************)
LEMMA TakeReqKeeps ==
  ASSUME WatchInv, TakeReq
  PROVE  WatchInv'
  <1>1. /\ Shape /\ Flow /\ Covered /\ loop.at = "idle" /\ reqs # <<>>
        /\ reqs' = Tail(reqs) /\ loop' = [Idle EXCEPT !.at = "begin", !.dirs = Below(Head(reqs))]
        /\ UNCHANGED <<disk, lib, stale, kernel, roots, handed, live, armed, watches, heldRoots, skipped, queue,
                       gen, timers, entry, degraded, noted, missed>>
    BY DEF WatchInv, TakeReq, world, watchSet, debouncer
  <1>2. reqs \in Seq(Dir) /\ Len(reqs) <= ReqBuffer
    BY <1>1 DEF Shape, WatchTypeOK
  <1>3. /\ Head(reqs) \in Dir /\ reqs' \in Seq(Dir) /\ Range(reqs) = {Head(reqs)} \cup Range(reqs')
        /\ Len(reqs) \in Nat /\ Len(reqs') = Len(reqs) - 1
    BY <1>1, <1>2, TailItems
  <1>4. Len(reqs') <= ReqBuffer
    BY <1>2, <1>3, WatchAssumption
  <1>5. /\ loop'.dirs = Below(Head(reqs)) /\ loop'.at = "begin" /\ loop.dirs = {}
        /\ loop' \in [at : {"idle", "begin", "scan", "stopped"}, dirs : SUBSET Dir, again : SUBSET Dir]
    BY <1>1, <1>3, TreeFacts DEF Idle, Flow
  <1>6. Shape'
    BY <1>1, <1>3, <1>4, <1>5 DEF Shape, WatchTypeOK
  <1>7. Flow'
    <2>1. \A d : Carried(d) => Carried(d)'
      BY <1>1 DEF Carried, Latest
    <2> QED BY <1>1, <1>3, <1>5, <2>1 DEF Flow, EventsKept
  <1>8. Covered'
    BY <1>1, CoveredKept
  <1> QED BY <1>6, <1>7, <1>8 DEF WatchInv

\* A rescan of everything covers what is under the roots, and the callbacks may drop the
\* rest.
LEMMA TickKeepsInv ==
  ASSUME WatchInv, NEW set \in SUBSET Root, Tick(set),
         handed' = handed \/ handed' = NoSet \/ handed' = [set |-> TRUE, roots |-> set]
  PROVE  WatchInv'
  <1>1. /\ Shape /\ Flow /\ Covered /\ loop.at = "idle" /\ roots' = set
        /\ noted' = noted \cap Reach(set)
        /\ loop' = [Idle EXCEPT !.at = "begin", !.dirs = Reach(set)]
        /\ UNCHANGED <<disk, lib, stale, kernel, live, armed, watches, heldRoots, skipped, queue, gen, timers, entry,
                       reqs, degraded, missed>>
    BY DEF WatchInv, Tick, world, watchSet, debouncer
  <1>2. /\ loop'.dirs = Reach(set) /\ loop'.at = "begin"
        /\ loop' \in [at : {"idle", "begin", "scan", "stopped"}, dirs : SUBSET Dir, again : SUBSET Dir]
    BY <1>1, ReachFacts DEF Idle
  <1>3. handed' \in [set : BOOLEAN, roots : SUBSET Root]
    <2>1. handed \in [set : BOOLEAN, roots : SUBSET Root] /\ NoSet \in [set : BOOLEAN, roots : SUBSET Root]
      BY <1>1 DEF NoSet, Shape
    <2>2. [set |-> TRUE, roots |-> set] \in [set : BOOLEAN, roots : SUBSET Root]
      OBVIOUS
    <2> QED BY <2>1, <2>2
  <1>4. Shape'
    BY <1>1, <1>2, <1>3 DEF Shape, WatchTypeOK
  <1>5. Flow'
    BY <1>1, <1>2 DEF Flow, EventsKept
  <1>6. Covered'
    BY <1>1, CoveredKept
  <1> QED BY <1>4, <1>5, <1>6 DEF WatchInv

LEMMA RescanKeeps ==
  ASSUME WatchInv, Rescan
  PROVE  WatchInv'
  <1>1. /\ Shape /\ Flow /\ Covered /\ loop.at = "begin"
        /\ loop' = [loop EXCEPT !.at = "scan", !.again = {}]
        /\ UNCHANGED <<disk, lib, stale, kernel, roots, handed, live, armed, watches, heldRoots, skipped, queue,
                       gen, timers, entry, reqs, degraded, noted, missed>>
    BY DEF WatchInv, Rescan, world, watchSet, debouncer
  <1>2. /\ loop'.dirs = loop.dirs /\ loop'.at = "scan"
        /\ loop' \in [at : {"idle", "begin", "scan", "stopped"}, dirs : SUBSET Dir, again : SUBSET Dir]
    BY <1>1 DEF Shape
  <1>3. Shape'
    BY <1>1, <1>2 DEF Shape, WatchTypeOK
  <1>4. Flow'
    <2>1. \A d : Carried(d) => Carried(d)'
      BY <1>1 DEF Carried, Latest
    <2> QED BY <1>1, <1>2, <2>1 DEF Flow, EventsKept
  <1>5. Covered'
    BY <1>1, CoveredKept
  <1> QED BY <1>3, <1>4, <1>5 DEF WatchInv

\* What the loop took is rescanned: it is on its way no more.
LEMMA ReturnKeeps ==
  ASSUME WatchInv, Return, stale' \subseteq stale
  PROVE  WatchInv'
  <1>1. /\ Shape /\ Flow /\ Covered /\ loop.at = "scan" /\ loop' = Idle
        /\ live' = (IF live = "none" THEN "off" ELSE live)
        /\ noted' = noted \ loop.dirs
        /\ UNCHANGED <<disk, lib, kernel, roots, handed, armed, watches, heldRoots, skipped, queue, gen, timers, entry,
                       reqs, degraded, missed>>
    BY DEF WatchInv, Return, world, watchSet, debouncer
  <1>2. /\ loop'.dirs = {} /\ loop'.at = "idle"
        /\ loop' \in [at : {"idle", "begin", "scan", "stopped"}, dirs : SUBSET Dir, again : SUBSET Dir]
    BY <1>1 DEF Idle
  <1>3. Shape'
    BY <1>1, <1>2 DEF Shape, WatchTypeOK
  <1>4. Flow'
    <2>1. \A d : Carried(d) => Carried(d)'
      BY <1>1 DEF Carried, Latest
    <2> QED BY <1>1, <1>2, <2>1 DEF Flow, EventsKept
  <1>5. Covered'
    BY <1>1, CoveredKept
  <1> QED BY <1>3, <1>4, <1>5 DEF WatchInv

-----------------------------------------------------------------------------
(***************************************************************************)
(* The theorems.                                                           *)
(***************************************************************************)
LEMMA WatchBegins == WatchInit => WatchInv
  <1> SUFFICES ASSUME WatchInit PROVE WatchInv
    OBVIOUS
  <1>1. PICK s \in Starts : disk = s.disk
    BY DEF WatchInit
  <1>2. disk \subseteq Dir /\ \A d \in disk \ Root : Parent[d] \in disk
    BY <1>1, WatchAssumption
  <1>3. NoTimer \in [dir : Dir, gen : Nat, at : {"free", "set", "fired", "send"}]
    BY WatchAssumption DEF NoTimer
  <1>4. /\ <<>> \in Seq(Event) /\ <<>> \in Seq(Event \cup {Overflow}) /\ <<>> \in Seq(Dir) /\ Len(<<>>) = 0
        /\ 0 <= EventBuffer /\ 0 <= ReqBuffer /\ 0 \in 0..MaxTimers /\ Root \subseteq Dir
    BY WatchAssumption
  <1>5. Range(<<>>) = {}
    BY <1>4, SeqItems
  <1>6. /\ loop \in [at : {"idle", "begin", "scan", "stopped"}, dirs : SUBSET Dir, again : SUBSET Dir]
        /\ loop.at = "begin"
    BY DEF WatchInit, Idle
  <1>7. handed \in [set : BOOLEAN, roots : SUBSET Root]
    BY DEF WatchInit, NoSet
  <1>8. WatchTypeOK
    BY <1>2, <1>3, <1>4 DEF WatchInit, WatchTypeOK
  <1>9. Shape
    BY <1>2, <1>4, <1>6, <1>7, <1>8 DEF WatchInit, Shape
  <1>10. Flow
    BY <1>6 DEF WatchInit, Flow, EventsKept
  <1>11. Covered
    BY <1>5 DEF WatchInit, Covered, Pending
  <1> QED BY <1>9, <1>10, <1>11 DEF WatchInv

LEMMA WatchGoesOn == WatchInv /\ [WatchNext]_watchVars => WatchInv'
  <1> SUFFICES ASSUME WatchInv, [WatchNext]_watchVars PROVE WatchInv'
    OBVIOUS
  <1>1. ASSUME NEW d \in Dir, NEW lost \in BOOLEAN, ChangeFile(d, lost) PROVE WatchInv'
    BY <1>1, ChangeFileKeeps
  <1>2. ASSUME NEW d \in Dir, NEW lost \in BOOLEAN, NEW ds \in {{d}, Below(d)}, CreateDir(d, ds, lost)
        PROVE  WatchInv'
    BY <1>2, CreateDirKeeps
  <1>3. ASSUME NEW d \in Dir, NEW lost \in BOOLEAN, NEW how \in {"removed", "renamed"}, LoseDir(d, how, lost)
        PROVE  WatchInv'
    BY <1>3, LoseDirKeeps
  <1>4. ASSUME NEW rs \in SUBSET Root, RegisterRoots(rs) PROVE WatchInv'
    BY <1>4, RegisterRootsKeeps
  <1>5. CASE WatchWorld
    BY <1>1, <1>2, <1>3, <1>4, <1>5 DEF WatchWorld
  <1>6. CASE WatchStep
    BY <1>6, StartLiveKeeps, FollowKeeps, ReadEventKeeps, ReadOverflowKeeps, HandleEventKeeps, FireKeeps,
       CallbackKeeps, SendKeeps, TakeReqKeeps, RescanKeeps DEF WatchStep
  <1>7. CASE SourceEnds
    BY <1>7, LiveEndsKeeps DEF SourceEnds
  <1>8. CASE Cancel
    BY <1>8, LiveEndsKeeps DEF Cancel
  <1>9. CASE TickFollows
    <2>1. lib \in SUBSET Root BY DEF WatchInv, Shape
    <2> QED BY <1>9, <2>1, TickKeepsInv DEF TickFollows
  <1>10. CASE TickKeeps
    <2>1. roots \in SUBSET Root BY DEF WatchInv, Shape
    <2> QED BY <1>10, <2>1, TickKeepsInv DEF TickKeeps
  <1>11. CASE RescanDone
    BY <1>11, ReturnKeeps DEF RescanDone
  <1>12. CASE RescanSkipped
    BY <1>12, ReturnKeeps DEF RescanSkipped
  <1>13. CASE UNCHANGED watchVars
    <2>1. UNCHANGED <<disk, stale, kernel, lib, roots, handed, live, armed, watches, heldRoots, skipped, queue, gen,
                      timers, entry, reqs, loop, degraded, noted, missed>>
      BY <1>13 DEF watchVars
    <2>2. Shape'
      BY <2>1 DEF WatchInv, Shape, WatchTypeOK
    <2>3. Flow' /\ Covered'
      BY <2>1, FlowKept, CoveredKept DEF WatchInv
    <2> QED BY <2>2, <2>3 DEF WatchInv
  <1> QED BY <1>5, <1>6, <1>7, <1>8, <1>9, <1>10, <1>11, <1>12, <1>13 DEF WatchNext

\* In every reachable state what the read loop took is on its way to a rescan, and what
\* the live layer holds is watched or will be heard of (watch/live.go, watch/debounce.go).
THEOREM WatchInvariance == WatchSpec => []WatchInv
  <1>1. WatchInit => WatchInv
    BY WatchBegins
  <1>2. WatchInv /\ [WatchNext]_watchVars => WatchInv'
    BY WatchGoesOn
  <1> QED BY <1>1, <1>2, PTL DEF WatchSpec

\* No change whose event was read is forgotten before a rescan that covers its folder,
\* and a watcher with nothing in flight that does not say it is degraded watches every
\* folder of the roots it holds that no walk passed by (live.go's "NOT a SILENT partial
\* coverage").
THEOREM WatchSafeHolds == WatchSpec => []WatchSafe
  <1>1. WatchInv => WatchSafe
    <2> SUFFICES ASSUME WatchInv PROVE WatchSafe
      OBVIOUS
    <2>1. Shape /\ Flow /\ Covered
      BY DEF WatchInv
    <2>2. WatchTypeOK /\ EventsKept
      BY <2>1 DEF Shape, Flow
    <2>3. NotSilent
      <3> SUFFICES ASSUME live = "on", ~degraded, ~missed, kernel = <<>>, queue = <<>>,
                          NEW d \in disk, RootOf(d) \in armed
                   PROVE  d \in watches \/ PassedBy(d)
        BY DEF NotSilent
      <3>1. kernel \in Seq(Heard) /\ queue \in Seq(Event)
        BY <2>1, PendingFacts
      <3>2. Pending = {}
        BY <3>1, SeqItems DEF Pending
      <3>3. SetWhole
        BY <2>1 DEF Covered
      <3> QED BY <3>2, <3>3 DEF SetWhole, Comes, Goes
    <2> QED BY <2>2, <2>3 DEF WatchSafe
  <1> QED BY <1>1, WatchInvariance, PTL
=============================================================================
