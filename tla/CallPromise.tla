---------------------------- MODULE CallPromise ----------------------------
(***************************************************************************)
(* What a control-socket client promises its caller: calls run one at a    *)
(* time, and each ends with the server's answer to it or with an error.    *)
(***************************************************************************)
EXTENDS Naturals

CONSTANT MaxCalls  \* bound: calls of one client

VARIABLES
  current,  \* the call in flight, 0 for none
  outcome   \* call -> "none", "answer" (its own) or "error"

Init == current = 0 /\ outcome = [c \in 1..MaxCalls |-> "none"]

Begin(c) ==
  /\ current = 0 /\ outcome[c] = "none" /\ \A b \in 1..(c - 1) : outcome[b] # "none"
  /\ current' = c
  /\ UNCHANGED outcome

End(how) ==
  /\ current # 0
  /\ outcome' = [outcome EXCEPT ![current] = how]
  /\ current' = 0

Next == (\E c \in 1..MaxCalls : Begin(c)) \/ End("answer") \/ End("error")

Spec == Init /\ [][Next]_<<current, outcome>>
=============================================================================
