------------------------------ MODULE RemoteCall ------------------------------
(***************************************************************************)
(* What a caller may rely on when it calls a peer through labrpc, and what *)
(* Raft takes for granted of its calls: the handler is executed at most    *)
(* once, perhaps after the caller has given up; a call succeeds only when  *)
(* the handler was executed; a call that fails says nothing.               *)
(***************************************************************************)
EXTENDS Naturals

CONSTANT Calls

VARIABLES
  result,  \* of each call: "none" before it is made, "pending", "ok", "failed"
  runs     \* how often its handler was executed

Init ==
  /\ result = [c \in Calls |-> "none"]
  /\ runs = [c \in Calls |-> 0]

Make(c) ==
  /\ result[c] = "none"
  /\ result' = [result EXCEPT ![c] = "pending"]
  /\ UNCHANGED runs

Execute(c) ==
  /\ result[c] \in {"pending", "failed"}
  /\ runs[c] = 0
  /\ runs' = [runs EXCEPT ![c] = 1]
  /\ UNCHANGED result

Succeed(c) ==
  /\ result[c] = "pending"
  /\ runs[c] = 1
  /\ result' = [result EXCEPT ![c] = "ok"]
  /\ UNCHANGED runs

Fail(c) ==
  /\ result[c] = "pending"
  /\ result' = [result EXCEPT ![c] = "failed"]
  /\ UNCHANGED runs

Next == \E c \in Calls : Make(c) \/ Execute(c) \/ Succeed(c) \/ Fail(c)

Spec == Init /\ [][Next]_<<result, runs>>
=============================================================================
