---------------------------- MODULE AbstractQueues ----------------------------
(***************************************************************************)
(* The two queues of a process as the rules of the algorithm use them: the *)
(* open requests it knows of, one of a process at most, and the time of    *)
(* the last message of every other process, which only grows.              *)
(* ProcessQueues keeps them in heaps; in MutualExclusion every process     *)
(* uses its own within these limits.                                       *)
(***************************************************************************)
EXTENDS Naturals

CONSTANT Other  \* the other processes

VARIABLES
  requests,  \* the timestamps in the request queue
  times      \* the received time of every other process

vars == <<requests, times>>

Init == requests = {} /\ times = [q \in Other |-> 0]

Push ==
  \E ts \in requests' :
    /\ \A ts2 \in requests : ts2.process # ts.process
    /\ requests' = requests \cup {ts}
    /\ UNCHANGED times

Remove ==
  \E ts \in requests :
    /\ requests' = requests \ {ts}
    /\ UNCHANGED times

Update ==
  \E q \in Other :
    /\ times'[q] > times[q]
    /\ times' = [times EXCEPT ![q] = times'[q]]
    /\ UNCHANGED requests

Next == Push \/ Remove \/ Update

Spec == Init /\ [][Next]_vars
==============================================================================
