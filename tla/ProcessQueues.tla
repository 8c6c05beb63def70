---------------------------- MODULE ProcessQueues ----------------------------
(***************************************************************************)
(* The two priority queues of one process of Mutual-Exclusion/code, with   *)
(* which it decides rule 5: requestQueue, the requests it knows of, and    *)
(* receivedTime, the time of the last message of every other process.      *)
(* MutualExclusion takes them for a set and a function; here they are the  *)
(* heaps that they are in the code.                                        *)
(***************************************************************************)
EXTENDS Timestamp, FiniteSets, Sequences

CONSTANTS
  N,               \* number of processes
  me,              \* this process
  MaxRequestTime,  \* bound: times of requests
  MaxTime          \* bound: times of messages

ASSUME QueuesAssumption ==
  N \in Nat /\ N >= 2 /\ me \in 0 .. N - 1 /\ MaxRequestTime \in Nat /\ MaxTime \in Nat

Proc == 0 .. N - 1
Request == {newTimestamp(t, p) : t \in 1 .. MaxRequestTime, p \in Proc}

VARIABLES
  rpq,        \* the heap of requests
  requestOf,  \* the keys of the map; the index of the *request is in rpq
  trq         \* the heap of time records; trs[q] is the record of q

queueVars == <<rpq, requestOf>>
vars == <<queueVars, trq>>

itself(ts) == ts
Requests == INSTANCE Heap WITH Precedes <- Less, Id <- itself

timeRecord(q, t) == [process |-> q, time |-> t]
processOf(tr) == tr.process
earlier(tr1, tr2) == tr1.time < tr2.time
Times == INSTANCE Heap WITH Precedes <- earlier, Id <- processOf

----------------------------------------------------------------------------
\* newReceivedTime pushes a record of time 0 for every other process, in the
\* order of their numbers.
emptyTimes == [queue |-> <<>>, index |-> [q \in Proc \ {me} |-> 0]]
newReceivedTime[n \in 0 .. N] ==
  IF n = 0 THEN emptyTimes
  ELSE IF n - 1 = me THEN newReceivedTime[n - 1]
  ELSE Times!Push(newReceivedTime[n - 1], timeRecord(n - 1, 0))

Init ==
  /\ rpq = [queue |-> <<>>, index |-> [ts \in Request |-> 0]]
  /\ requestOf = {}
  /\ trq = newReceivedTime[N]

\* requestQueue.Push; a process has one request at a time.  A timestamp may
\* come back after its removal: it stands for a later one.
Push(ts) ==
  /\ \A ts2 \in requestOf : ts2.process # ts.process
  /\ rpq' = Requests!Push(rpq, ts)
  /\ requestOf' = requestOf \cup {ts}
  /\ UNCHANGED trq

\* requestQueue.Remove, of a request that is in the queue.
Remove(ts) ==
  /\ ts \in requestOf
  /\ rpq' = Requests!RemoveAt(rpq, rpq.index[ts])
  /\ requestOf' = requestOf \ {ts}
  /\ UNCHANGED trq

\* The time of the last message of q.
timeOf(q) == trq.queue[trq.index[q]].time

\* timeRecordQueue.update.
update(q, t) == Times!Fix([trq EXCEPT !.queue[trq.index[q]].time = t], trq.index[q])

\* receivedTime.Update; the times of a sender increase.
Update(q, t) ==
  /\ t > timeOf(q)
  /\ trq' = update(q, t)
  /\ UNCHANGED queueVars

Next ==
  \/ \E ts \in Request : Push(ts) \/ Remove(ts)
  \/ \E q \in Proc \ {me}, t \in 1 .. MaxTime : Update(q, t)

Spec == Init /\ [][Next]_vars

----------------------------------------------------------------------------
\* requestQueue.Min and receivedTime.Min.
MinRequest == IF rpq.queue = <<>> THEN nil ELSE rpq.queue[1]
MinTime == trq.queue[1].time

\* Rule 5 as isSatisfiedRule5 decides it for a request of this process.
IsSatisfiedRule5(ts) == IsEqual(ts, MinRequest) /\ IsBefore(ts, MinTime)

\* The queues hold requests and time records of the other processes.
TypeOK ==
  /\ rpq \in [queue : Seq(Request), index : [Request -> Nat]]
  /\ requestOf \subseteq Request
  /\ trq \in [queue : Seq([process : Proc \ {me}, time : Nat]), index : [Proc \ {me} -> Nat]]

\* Both queues are heaps whose elements know their positions; the first holds
\* the requests of the map, the second one record of every other process.
\* No operation restores the order by itself: Push relies on it being there
\* but for the new element, Remove and Update but for the one in the middle.
AreHeaps ==
  /\ Requests!Indexed(rpq)
  /\ Requests!Ordered(rpq.queue, Len(rpq.queue))
  /\ Requests!Content(rpq.queue) = requestOf
  /\ Times!Indexed(trq)
  /\ Times!Ordered(trq.queue, Len(trq.queue))
  /\ \A q \in Proc \ {me} : \E tr \in Times!Content(trq.queue) : tr.process = q
  /\ Len(trq.queue) = N - 1

\* The inductive invariant.
IInv == TypeOK /\ AreHeaps

\* Every request of the map is in the heap, where its index says, and the
\* heap holds nothing else; so is every time record.  Remove and Update go
\* through these indices, which every Swap of the heap must keep.
IndexIsPosition ==
  /\ Len(rpq.queue) = Cardinality(requestOf)
  /\ \A ts \in requestOf : rpq.index[ts] \in DOMAIN rpq.queue /\ rpq.queue[rpq.index[ts]] = ts
  /\ Len(trq.queue) = N - 1
  /\ \A q \in Proc \ {me} : trq.queue[trq.index[q]].process = q

\* After any sequence of pushes, removals and updates, rule 5 decided at the
\* roots of the two heaps is rule 5 of the algorithm: no request is before
\* this one, and every other process has sent something later.
Rule5Decided ==
  \A ts \in requestOf : ts.process = me =>
    (IsSatisfiedRule5(ts) <=>
       /\ \A ts2 \in requestOf \ {ts} : Less(ts, ts2)
       /\ \A q \in Proc \ {me} : IsBefore(ts, timeOf(q)))

\* The two heaps implement a set of requests and a function to times: no
\* operation loses, doubles or changes an element it is not about, however
\* the Swaps of up and down move them.
Queues == INSTANCE AbstractQueues
            WITH Other <- Proc \ {me}, requests <- Requests!Content(rpq.queue),
                 times <- [q \in Proc \ {me} |-> timeOf(q)]
ImplementsQueues == Queues!Spec
=============================================================================
