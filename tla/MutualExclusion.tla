--------------------------- MODULE MutualExclusion ---------------------------
(***************************************************************************)
(* The mutual-exclusion program of Mutual-Exclusion/code: N processes that *)
(* run Lamport's five rules over one broadcast stream, the resource they   *)
(* share, and the driver run(all, occupyTimesPerProcess) that makes every  *)
(* process request the resource occupyTimes times.                         *)
(*                                                                         *)
(* A process is three goroutines that share a mutex:                       *)
(*   listener   the loop of Listening(), one message at a time;            *)
(*   requester  the driver's loop of Request() calls;                      *)
(*   releaser   started by checkRule5, runs releaseResource() once; it     *)
(*              exists exactly while isOccupying[p] holds.                 *)
(* An action is one critical section.  The handler of a request message is *)
(* two actions because it pushes into the queue before it takes the mutex. *)
(***************************************************************************)
EXTENDS Timestamp, Sequences

CONSTANTS
  N,            \* number of processes ("all")
  occupyTimes,  \* requests per process ("occupyTimesPerProcess")
  InitTime      \* the values newClock may draw (1..100 in the code)

ASSUME NAssumption == N \in Nat /\ N >= 2
ASSUME TimesAssumption == occupyTimes \in Nat
ASSUME InitTimeAssumption == InitTime \subseteq Nat \ {0}

Proc == 0 .. N - 1
OTHERS == -1

MsgType == {"requestResource", "releaseResource", "acknowledgment"}
Message == [msgType : MsgType, msgTime : Nat, from : Proc,
            to : Proc \cup {OTHERS}, timestamp : Timestamp]

newMessage(mt, msgTime, from, to, ts) ==
  [msgType |-> mt, msgTime |-> msgTime, from |-> from, to |-> to, timestamp |-> ts]

VARIABLES
  prop,              \* every value the observer property ever had, in order
  seen,              \* how many of them the listener of each process read
  listener,          \* what the listener does next, with message prop[seen[p]]
  clock,             \* logical clock of each process
  receivedTime,      \* receivedTime[p][q]: time of the last message from q
  requestQueue,      \* set of timestamps in the request queue
  isOccupying,
  requestTimestamp,  \* the request of p that is not released yet, or nil
  wg,                \* wait group that makes Request block
  requested,         \* number of Request calls the driver made
  occupiedBy, lastOccupiedBy, timestamps,  \* the resource
  pending,           \* wait group of the resource: occupations still to finish
  panicked           \* some goroutine panicked and took the program down

procVars == <<clock, receivedTime, requestQueue, isOccupying, requestTimestamp>>
resourceVars == <<occupiedBy, lastOccupiedBy, timestamps, pending>>
vars == <<prop, seen, listener, procVars, wg, requested, resourceVars, panicked>>

----------------------------------------------------------------------------
\* Mutant: the other processes are forgotten.
occupationsOfOne == occupyTimes

\* The driver's argument to newResource: all occupations there will be.
occupations == N * occupyTimes

Init ==
  /\ prop = <<>>
  /\ seen = [p \in Proc |-> 0]
  /\ listener = [p \in Proc |-> "next"]
  /\ clock \in [Proc -> InitTime]
  /\ receivedTime = [p \in Proc |-> [q \in Proc |-> 0]]
  /\ requestQueue = [p \in Proc |-> {}]
  /\ isOccupying = [p \in Proc |-> FALSE]
  /\ requestTimestamp = [p \in Proc |-> nil]
  /\ wg = [p \in Proc |-> 0]
  /\ requested = [p \in Proc |-> 0]
  /\ occupiedBy = nil
  /\ lastOccupiedBy = newTimestamp(-1, -1)
  /\ timestamps = <<>>
  /\ pending = occupations
  /\ panicked = FALSE

----------------------------------------------------------------------------
max(a, b) == IF a > b THEN a ELSE b

\* clock.Tick and clock.Update
Tick(p) == clock' = [clock EXCEPT ![p] = @ + 1]

\* Mutant: the clock follows the sender's, also backwards.
UpdateClockAlways(p, t) == clock' = [clock EXCEPT ![p] = t + 1]

UpdateClock(p, t) == clock' = [clock EXCEPT ![p] = max(@, t + 1)]

\* prop.Update: the observer property appends the value for every stream.
Update(m) == prop' = Append(prop, m)

\* Mutant: every acknowledgment is skipped.
IgnoredAcknowledgment(p, m) == m.from = p \/ m.msgType = "acknowledgment"

\* Messages the listener of p skips: its own, and acknowledgments to others.
Ignored(p, m) ==
  \/ m.from = p
  \/ m.msgType = "acknowledgment" /\ m.to # p

\* The handler a message of each type is dispatched to.
NextStep(mt) ==
  CASE mt = "requestResource" -> "push"
    [] mt = "releaseResource" -> "remove"
    [] mt = "acknowledgment" -> "check"

\* The message the listener of p is handling.
msg(p) == prop[seen[p]]

\* The loop reads the stream up to the next message it does not skip, and
\* updateTime sets the clock and the time of the sender.
Receive(p) ==
  /\ ~panicked
  /\ listener[p] = "next"
  /\ \E k \in seen[p] + 1 .. Len(prop) :
       /\ \A j \in seen[p] + 1 .. k - 1 : Ignored(p, prop[j])
       /\ ~Ignored(p, prop[k])
       /\ seen' = [seen EXCEPT ![p] = k]
       /\ UpdateClock(p, prop[k].msgTime)
       /\ receivedTime' = [receivedTime EXCEPT ![p][prop[k].from] = prop[k].msgTime]
       /\ listener' = [listener EXCEPT ![p] = NextStep(prop[k].msgType)]
  /\ UNCHANGED <<prop, requestQueue, isOccupying, requestTimestamp, wg, requested,
                 resourceVars, panicked>>

\* handleRequestMessage, rule 2.1: no mutex of the process is held.
PushRequest(p) ==
  /\ ~panicked
  /\ listener[p] = "push"
  /\ requestQueue' = [requestQueue EXCEPT ![p] = @ \cup {msg(p).timestamp}]
  /\ listener' = [listener EXCEPT ![p] = "ack"]
  /\ UNCHANGED <<prop, seen, clock, receivedTime, isOccupying, requestTimestamp, wg,
                 requested, resourceVars, panicked>>

\* handleRequestMessage, rule 2.2.
Acknowledge(p) ==
  /\ ~panicked
  /\ listener[p] = "ack"
  /\ Tick(p)
  /\ Update(newMessage("acknowledgment", clock[p] + 1, p, msg(p).from, msg(p).timestamp))
  /\ listener' = [listener EXCEPT ![p] = "check"]
  /\ UNCHANGED <<seen, receivedTime, requestQueue, isOccupying, requestTimestamp, wg,
                 requested, resourceVars, panicked>>

\* handleReleaseMessage, rule 4.  requestQueue.Remove dereferences a nil
\* *request, and panics, when the queue does not hold the timestamp.
HandleReleaseMessage(p) ==
  /\ ~panicked
  /\ listener[p] = "remove"
  /\ panicked' = (msg(p).timestamp \notin requestQueue[p])
  /\ requestQueue' = [requestQueue EXCEPT ![p] = @ \ {msg(p).timestamp}]
  /\ listener' = [listener EXCEPT ![p] = "check"]
  /\ UNCHANGED <<prop, seen, clock, receivedTime, isOccupying, requestTimestamp, wg,
                 requested, resourceVars>>

\* ts.IsEqual(requestQueue.Min()): Min is the heap's root, nil when empty.
IsMin(ts, queue) ==
  \E root \in queue : /\ \A ts2 \in queue \ {root} : Less(root, ts2)
                      /\ IsEqual(ts, root)

\* Mutant: rule 5.2 is missing.
IsSatisfiedRule51(p) ==
  /\ ~isOccupying[p]
  /\ requestTimestamp[p] # nil
  /\ IsMin(requestTimestamp[p], requestQueue[p])

\* Mutant: a process that occupies the resource is not excluded.
IsSatisfiedRule5Again(p) ==
  /\ requestTimestamp[p] # nil
  /\ IsMin(requestTimestamp[p], requestQueue[p])
  /\ \A q \in Proc \ {p} : IsBefore(requestTimestamp[p], receivedTime[p][q])

\* isSatisfiedRule5; the second half compares with receivedTime.Min().
IsSatisfiedRule5(p) ==
  /\ ~isOccupying[p]
  /\ requestTimestamp[p] # nil
  /\ IsMin(requestTimestamp[p], requestQueue[p])
  /\ \A q \in Proc \ {p} : IsBefore(requestTimestamp[p], receivedTime[p][q])

\* resource.Occupy panics when the resource is taken or the order broken.
CannotOccupy(ts) == occupiedBy # nil \/ ~Less(lastOccupiedBy, ts)

Occupy(ts) ==
  /\ panicked' = CannotOccupy(ts)
  /\ IF CannotOccupy(ts)
       THEN UNCHANGED <<occupiedBy, timestamps>>
       ELSE occupiedBy' = ts /\ timestamps' = Append(timestamps, ts)
  /\ UNCHANGED <<lastOccupiedBy, pending>>

CheckRule5(p) ==
  /\ ~panicked
  /\ listener[p] = "check"
  /\ listener' = [listener EXCEPT ![p] = "next"]
  /\ IF IsSatisfiedRule5(p)
       THEN /\ isOccupying' = [isOccupying EXCEPT ![p] = TRUE]
            /\ Occupy(requestTimestamp[p])
       ELSE UNCHANGED <<isOccupying, resourceVars, panicked>>
  /\ UNCHANGED <<prop, seen, clock, receivedTime, requestQueue, requestTimestamp, wg,
                 requested>>

\* resource.Release panics when somebody else holds the resource (also when
\* nobody does: the method call on the nil interface).
CannotRelease(ts) == occupiedBy = nil \/ ~IsEqual(occupiedBy, ts)

\* Mutant: the last occupation is not recorded.
ReleaseUnrecorded(ts) ==
  /\ occupiedBy' = nil
  /\ pending' = pending - 1
  /\ UNCHANGED <<lastOccupiedBy, timestamps>>

\* Mutant: the resource stays occupied.
ReleaseKept(ts) ==
  /\ lastOccupiedBy' = ts
  /\ pending' = pending - 1
  /\ UNCHANGED <<occupiedBy, timestamps>>

\* Mutant: wg.Done is missing.
ReleaseUncounted(ts) ==
  /\ lastOccupiedBy' = ts
  /\ occupiedBy' = nil
  /\ UNCHANGED <<pending, timestamps>>

Release(ts) ==
  /\ lastOccupiedBy' = ts
  /\ occupiedBy' = nil
  /\ pending' = pending - 1
  /\ UNCHANGED timestamps

\* releaseResource, rule 3: resource, queue, message, then the flags, all under
\* the mutex of p.  rsc.wait() does not take that mutex: the driver may go on
\* as soon as Release has counted, while p still has to do the rest.
ReleaseResource(p) ==
  /\ ~panicked
  /\ isOccupying[p]
  /\ LET ts == requestTimestamp[p] IN
       /\ panicked' = (CannotRelease(ts) \/ ts \notin requestQueue[p])
       /\ Release(ts)
       /\ requestQueue' = [requestQueue EXCEPT ![p] = @ \ {ts}]
       /\ Tick(p)
       /\ Update(newMessage("releaseResource", clock[p] + 1, p, OTHERS, ts))
  /\ isOccupying' = [isOccupying EXCEPT ![p] = FALSE]
  /\ requestTimestamp' = [requestTimestamp EXCEPT ![p] = nil]
  /\ wg' = [wg EXCEPT ![p] = @ - 1]
  /\ UNCHANGED <<seen, listener, receivedTime, requested>>

\* Mutant: the driver asks once too often.
MayRequestOnceMore(p) == requested[p] <= occupyTimes /\ wg[p] = 0

\* Mutant: wg.Wait is missing.
MayRequestAtOnce(p) == requested[p] < occupyTimes

\* The driver's loop goes on, and wg.Wait, with which Request begins, returns:
\* the previous request was released.
MayRequest(p) == requested[p] < occupyTimes /\ wg[p] = 0

\* Request, rule 1, called in the driver's loop.
Request(p) ==
  /\ ~panicked
  /\ MayRequest(p)
  /\ wg' = [wg EXCEPT ![p] = @ + 1]
  /\ Tick(p)
  /\ LET ts == newTimestamp(clock[p] + 1, p) IN
       /\ Update(newMessage("requestResource", clock[p] + 1, p, OTHERS, ts))
       /\ requestQueue' = [requestQueue EXCEPT ![p] = @ \cup {ts}]
       /\ requestTimestamp' = [requestTimestamp EXCEPT ![p] = ts]
  /\ requested' = [requested EXCEPT ![p] = @ + 1]
  /\ UNCHANGED <<seen, listener, receivedTime, isOccupying, resourceVars, panicked>>

----------------------------------------------------------------------------
Listener(p) ==
  \/ Receive(p)
  \/ PushRequest(p)
  \/ Acknowledge(p)
  \/ HandleReleaseMessage(p)
  \/ CheckRule5(p)

\* rsc.wait() returned and the driver is done.
Finished == pending = 0 /\ UNCHANGED vars

Next ==
  \/ \E p \in Proc : Listener(p) \/ ReleaseResource(p) \/ Request(p)
  \/ Finished

Spec == Init /\ [][Next]_vars

\* Every goroutine that can run eventually does (Go's scheduler and its
\* starvation-free mutexes), and occupation ends in finite time.
Fairness ==
  \A p \in Proc : /\ WF_vars(Listener(p))
                  /\ WF_vars(ReleaseResource(p))
                  /\ WF_vars(Request(p))

FairSpec == Spec /\ Fairness

----------------------------------------------------------------------------
\* Types of the variables; no process calls Request more often than the
\* driver's loop says.
TypeOK ==
  /\ prop \in Seq(Message)
  /\ seen \in [Proc -> Nat]
  /\ listener \in [Proc -> {"next", "push", "ack", "remove", "check"}]
  /\ clock \in [Proc -> Nat]
  /\ receivedTime \in [Proc -> [Proc -> Nat]]
  /\ requestQueue \in [Proc -> SUBSET Timestamp]
  /\ isOccupying \in [Proc -> BOOLEAN]
  /\ requestTimestamp \in [Proc -> Timestamp \cup {nil}]
  /\ wg \in [Proc -> Int]
  /\ requested \in [Proc -> 0 .. occupyTimes]
  /\ occupiedBy \in Timestamp \cup {nil}
  /\ lastOccupiedBy \in Timestamp
  /\ timestamps \in Seq(Timestamp)
  /\ pending \in Int
  /\ panicked \in BOOLEAN

\* No call of Occupy, Release or Remove panics, whatever the interleaving:
\* the resource is never taken twice, never out of timestamp order, never
\* released by another process, and every release message finds its request
\* in the queue (Test_process: NotPanics).
NoPanic == ~panicked

\* The resource is occupied exactly by the one process that believes it
\* occupies it, and by nobody when no process does (README: a resource is
\* released before it is occupied again).
ResourceAgrees ==
  /\ \A p \in Proc : isOccupying[p] <=> occupiedBy # nil /\ occupiedBy = requestTimestamp[p]
  /\ occupiedBy # nil => \E p \in Proc : isOccupying[p]

\* Who occupies the resource has the least timestamp among ALL requests not
\* yet released, those included that its own queue has not received yet
\* (README: first to request, first to occupy).  It implies that two
\* processes never occupy together.
OccupierIsFirst ==
  \A p, q \in Proc :
    isOccupying[p] /\ p # q /\ requestTimestamp[q] # nil
      => Less(requestTimestamp[p], requestTimestamp[q])

\* A request queue never holds two requests of one process, so N bounds it:
\* a release is handled before the next request of the same process.
OneRequestPerProcess ==
  \A p \in Proc : \A ts, ts2 \in requestQueue[p] : ts.process = ts2.process => ts = ts2

\* rsc.wait() returns only when the driver made all its requests and every
\* one was granted and released, and the wait group never goes negative.  The
\* one request a process may still have recorded is the last released one:
\* resource.Release counts before releaseResource clears requestTimestamp.
WaitReturnsLast ==
  /\ pending >= 0
  /\ pending = 0 => /\ occupiedBy = nil
                    /\ \A p \in Proc : /\ requested[p] = occupyTimes
                                       /\ requestTimestamp[p] \in {nil, lastOccupiedBy}

\* receivedTime.Update overwrites without comparing, yet the recorded time
\* of a sender never goes back (rule 5.2 relies on it).
ReceivedTimeMonotonic ==
  [][\A p, q \in Proc : receivedTime[p][q] <= receivedTime'[p][q]]_vars

\* The requests that wait for the lock.
waiting == {requestTimestamp[p] : p \in {q \in Proc : requestTimestamp[q] # nil /\ ~isOccupying[q]}}
Lock == INSTANCE OrderedLock WITH holder <- occupiedBy, last <- lastOccupiedBy

\* The processes and the resource (checkRule5 with Occupy, releaseResource with
\* Release, Request) implement a lock that serves requests in the order of
\* their timestamps.
ImplementsOrderedLock == Lock!Spec

\* The listener, the driver and the releaser of a process use its two queues
\* as ProcessQueues expects: none pushes a request of a process whose last one
\* is still there, removes one that is not, or sets a received time back.
QueuesOf(p) == INSTANCE AbstractQueues
                 WITH Other <- Proc \ {p}, requests <- requestQueue[p],
                      times <- [q \in Proc \ {p} |-> receivedTime[p][q]]
UsesQueues ==
  /\ \A p \in Proc : QueuesOf(p)!Init
  /\ [][\A p \in Proc : [QueuesOf(p)!Next]_(QueuesOf(p)!vars)]_vars

\* README: if occupation is finite, every request is granted.
RequestGranted == \A p \in Proc : requestTimestamp[p] # nil ~> isOccupying[p]

\* The driver ends: all occupations happen and rsc.wait() returns.
DriverFinishes == <>(pending = 0)
=============================================================================
