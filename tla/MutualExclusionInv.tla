-------------------------- MODULE MutualExclusionInv --------------------------
(***************************************************************************)
(* The inductive invariant of MutualExclusion: what the stream holds, how  *)
(* far each process has got in it, and what that makes of its queue.       *)
(***************************************************************************)
EXTENDS MutualExclusion, FiniteSets

Index == 1 .. Len(prop)

IsRequest(k, ts) == prop[k].msgType = "requestResource" /\ prop[k].timestamp = ts
IsRelease(k, ts) == prop[k].msgType = "releaseResource" /\ prop[k].timestamp = ts

\* The part of the stream that has had its effect on the queue of p.
Handled(p) == IF listener[p] \in {"push", "remove"} THEN seen[p] - 1 ELSE seen[p]

\* The messages of one process carry increasing times, none ahead of its clock.
TimesGrow ==
  /\ \A k \in Index : prop[k].msgTime <= clock[prop[k].from]
  /\ \A j, k \in Index : j < k /\ prop[j].from = prop[k].from => prop[j].msgTime < prop[k].msgTime

\* A request carries its own timestamp; a release repeats that of an earlier
\* request of the same process, and no request is released twice.
RequestsAndReleases ==
  /\ \A k \in Index : prop[k].msgType = "requestResource"
       => prop[k].timestamp = newTimestamp(prop[k].msgTime, prop[k].from)
  /\ \A k \in Index : prop[k].msgType = "releaseResource"
       => /\ prop[k].timestamp.process = prop[k].from
          /\ \E j \in 1 .. k - 1 : IsRequest(j, prop[k].timestamp)
          /\ \A j \in 1 .. k - 1 : ~IsRelease(j, prop[k].timestamp)

\* A process requests again only after it released.
RequestsAlternate ==
  \A j, k \in Index :
    (/\ j < k
     /\ prop[j].msgType = "requestResource"
     /\ prop[k].msgType = "requestResource"
     /\ prop[j].from = prop[k].from)
      => \E i \in j .. k : IsRelease(i, prop[j].timestamp)

\* requestTimestamp[p] is the one request of p in the stream without release.
Outstanding ==
  /\ \A p \in Proc : requestTimestamp[p] # nil
       => /\ requestTimestamp[p].process = p
          /\ \E k \in Index : IsRequest(k, requestTimestamp[p])
          /\ \A k \in Index : ~IsRelease(k, requestTimestamp[p])
  /\ \A k \in Index : prop[k].msgType = "requestResource"
       => \/ requestTimestamp[prop[k].from] = prop[k].timestamp
          \/ \E i \in Index : IsRelease(i, prop[k].timestamp)
  /\ \A p \in Proc : wg[p] = IF requestTimestamp[p] = nil THEN 0 ELSE 1

\* Where each listener stands in the stream.
Cursor ==
  \A p \in Proc :
    /\ seen[p] <= Len(prop)
    /\ listener[p] # "next" => seen[p] >= 1 /\ ~Ignored(p, msg(p))
    /\ listener[p] \in {"push", "ack"} => msg(p).msgType = "requestResource"
    /\ listener[p] = "remove" => msg(p).msgType = "releaseResource"

\* receivedTime[p][q] is behind everything of q that p has not read yet.
ReceivedTimes ==
  \A p, q \in Proc :
    /\ receivedTime[p][q] <= clock[q]
    /\ p # q => \A k \in Index : k > seen[p] /\ prop[k].from = q
                                   => receivedTime[p][q] < prop[k].msgTime

\* The queue of p holds its own request and the requests of others that it
\* has handled and whose release it has not.
QueueOf(p) ==
  /\ requestTimestamp[p] # nil => requestTimestamp[p] \in requestQueue[p]
  /\ \A k \in 1 .. Handled(p) :
       (/\ prop[k].msgType = "requestResource"
        /\ prop[k].from # p
        /\ \A i \in 1 .. Handled(p) : ~IsRelease(i, prop[k].timestamp))
         => prop[k].timestamp \in requestQueue[p]
  /\ \A ts \in requestQueue[p] :
       \/ ts = requestTimestamp[p]
       \/ /\ ts.process # p
          /\ \E k \in 1 .. Handled(p) : IsRequest(k, ts)
          /\ \A i \in 1 .. Handled(p) : ~IsRelease(i, ts)

Queues == \A p \in Proc : QueueOf(p)

\* Rule 5.2 stays true for who occupies, and the resource is its.
Occupation ==
  /\ \A p \in Proc : isOccupying[p]
       => /\ requestTimestamp[p] # nil
          /\ occupiedBy = requestTimestamp[p]
          /\ \A q \in Proc \ {p} : requestTimestamp[p].time < receivedTime[p][q]
  /\ occupiedBy # nil => \E p \in Proc : isOccupying[p]

\* The last occupation is before every open request and every future one.
LastIsPast ==
  /\ \A p \in Proc : lastOccupiedBy.time <= clock[p]
  /\ \A p \in Proc : requestTimestamp[p] # nil => Less(lastOccupiedBy, requestTimestamp[p])

\* The inductive invariant: the stream, each listener's position in it, the
\* queues and the resource fit together after every critical section.
IInv ==
  /\ TypeOK
  /\ TimesGrow
  /\ RequestsAndReleases
  /\ RequestsAlternate
  /\ Outstanding
  /\ Cursor
  /\ ReceivedTimes
  /\ Queues
  /\ Occupation
  /\ OccupierIsFirst
  /\ LastIsPast
  /\ NoPanic

\* The occupations that are still to finish, as the process and the number of
\* its request: those the driver did not ask for yet, and the open requests.
Unfinished ==
  {o \in Proc \X (1 .. occupyTimes) :
     \/ o[2] > requested[o[1]]
     \/ o[2] = requested[o[1]] /\ requestTimestamp[o[1]] # nil}

\* The resource's wait group counts them.
Counted ==
  /\ pending = Cardinality(Unfinished)
  /\ \A p \in Proc : requestTimestamp[p] # nil => requested[p] > 0
=============================================================================
