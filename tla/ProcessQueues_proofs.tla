------------------------- MODULE ProcessQueues_proofs -------------------------
(***************************************************************************)
(* Proofs about ProcessQueues, for any number of processes: the queues are *)
(* heaps whose elements know their positions, and rule 5 decided at their  *)
(* roots is rule 5 of the algorithm.                                       *)
(***************************************************************************)
EXTENDS ProcessQueues, FiniteSetTheorems, TLAPS

RequestHeap == INSTANCE Heap_proofs WITH Precedes <- Less, Id <- itself
TimeHeap == INSTANCE Heap_proofs WITH Precedes <- earlier, Id <- processOf

Others == Proc \ {me}
TimeRecord == [process : Others, time : Nat]

----------------------------------------------------------------------------
(* The operations of the model are those that Heap_proofs is about.        *)

\* requestQueue.Push.
LEMMA RequestPush ==
  ASSUME NEW h, NEW e
  PROVE  Requests!Push(h, e) = RequestHeap!Push(h, e)
BY DEF Requests!Push, Requests!up, Requests!rise, Requests!Swap, Requests!PushLast,
       RequestHeap!Push, RequestHeap!up, RequestHeap!rise, RequestHeap!Swap, RequestHeap!PushLast

\* requestQueue.Remove.
LEMMA RequestRemove ==
  ASSUME NEW h, NEW i
  PROVE  Requests!RemoveAt(h, i) = RequestHeap!RemoveAt(h, i)
BY DEF Requests!RemoveAt, Requests!settle, Requests!down, Requests!sink, Requests!smallerChild,
       Requests!up, Requests!rise, Requests!Swap, Requests!PopLast,
       RequestHeap!RemoveAt, RequestHeap!settle, RequestHeap!down, RequestHeap!sink,
       RequestHeap!smallerChild, RequestHeap!up, RequestHeap!rise, RequestHeap!Swap,
       RequestHeap!PopLast

\* The heap.Push of newReceivedTime.
LEMMA TimePush ==
  ASSUME NEW h, NEW e
  PROVE  Times!Push(h, e) = TimeHeap!Push(h, e)
BY DEF Times!Push, Times!up, Times!rise, Times!Swap, Times!PushLast,
       TimeHeap!Push, TimeHeap!up, TimeHeap!rise, TimeHeap!Swap, TimeHeap!PushLast

\* The heap.Fix of receivedTime.Update.
LEMMA TimeFix ==
  ASSUME NEW h, NEW i
  PROVE  Times!Fix(h, i) = TimeHeap!Fix(h, i)
BY DEF Times!Fix, Times!settle, Times!down, Times!sink, Times!smallerChild,
       Times!up, Times!rise, Times!Swap,
       TimeHeap!Fix, TimeHeap!settle, TimeHeap!down, TimeHeap!sink,
       TimeHeap!smallerChild, TimeHeap!up, TimeHeap!rise, TimeHeap!Swap

\* What the invariant says of the requests.
LEMMA RequestWords ==
  ASSUME NEW h
  PROVE  /\ Requests!Indexed(h) <=> RequestHeap!Indexed(h)
         /\ Requests!Ordered(h.queue, Len(h.queue)) <=> RequestHeap!Ordered(h.queue, Len(h.queue))
         /\ Requests!Content(h.queue) = RequestHeap!Content(h.queue)
BY DEF Requests!Indexed, Requests!Ordered, Requests!InOrder, Requests!Content,
       RequestHeap!Indexed, RequestHeap!Ordered, RequestHeap!InOrder, RequestHeap!Content

\* What it says of the times.
LEMMA TimeWords ==
  ASSUME NEW h
  PROVE  /\ Times!Indexed(h) <=> TimeHeap!Indexed(h)
         /\ Times!Ordered(h.queue, Len(h.queue)) <=> TimeHeap!Ordered(h.queue, Len(h.queue))
         /\ Times!Content(h.queue) = TimeHeap!Content(h.queue)
BY DEF Times!Indexed, Times!Ordered, Times!InOrder, Times!Content,
       TimeHeap!Indexed, TimeHeap!Ordered, TimeHeap!InOrder, TimeHeap!Content

----------------------------------------------------------------------------
(* The orders of the two heaps.                                            *)

\* The numbers of a request.
LEMMA RequestType ==
  ASSUME NEW ts \in Request
  PROVE  ts \in Timestamp /\ ts.time \in Nat /\ ts.process \in Proc
BY QueuesAssumption DEF Request, newTimestamp, Timestamp, Proc

\* Less is a strict order of the requests.
LEMMA RequestOrdering == RequestHeap!Ordering(Request, Request)
<1>1. \A a \in Request : a.time \in Int /\ a.process \in Int
  BY RequestType, QueuesAssumption DEF Timestamp
<1>2. \A a, b \in Request : Less(a, b) => ~Less(b, a)
  BY <1>1 DEF Less
<1>3. \A a, b, c \in Request : ~Less(a, b) /\ ~Less(b, c) => ~Less(a, c)
  BY <1>1 DEF Less
<1>4. \A a \in Request : itself(a) \in Request
  BY DEF itself
<1> QED BY <1>2, <1>3, <1>4 DEF RequestHeap!Ordering

\* It decides between two requests.
LEMMA LessTotal ==
  ASSUME NEW a \in Request, NEW b \in Request, a # b, ~Less(b, a)
  PROVE  Less(a, b)
<1>1. a \in Timestamp /\ b \in Timestamp
  BY RequestType
<1> QED BY <1>1 DEF Less, Timestamp

\* The times are ordered weakly: many are equal.
LEMMA TimeOrdering == TimeHeap!Ordering(TimeRecord, Others)
<1>1. \A a \in TimeRecord : a.time \in Nat /\ a.process \in Others
  BY DEF TimeRecord
<1> QED BY <1>1 DEF TimeHeap!Ordering, earlier, processOf

----------------------------------------------------------------------------
(* The invariant.                                                          *)

\* Its part about the requests: a heap of the keys of the map.
RequestsInv(h, R) ==
  /\ RequestHeap!IsHeap(Request, Request, h)
  /\ RequestHeap!Content(h.queue) = R
  /\ R \subseteq Request

\* Its part about the times: a heap with a record of every other process.
TimesInv(h) ==
  /\ TimeHeap!IsHeap(TimeRecord, Others, h)
  /\ \A q \in Others : \E tr \in TimeHeap!Content(h.queue) : tr.process = q
  /\ Len(h.queue) = N - 1

\* The invariant is these two parts.
LEMMA IInvParts == IInv <=> RequestsInv(rpq, requestOf) /\ TimesInv(trq)
<1>1. TypeOK <=> /\ rpq \in RequestHeap!Heaps(Request, Request)
                 /\ requestOf \subseteq Request
                 /\ trq \in TimeHeap!Heaps(TimeRecord, Others)
  BY DEF TypeOK, RequestHeap!Heaps, TimeHeap!Heaps, TimeRecord, Others
<1>2. AreHeaps <=> /\ RequestHeap!Indexed(rpq)
                   /\ RequestHeap!Ordered(rpq.queue, Len(rpq.queue))
                   /\ RequestHeap!Content(rpq.queue) = requestOf
                   /\ TimeHeap!Indexed(trq)
                   /\ TimeHeap!Ordered(trq.queue, Len(trq.queue))
                   /\ \A q \in Others : \E tr \in TimeHeap!Content(trq.queue) : tr.process = q
                   /\ Len(trq.queue) = N - 1
  BY RequestWords, TimeWords, Zenon DEF AreHeaps, Others
<1> QED
  BY <1>1, <1>2 DEF IInv, RequestsInv, TimesInv, RequestHeap!IsHeap, TimeHeap!IsHeap

\* The same of the next state.
LEMMA IInvPartsNext == IInv' <=> RequestsInv(rpq', requestOf') /\ TimesInv(trq')
<1>1. TypeOK' <=> /\ rpq' \in RequestHeap!Heaps(Request, Request)
                  /\ requestOf' \subseteq Request
                  /\ trq' \in TimeHeap!Heaps(TimeRecord, Others)
  BY DEF TypeOK, RequestHeap!Heaps, TimeHeap!Heaps, TimeRecord, Others
<1>2. AreHeaps' <=> /\ RequestHeap!Indexed(rpq')
                    /\ RequestHeap!Ordered(rpq'.queue, Len(rpq'.queue))
                    /\ RequestHeap!Content(rpq'.queue) = requestOf'
                    /\ TimeHeap!Indexed(trq')
                    /\ TimeHeap!Ordered(trq'.queue, Len(trq'.queue))
                    /\ \A q \in Others : \E tr \in TimeHeap!Content(trq'.queue) : tr.process = q
                    /\ Len(trq'.queue) = N - 1
  BY RequestWords, TimeWords, Zenon DEF AreHeaps, Others
<1> QED
  BY <1>1, <1>2 DEF IInv, RequestsInv, TimesInv, RequestHeap!IsHeap, TimeHeap!IsHeap

\* Where the index field of a request leads.
LEMMA RequestAt ==
  ASSUME NEW h, NEW R, RequestsInv(h, R), NEW ts \in R
  PROVE  h.index[ts] \in 1 .. Len(h.queue) /\ h.queue[h.index[ts]] = ts
<1>1. ts \in RequestHeap!Content(h.queue)
  BY DEF RequestsInv
<1>2. PICK k \in 1 .. Len(h.queue) : ts = h.queue[k]
  BY <1>1 DEF RequestHeap!Content
<1>3. h.index[itself(h.queue[k])] = k
  BY <1>2 DEF RequestsInv, RequestHeap!IsHeap, RequestHeap!Indexed
<1> QED BY <1>2, <1>3 DEF itself

\* Where the index field of a time record leads.
LEMMA TimeAt ==
  ASSUME NEW h, TimesInv(h), NEW q \in Others
  PROVE  h.index[q] \in 1 .. Len(h.queue) /\ h.queue[h.index[q]].process = q
<1>1. PICK tr \in TimeHeap!Content(h.queue) : tr.process = q
  BY DEF TimesInv
<1>2. PICK k \in 1 .. Len(h.queue) : tr = h.queue[k]
  BY <1>1 DEF TimeHeap!Content
<1>3. h.index[processOf(h.queue[k])] = k
  BY <1>2 DEF TimesInv, TimeHeap!IsHeap, TimeHeap!Indexed
<1> QED BY <1>1, <1>2, <1>3 DEF processOf

\* requestQueue.Push keeps the requests.
LEMMA PushStep ==
  ASSUME RequestsInv(rpq, requestOf), NEW ts \in Request, Push(ts)
  PROVE  RequestsInv(rpq', requestOf')
<1>1. /\ rpq' = RequestHeap!Push(rpq, ts) /\ requestOf' = requestOf \cup {ts}
      /\ ts \notin requestOf
  BY RequestPush DEF Push
<1>2. RequestHeap!IsNew(rpq, ts)
  BY <1>1 DEF RequestsInv, RequestHeap!Content, RequestHeap!IsNew, itself
<1>3. RequestHeap!IsHeap(Request, Request, rpq)
  BY DEF RequestsInv
<1>4. /\ RequestHeap!IsHeap(Request, Request, RequestHeap!Push(rpq, ts))
      /\ RequestHeap!Content(RequestHeap!Push(rpq, ts).queue) = RequestHeap!Content(rpq.queue) \cup {ts}
  BY <1>2, <1>3, RequestOrdering, RequestHeap!PushFacts
<1> QED BY <1>1, <1>4 DEF RequestsInv

\* So does requestQueue.Remove.
LEMMA RemoveStep ==
  ASSUME RequestsInv(rpq, requestOf), NEW ts \in Request, Remove(ts)
  PROVE  RequestsInv(rpq', requestOf')
<1> DEFINE i == rpq.index[ts]
<1>1. ts \in requestOf /\ rpq' = RequestHeap!RemoveAt(rpq, i) /\ requestOf' = requestOf \ {ts}
  BY RequestRemove DEF Remove
<1>2. i \in 1 .. Len(rpq.queue) /\ rpq.queue[i] = ts
  BY <1>1, RequestAt
<1>3. RequestHeap!IsHeap(Request, Request, rpq)
  BY DEF RequestsInv
<1> HIDE DEF i
<1>4. /\ RequestHeap!IsHeap(Request, Request, RequestHeap!RemoveAt(rpq, i))
      /\ RequestHeap!Content(RequestHeap!RemoveAt(rpq, i).queue)
           = RequestHeap!Content(rpq.queue) \ {rpq.queue[i]}
  BY <1>2, <1>3, RequestOrdering, RequestHeap!RemoveFacts
<1> QED BY <1>1, <1>2, <1>4 DEF RequestsInv

\* What receivedTime.Update makes of the records.
Updated(h, q, t, h2) ==
  \A tr \in TimeHeap!Content(h2.queue) :
    tr = timeRecord(q, t) \/ (tr \in TimeHeap!Content(h.queue) /\ tr.process # q)

\* It keeps the times, but for the one it is about.
LEMMA UpdateStep ==
  ASSUME TimesInv(trq), NEW q \in Others, NEW t \in Nat, Update(q, t)
  PROVE  TimesInv(trq') /\ Updated(trq, q, t, trq')
<1> DEFINE i == trq.index[q]
           h == [trq EXCEPT !.queue[i].time = t]
           n == Len(trq.queue)
           r == [trq.queue EXCEPT ![i] = timeRecord(q, t)]
<1>1. trq' = TimeHeap!Fix(h, i)
  BY TimeFix DEF Update, update
<1>2. i \in 1 .. n /\ trq.queue[i].process = q
  BY TimeAt
<1>3. /\ TimeHeap!IsHeap(TimeRecord, Others, trq) /\ n = N - 1
      /\ \A q2 \in Others : \E tr \in TimeHeap!Content(trq.queue) : tr.process = q2
  BY DEF TimesInv
<1>4. /\ trq \in [queue : Seq(TimeRecord), index : [Others -> Nat]]
      /\ \A k \in 1 .. n : trq.index[trq.queue[k].process] = k
  BY <1>3 DEF TimeHeap!IsHeap, TimeHeap!Heaps, TimeHeap!Indexed, processOf
<1>5. trq.queue[i] \in TimeRecord /\ trq.queue \in Seq(TimeRecord) /\ n \in Nat
  BY <1>2, <1>4
<1>6. timeRecord(q, t) \in TimeRecord /\ [trq.queue[i] EXCEPT !.time = t] = timeRecord(q, t)
  BY <1>2, <1>5 DEF timeRecord, TimeRecord
<1>7. h = [queue |-> r, index |-> trq.index]
  <2>1. h = [trq EXCEPT !.queue = [trq.queue EXCEPT ![i] = [trq.queue[i] EXCEPT !.time = t]]]
    OBVIOUS
  <2>2. h = [trq EXCEPT !.queue = r]
    BY <1>6, <2>1
  <2> HIDE DEF h, r
  <2> QED BY <1>4, <2>2
<1>8. r \in Seq(TimeRecord) /\ Len(r) = n /\ r[i] = timeRecord(q, t)
      /\ \A k \in 1 .. n : k # i => r[k] = trq.queue[k]
  BY <1>2, <1>5, <1>6
<1>9. \A k \in 1 .. n : r[k].process = trq.queue[k].process
  BY <1>2, <1>8 DEF timeRecord
<1> HIDE DEF i, h, r, n
<1>10. h \in TimeHeap!Heaps(TimeRecord, Others)
  BY <1>4, <1>7, <1>8 DEF TimeHeap!Heaps
<1>11. TimeHeap!Indexed(h)
  BY <1>4, <1>7, <1>8, <1>9 DEF TimeHeap!Indexed, processOf
<1>12. Len(h.queue) = Len(trq.queue) /\ i \in 1 .. Len(trq.queue)
       /\ \A k \in 1 .. Len(trq.queue) : k # i => h.queue[k] = trq.queue[k]
  BY <1>2, <1>7, <1>8 DEF n
<1>13. /\ TimeHeap!IsHeap(TimeRecord, Others, TimeHeap!Fix(h, i))
       /\ TimeHeap!Content(TimeHeap!Fix(h, i).queue) = TimeHeap!Content(h.queue)
       /\ Len(TimeHeap!Fix(h, i).queue) = Len(h.queue)
  BY <1>3, <1>10, <1>11, <1>12, TimeOrdering, TimeHeap!FixFacts
<1>14. ASSUME NEW q2 \in Others PROVE \E tr \in TimeHeap!Content(h.queue) : tr.process = q2
  <2>1. PICK k \in 1 .. n : trq.queue[k].process = q2
    BY <1>3 DEF TimeHeap!Content, n
  <2>2. r[k] \in TimeHeap!Content(h.queue) /\ r[k].process = q2
    BY <1>7, <1>8, <1>9, <2>1 DEF TimeHeap!Content
  <2> QED BY <2>2
<1>15. TimesInv(trq')
  BY <1>1, <1>3, <1>12, <1>13, <1>14 DEF TimesInv, n
<1>16. ASSUME NEW tr \in TimeHeap!Content(h.queue)
       PROVE  tr = timeRecord(q, t) \/ (tr \in TimeHeap!Content(trq.queue) /\ tr.process # q)
  <2>1. PICK k \in 1 .. n : tr = r[k]
    BY <1>7, <1>8 DEF TimeHeap!Content
  <2>2. CASE k = i
    BY <1>8, <2>1, <2>2
  <2>3. CASE k # i
    <3>1. tr = trq.queue[k]
      BY <1>8, <2>1, <2>3
    <3>2. tr \in TimeHeap!Content(trq.queue)
      BY <2>1, <3>1 DEF TimeHeap!Content, n
    <3>3. tr.process # q
      BY <1>4, <2>1, <2>3, <3>1 DEF i
    <3> QED BY <3>2, <3>3
  <2> QED BY <2>2, <2>3
<1> QED BY <1>1, <1>13, <1>15, <1>16 DEF Updated

----------------------------------------------------------------------------
(* The initial state.                                                      *)

\* The heap when newReceivedTime has gone through the processes below n.
Filled(n, h) ==
  /\ TimeHeap!IsHeap(TimeRecord, Others, h)
  /\ Len(h.queue) = IF n > me THEN n - 1 ELSE n
  /\ \A k \in 1 .. Len(h.queue) : h.queue[k].process < n /\ h.queue[k].time = 0
  /\ \A q \in 0 .. n - 1 : q # me => \E tr \in TimeHeap!Content(h.queue) : tr.process = q

\* One time round its loop, for process m.
fill(m, h) == IF m = me THEN h ELSE Times!Push(h, timeRecord(m, 0))

\* It begins with an empty heap.
LEMMA FilledEmpty == Filled(0, emptyTimes)
<1>1. emptyTimes \in TimeHeap!Heaps(TimeRecord, Others) /\ Len(emptyTimes.queue) = 0
  BY DEF emptyTimes, TimeHeap!Heaps, Others
<1>2. 1 .. 0 = {} /\ 2 .. 0 = {} /\ 0 .. 0 - 1 = {} /\ ~(0 > me)
  BY QueuesAssumption
<1> HIDE DEF emptyTimes
<1> QED BY <1>1, <1>2 DEF Filled, TimeHeap!IsHeap, TimeHeap!Indexed, TimeHeap!Ordered

\* Each time round adds one record, and none for this process.
LEMMA FilledStep ==
  ASSUME NEW m \in 0 .. N - 1, NEW h, Filled(m, h)
  PROVE  Filled(m + 1, fill(m, h))
<1>1. m \in Nat /\ me \in Nat /\ me \in 0 .. N - 1 /\ N \in Nat
  BY QueuesAssumption
<1>2. /\ TimeHeap!IsHeap(TimeRecord, Others, h)
      /\ Len(h.queue) = IF m > me THEN m - 1 ELSE m
      /\ \A k \in 1 .. Len(h.queue) : h.queue[k].process < m /\ h.queue[k].time = 0
      /\ \A q \in 0 .. m - 1 : q # me => \E tr \in TimeHeap!Content(h.queue) : tr.process = q
  BY DEF Filled
<1>3. h.queue \in Seq(TimeRecord)
  BY <1>2 DEF TimeHeap!IsHeap, TimeHeap!Heaps
<1>4. \A k \in 1 .. Len(h.queue) : h.queue[k].process \in Nat
  <2> SUFFICES ASSUME NEW k \in 1 .. Len(h.queue) PROVE h.queue[k].process \in Nat
    OBVIOUS
  <2>1. h.queue[k] \in TimeRecord
    BY <1>3
  <2> QED BY <1>1, <2>1 DEF TimeRecord, Others, Proc
<1>5. CASE m = me
  <2>1. fill(m, h) = h
    BY <1>5 DEF fill
  <2>2. Len(h.queue) = IF m + 1 > me THEN (m + 1) - 1 ELSE m + 1
    BY <1>1, <1>2, <1>5
  <2>3. \A k \in 1 .. Len(h.queue) : h.queue[k].process < m + 1 /\ h.queue[k].time = 0
    BY <1>1, <1>2, <1>4
  <2>4. \A q \in 0 .. (m + 1) - 1 : q # me => q \in 0 .. m - 1
    BY <1>1, <1>5
  <2> QED BY <1>2, <2>1, <2>2, <2>3, <2>4 DEF Filled
<1>6. CASE m # me
  <2> DEFINE e == timeRecord(m, 0)
             h2 == TimeHeap!Push(h, e)
  <2>1. fill(m, h) = h2
    BY <1>6, TimePush DEF fill
  <2>2. e \in TimeRecord /\ e.process = m /\ e.time = 0
    BY <1>1, <1>6 DEF timeRecord, TimeRecord, Others, Proc
  <2>3. TimeHeap!IsNew(h, e)
    BY <1>1, <1>2, <1>4, <2>2 DEF TimeHeap!IsNew, processOf
  <2> HIDE DEF e
  <2>4. /\ TimeHeap!IsHeap(TimeRecord, Others, h2)
        /\ TimeHeap!Content(h2.queue) = TimeHeap!Content(h.queue) \cup {e}
        /\ Len(h2.queue) = Len(h.queue) + 1
    <3>1. TimeHeap!IsHeap(TimeRecord, Others, h) /\ e \in TimeRecord
      BY <1>2, <2>2
    <3> QED BY <2>3, <3>1, TimeOrdering, TimeHeap!PushFacts
  <2> HIDE DEF h2
  <2>5. Len(h2.queue) = IF m + 1 > me THEN (m + 1) - 1 ELSE m + 1
    BY <1>1, <1>2, <1>6, <2>4
  <2>6. ASSUME NEW k \in 1 .. Len(h2.queue) PROVE h2.queue[k].process < m + 1 /\ h2.queue[k].time = 0
    <3>1. h2.queue[k] \in TimeHeap!Content(h.queue) \cup {e}
      BY <2>4 DEF TimeHeap!Content
    <3>2. CASE h2.queue[k] = e
      BY <1>1, <2>2, <3>2
    <3>3. CASE h2.queue[k] \in TimeHeap!Content(h.queue)
      <4>1. PICK l \in 1 .. Len(h.queue) : h2.queue[k] = h.queue[l]
        BY <3>3 DEF TimeHeap!Content
      <4> QED BY <1>1, <1>2, <1>4, <4>1
    <3> QED BY <3>1, <3>2, <3>3
  <2>7. ASSUME NEW q \in 0 .. (m + 1) - 1, q # me
        PROVE  \E tr \in TimeHeap!Content(h2.queue) : tr.process = q
    <3>1. CASE q = m
      BY <2>2, <2>4, <3>1
    <3>2. CASE q # m
      <4>1. q \in 0 .. m - 1
        BY <1>1, <3>2
      <4> QED BY <1>2, <2>4, <2>7, <4>1
    <3> QED BY <3>1, <3>2
  <2> QED BY <2>1, <2>4, <2>5, <2>6, <2>7 DEF Filled
<1> QED BY <1>5, <1>6

\* A function that fills a heap step by step.
LEMMA FilledAll ==
  ASSUME NEW f, f[0] = emptyTimes, \A m \in 0 .. N - 1 : Filled(m, f[m]) => f[m + 1] = fill(m, f[m]),
         NEW n \in 0 .. N
  PROVE  Filled(n, f[n])
<1> DEFINE D == {k \in 0 .. N : ~Filled(k, f[k])}
<1> SUFFICES ASSUME D # {} PROVE FALSE
  OBVIOUS
<1>1. PICK k \in D : \A l \in D : k <= l
  <2>1. D \in SUBSET Nat
    BY QueuesAssumption
  <2> HIDE DEF D
  <2> QED BY <2>1, TimeHeap!LeastNat
<1>2. k \in 0 .. N /\ ~Filled(k, f[k]) /\ k # 0
  BY <1>1, FilledEmpty
<1>3. k - 1 \in 0 .. N - 1 /\ k - 1 \in 0 .. N /\ (k - 1) + 1 = k /\ k - 1 \notin D
  BY <1>1, <1>2, QueuesAssumption
<1>4. Filled(k - 1, f[k - 1])
  BY <1>3
<1>5. f[k] = fill(k - 1, f[k - 1])
  BY <1>3, <1>4
<1> QED BY <1>2, <1>3, <1>4, <1>5, FilledStep

\* newReceivedTime makes a heap with a record of every other process, of time 0.
LEMMA NewReceivedTime ==
  /\ TimesInv(newReceivedTime[N])
  /\ \A k \in 1 .. Len(newReceivedTime[N].queue) : newReceivedTime[N].queue[k].time = 0
<1> DEFINE S == TimeHeap!Heaps(TimeRecord, Others)
           F == [p \in Nat \X S |-> IF fill(p[1], p[2]) \in S THEN fill(p[1], p[2]) ELSE p[2]]
<1>1. N \in Nat /\ N \in 0 .. N /\ 0 \in 0 .. N /\ N > me /\ me \in 0 .. N - 1
  BY QueuesAssumption
<1>2. emptyTimes \in S
  BY FilledEmpty DEF Filled, TimeHeap!IsHeap
<1>3. F \in [Nat \X S -> S]
  OBVIOUS
<1>4. \A m \in Nat, h \in S : fill(m, h) \in S => F[<<m, h>>] = fill(m, h)
  OBVIOUS
<1>5. \A h : \A m \in Nat : Filled(m, h) => h \in S
  BY DEF Filled, TimeHeap!IsHeap
<1> HIDE DEF S, F
<1>6. PICK g : TimeHeap!IsRecursive(S, emptyTimes, F, g)
  BY <1>2, <1>3, TimeHeap!Recursion
<1>7. g \in [Nat -> S] /\ g[0] = emptyTimes /\ \A m \in Nat : g[m + 1] = F[<<m, g[m]>>]
  BY <1>6 DEF TimeHeap!IsRecursive
<1>8. ASSUME NEW m \in 0 .. N - 1, Filled(m, g[m]) PROVE g[m + 1] = fill(m, g[m])
  <2>1. m \in Nat /\ m + 1 \in Nat
    BY <1>1
  <2>2. fill(m, g[m]) \in S /\ g[m] \in S
    BY <1>5, <1>8, <2>1, FilledStep
  <2> QED BY <1>4, <1>7, <2>1, <2>2
<1>9. \A n \in 0 .. N : Filled(n, g[n])
  BY <1>7, <1>8, FilledAll
<1> DEFINE f == [n \in 0 .. N |-> g[n]]
<1>10. f = [n \in 0 .. N |-> IF n = 0 THEN emptyTimes
                              ELSE IF n - 1 = me THEN f[n - 1]
                              ELSE Times!Push(f[n - 1], timeRecord(n - 1, 0))]
  <2> SUFFICES ASSUME NEW n \in 0 .. N
               PROVE  g[n] = IF n = 0 THEN emptyTimes
                             ELSE IF n - 1 = me THEN f[n - 1]
                             ELSE Times!Push(f[n - 1], timeRecord(n - 1, 0))
    OBVIOUS
  <2>1. CASE n = 0
    BY <1>7, <2>1
  <2>2. CASE n # 0
    <3>1. n - 1 \in 0 .. N - 1 /\ n - 1 \in 0 .. N /\ (n - 1) + 1 = n
      BY <1>1, <2>2
    <3>2. g[n] = fill(n - 1, g[n - 1]) /\ f[n - 1] = g[n - 1]
      BY <1>8, <1>9, <3>1
    <3> QED BY <2>2, <3>2 DEF fill
  <2> QED BY <2>1, <2>2
<1> HIDE DEF f
<1> DEFINE nrt == newReceivedTime
<1>11. nrt = [n \in 0 .. N |-> IF n = 0 THEN emptyTimes
                                ELSE IF n - 1 = me THEN nrt[n - 1]
                                ELSE Times!Push(nrt[n - 1], timeRecord(n - 1, 0))]
  BY <1>10 DEF newReceivedTime
<1> HIDE DEF nrt
<1>12. nrt[0] = emptyTimes
  BY <1>1, <1>11
<1>13. ASSUME NEW m \in 0 .. N - 1 PROVE nrt[m + 1] = fill(m, nrt[m])
  <2>1. m + 1 \in 0 .. N /\ m + 1 # 0 /\ (m + 1) - 1 = m
    BY <1>1
  <2> QED BY <1>11, <2>1 DEF fill
<1>14. Filled(N, nrt[N])
  BY <1>1, <1>12, <1>13, FilledAll
<1> DEFINE h == nrt[N]
<1> HIDE DEF h
<1>15. /\ TimeHeap!IsHeap(TimeRecord, Others, h)
       /\ Len(h.queue) = IF N > me THEN N - 1 ELSE N
       /\ \A k \in 1 .. Len(h.queue) : h.queue[k].time = 0
       /\ \A q \in 0 .. N - 1 : q # me => \E tr \in TimeHeap!Content(h.queue) : tr.process = q
  BY <1>14 DEF Filled, h
<1>16. TimesInv(h)
  BY <1>1, <1>15 DEF TimesInv, Others, Proc
<1> QED BY <1>15, <1>16 DEF h, nrt

----------------------------------------------------------------------------
(* The theorems.                                                           *)

\* The program starts with an empty queue of requests.
LEMMA InitIInv == Init => IInv
<1> SUFFICES ASSUME Init PROVE IInv
  OBVIOUS
<1>1. TimesInv(trq)
  BY NewReceivedTime DEF Init
<1>2. rpq = [queue |-> <<>>, index |-> [ts \in Request |-> 0]] /\ requestOf = {}
  BY DEF Init
<1>3. rpq \in RequestHeap!Heaps(Request, Request) /\ Len(rpq.queue) = 0
  BY <1>2 DEF RequestHeap!Heaps
<1>4. 1 .. 0 = {} /\ 2 .. 0 = {}
  OBVIOUS
<1>5. RequestHeap!Indexed(rpq) /\ RequestHeap!Ordered(rpq.queue, Len(rpq.queue))
  BY <1>3, <1>4 DEF RequestHeap!Indexed, RequestHeap!Ordered
<1>6. RequestHeap!Content(rpq.queue) = {}
  BY <1>3, <1>4 DEF RequestHeap!Content
<1>7. RequestsInv(rpq, requestOf)
  BY <1>2, <1>3, <1>5, <1>6 DEF RequestsInv, RequestHeap!IsHeap
<1> QED BY <1>1, <1>7, IInvParts

\* Every operation of the two queues keeps both.
LEMMA NextIInv == IInv /\ [Next]_vars => IInv'
<1> SUFFICES ASSUME IInv, [Next]_vars PROVE IInv'
  OBVIOUS
<1>1. RequestsInv(rpq, requestOf) /\ TimesInv(trq)
  BY IInvParts
<1> SUFFICES RequestsInv(rpq', requestOf') /\ TimesInv(trq')
  BY IInvPartsNext
<1>2. ASSUME NEW ts \in Request, Push(ts) PROVE RequestsInv(rpq', requestOf') /\ TimesInv(trq')
  <2>1. trq' = trq
    BY <1>2 DEF Push
  <2> QED BY <1>1, <1>2, <2>1, PushStep
<1>3. ASSUME NEW ts \in Request, Remove(ts) PROVE RequestsInv(rpq', requestOf') /\ TimesInv(trq')
  <2>1. trq' = trq
    BY <1>3 DEF Remove
  <2> QED BY <1>1, <1>3, <2>1, RemoveStep
<1>4. ASSUME NEW q \in Proc \ {me}, NEW t \in 1 .. MaxTime, Update(q, t)
      PROVE  RequestsInv(rpq', requestOf') /\ TimesInv(trq')
  <2>1. rpq' = rpq /\ requestOf' = requestOf /\ q \in Others /\ t \in Nat
    BY <1>4, QueuesAssumption DEF Update, queueVars, Others
  <2> QED BY <1>1, <1>4, <2>1, UpdateStep
<1>5. CASE UNCHANGED vars
  BY <1>1, <1>5 DEF vars, queueVars
<1> QED BY <1>2, <1>3, <1>4, <1>5 DEF Next

\* The queues of a process are heaps whose elements know their positions, and
\* they hold the requests of the map and one record of every other process:
\* container/heap's up and down, run over the Swap of the code, keep it for
\* every length.
THEOREM QueuesAreHeaps == Spec => []IInv
BY InitIInv, NextIInv, PTL DEF Spec

\* The heap has as many requests as the map.
LEMMA RequestCount ==
  ASSUME NEW h, NEW R, RequestsInv(h, R)
  PROVE  Len(h.queue) = Cardinality(R)
<1> DEFINE n == Len(h.queue)
<1>1. /\ h.queue \in Seq(Request) /\ n \in Nat /\ \A k \in 1 .. n : h.index[h.queue[k]] = k
      /\ R = {h.queue[k] : k \in 1 .. n}
  BY DEF RequestsInv, RequestHeap!IsHeap, RequestHeap!Heaps, RequestHeap!Indexed,
         RequestHeap!Content, itself
<1> DEFINE f == [k \in 1 .. n |-> h.queue[k]]
<1> HIDE DEF n
<1>2. f \in [1 .. n -> R] /\ \A r \in R : \E k \in 1 .. n : f[k] = r
  BY <1>1
<1>3. \A k, l \in 1 .. n : f[k] = f[l] => k = l
  BY <1>1
<1> HIDE DEF f
<1>4. f \in Bijection(1 .. n, R)
  BY <1>2, <1>3, Zenon DEF Bijection, Injection, Surjection, IsInjective
<1>5. IsFiniteSet(1 .. n) /\ Cardinality(1 .. n) = n
  BY <1>1, FS_Interval
<1>6. ExistsBijection(1 .. n, R)
  BY <1>4 DEF ExistsBijection
<1>7. Cardinality(R) = Cardinality(1 .. n)
  BY <1>5, <1>6, FS_Bijection
<1> QED BY <1>5, <1>7 DEF n

\* The index fields lead requestQueue.Remove and receivedTime.Update to the
\* elements they mean.
THEOREM IndicesArePositions == Spec => []IndexIsPosition
<1>1. ASSUME IInv PROVE IndexIsPosition
  <2>1. RequestsInv(rpq, requestOf) /\ TimesInv(trq)
    BY <1>1, IInvParts
  <2>2. Len(rpq.queue) = Cardinality(requestOf)
    BY <2>1, RequestCount
  <2>3. \A ts \in requestOf : rpq.index[ts] \in 1 .. Len(rpq.queue) /\ rpq.queue[rpq.index[ts]] = ts
    BY <2>1, RequestAt
  <2>4. \A q \in Proc \ {me} : trq.queue[trq.index[q]].process = q
    BY <2>1, TimeAt DEF Others
  <2>5. Len(trq.queue) = N - 1
    BY <2>1 DEF TimesInv
  <2>6. DOMAIN rpq.queue = 1 .. Len(rpq.queue)
    BY <2>1 DEF RequestsInv, RequestHeap!IsHeap, RequestHeap!Heaps
  <2> QED BY <2>2, <2>3, <2>4, <2>5, <2>6 DEF IndexIsPosition
<1> QED BY <1>1, QueuesAreHeaps, PTL

\* requestQueue.Min: the root is the least request.
LEMMA MinRequestFacts ==
  ASSUME RequestsInv(rpq, requestOf), NEW ts \in requestOf
  PROVE  /\ MinRequest \in requestOf
         /\ \A ts2 \in requestOf : ~Less(ts2, MinRequest)
<1> DEFINE q == rpq.queue
<1>1. /\ q \in Seq(Request) /\ RequestHeap!Ordered(q, Len(q)) /\ requestOf = {q[k] : k \in 1 .. Len(q)}
  BY DEF RequestsInv, RequestHeap!IsHeap, RequestHeap!Heaps, RequestHeap!Content
<1>2. MinRequest = IF q = <<>> THEN nil ELSE q[1]
  BY DEF MinRequest
<1> HIDE DEF q
<1>3. q # <<>> /\ 1 \in 1 .. Len(q)
  BY <1>1
<1>4. MinRequest = q[1]
  BY <1>2, <1>3
<1>5. \A k \in 1 .. Len(q) : ~Less(q[k], q[1])
  BY <1>1, RequestOrdering, RequestHeap!RootIsLeast
<1> QED BY <1>1, <1>3, <1>4, <1>5

\* receivedTime.Min: the root has the least time of the last messages.
LEMMA MinTimeFacts ==
  ASSUME TimesInv(trq)
  PROVE  /\ MinTime \in Nat
         /\ \A q \in Others : timeOf(q) \in Nat /\ MinTime <= timeOf(q)
         /\ \E q \in Others : MinTime = timeOf(q)
<1> DEFINE r == trq.queue
<1>1. /\ r \in Seq(TimeRecord) /\ TimeHeap!Ordered(r, Len(r)) /\ Len(r) = N - 1
      /\ \A k \in 1 .. Len(r) : trq.index[r[k].process] = k
  BY DEF TimesInv, TimeHeap!IsHeap, TimeHeap!Heaps, TimeHeap!Indexed, processOf
<1>2. MinTime = r[1].time /\ \A q \in Others : timeOf(q) = r[trq.index[q]].time
  BY DEF MinTime, timeOf
<1>3. 1 \in 1 .. Len(r)
  BY <1>1, QueuesAssumption
<1>4. \A q \in Others : trq.index[q] \in 1 .. Len(r)
  BY TimeAt
<1> HIDE DEF r
<1>5. \A k \in 1 .. Len(r) : r[k] \in TimeRecord
  BY <1>1
<1>6. \A k \in 1 .. Len(r) : r[k].time \in Nat /\ r[k].process \in Others
  BY <1>5 DEF TimeRecord
<1>7. \A k \in 1 .. Len(r) : ~earlier(r[k], r[1])
  BY <1>1, TimeOrdering, TimeHeap!RootIsLeast
<1>8. \A k \in 1 .. Len(r) : r[1].time <= r[k].time
  BY <1>3, <1>6, <1>7 DEF earlier
<1>9. r[1].process \in Others /\ MinTime = timeOf(r[1].process)
  BY <1>1, <1>2, <1>3, <1>6
<1> QED BY <1>2, <1>3, <1>4, <1>6, <1>8, <1>9

\* Rule 5 decided by isSatisfiedRule5 at the roots of the two heaps is rule 5
\* of the algorithm, after any sequence of operations and for any number of
\* processes.
THEOREM RootsDecideRule5 == Spec => []Rule5Decided
<1>1. ASSUME IInv PROVE Rule5Decided
  <2> SUFFICES ASSUME NEW ts \in requestOf
               PROVE  IsSatisfiedRule5(ts) <=>
                        /\ \A ts2 \in requestOf \ {ts} : Less(ts, ts2)
                        /\ \A q \in Others : IsBefore(ts, timeOf(q))
    BY DEF Rule5Decided, Others
  <2> DEFINE r == MinRequest
  <2>1. RequestsInv(rpq, requestOf) /\ TimesInv(trq) /\ requestOf \subseteq Request
    BY <1>1, IInvParts DEF RequestsInv
  <2>2. r \in requestOf /\ \A ts2 \in requestOf : ~Less(ts2, r)
    BY <2>1, MinRequestFacts
  <2>3. /\ MinTime \in Nat /\ \A q \in Others : timeOf(q) \in Nat /\ MinTime <= timeOf(q)
        /\ \E q \in Others : MinTime = timeOf(q)
    BY <2>1, MinTimeFacts
  <2>4. ts \in Timestamp /\ r \in Timestamp /\ r # nil /\ ts.time \in Int
    BY <2>1, <2>2, RequestType, NilAssumption
  <2>5. IsEqual(ts, r) <=> ts = r
    BY <2>4 DEF IsEqual, Timestamp
  <2>6. ts = r <=> \A ts2 \in requestOf \ {ts} : Less(ts, ts2)
    BY <2>1, <2>2, LessTotal
  <2>7. IsBefore(ts, MinTime) <=> \A q \in Others : IsBefore(ts, timeOf(q))
    BY <2>3, <2>4 DEF IsBefore
  <2> QED BY <2>5, <2>6, <2>7 DEF IsSatisfiedRule5
<1> QED BY <1>1, QueuesAreHeaps, PTL

----------------------------------------------------------------------------
(* The heaps implement a set and a function.                               *)

\* receivedTime.Update changes the time of the one process.
LEMMA UpdateTimes ==
  ASSUME TimesInv(trq), TimesInv(trq'), NEW q \in Others, NEW t \in Nat, Updated(trq, q, t, trq'),
         NEW q2 \in Others
  PROVE  timeOf(q2)' = IF q2 = q THEN t ELSE timeOf(q2)
<1> DEFINE k == trq'.index[q2]
           tr == trq'.queue[k]
<1>1. k \in 1 .. Len(trq'.queue) /\ tr.process = q2
  BY TimeAt
<1>2. tr \in TimeHeap!Content(trq'.queue)
  BY <1>1 DEF TimeHeap!Content
<1>3. tr = timeRecord(q, t) \/ (tr \in TimeHeap!Content(trq.queue) /\ tr.process # q)
  BY <1>2 DEF Updated
<1>4. timeOf(q2)' = tr.time
  BY DEF timeOf
<1> HIDE DEF k, tr
<1>5. CASE q2 = q
  BY <1>1, <1>3, <1>4, <1>5 DEF timeRecord
<1>6. CASE q2 # q
  <2>1. tr \in TimeHeap!Content(trq.queue)
    BY <1>1, <1>3, <1>6 DEF timeRecord
  <2>2. PICK l \in 1 .. Len(trq.queue) : tr = trq.queue[l]
    BY <2>1 DEF TimeHeap!Content
  <2>3. trq.index[q2] = l
    BY <1>1, <2>2 DEF TimesInv, TimeHeap!IsHeap, TimeHeap!Indexed, processOf
  <2> QED BY <1>4, <1>6, <2>2, <2>3 DEF timeOf
<1> QED BY <1>5, <1>6

\* The set and the function.
held == Requests!Content(rpq.queue)
times == [q \in Proc \ {me} |-> timeOf(q)]

\* At first there are no requests and all times are 0.
LEMMA InitQueues == Init => Queues!Init
<1> SUFFICES ASSUME Init PROVE held = {} /\ times = [q \in Proc \ {me} |-> 0]
  BY DEF Queues!Init, held, times
<1>1. held = {} /\ trq = newReceivedTime[N]
  BY DEF Init, held, Requests!Content
<1>2. TimesInv(trq) /\ \A k \in 1 .. Len(trq.queue) : trq.queue[k].time = 0
  BY <1>1, NewReceivedTime
<1>3. \A q \in Others : timeOf(q) = 0
  BY <1>2, TimeAt DEF timeOf
<1> QED BY <1>1, <1>3 DEF times, Others

\* The heaps of a process implement a set of requests and the time of the last
\* message of every other process, for any number of processes: no operation
\* loses, doubles or changes an element that it is not about.
THEOREM QueuesImplemented == Spec => ImplementsQueues
<1>1. ASSUME IInv, IInv', [Next]_vars PROVE [Queues!Next]_(Queues!vars)
  <2>1. RequestsInv(rpq, requestOf) /\ TimesInv(trq) /\ TimesInv(trq')
    BY <1>1, IInvParts, IInvPartsNext
  <2>2. held = requestOf /\ held' = requestOf'
    BY <1>1 DEF IInv, AreHeaps, held
  <2>3. ASSUME NEW ts \in Request, Push(ts) PROVE Queues!Push
    <3>1. /\ \A ts2 \in held : ts2.process # ts.process
          /\ held' = held \cup {ts} /\ trq' = trq
      BY <2>3, <2>2 DEF Push
    <3>2. ts \in held' /\ times' = times
      BY <3>1 DEF times, timeOf
    <3> QED BY <3>1, <3>2 DEF Queues!Push, held, times
  <2>4. ASSUME NEW ts \in Request, Remove(ts) PROVE Queues!Remove
    <3>1. ts \in held /\ held' = held \ {ts} /\ trq' = trq
      BY <2>4, <2>2 DEF Remove
    <3>2. times' = times
      BY <3>1 DEF times, timeOf
    <3> QED BY <3>1, <3>2 DEF Queues!Remove, held, times
  <2>5. ASSUME NEW q \in Proc \ {me}, NEW t \in 1 .. MaxTime, Update(q, t) PROVE Queues!Update
    <3>1. held' = held /\ q \in Others /\ t \in Nat /\ t > timeOf(q)
      BY <2>5, <2>2, QueuesAssumption DEF Update, queueVars, Others
    <3>2. Updated(trq, q, t, trq')
      BY <2>1, <2>5, <3>1, UpdateStep
    <3>3. \A q2 \in Others : timeOf(q2)' = IF q2 = q THEN t ELSE timeOf(q2)
      BY <2>1, <3>1, <3>2, UpdateTimes
    <3>4. times' = [times EXCEPT ![q] = t] /\ times'[q] = t /\ times[q] = timeOf(q)
      BY <3>1, <3>3 DEF times, Others
    <3>5. /\ times'[q] > times[q] /\ times' = [times EXCEPT ![q] = times'[q]]
          /\ held' = held
      BY <3>1, <3>4
    <3> QED BY <2>5, <3>5 DEF Queues!Update, held, times
  <2>6. CASE UNCHANGED vars
    <3>1. held' = held /\ times' = times
      BY <2>6, <2>2 DEF vars, queueVars, times, timeOf
    <3> QED BY <3>1 DEF Queues!vars, held, times
  <2> QED BY <1>1, <2>3, <2>4, <2>5, <2>6 DEF Next, Queues!Next
<1>2. IInv /\ IInv' /\ [Next]_vars => [Queues!Next]_(Queues!vars)
  BY <1>1
<1> QED BY <1>2, InitQueues, QueuesAreHeaps, PTL DEF Spec, ImplementsQueues, Queues!Spec
===============================================================================
