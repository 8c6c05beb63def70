------------------------ MODULE MutualExclusion_proofs ------------------------
(***************************************************************************)
(* Proofs about MutualExclusion for any number of processes, any number of *)
(* requests and any initial clocks.                                        *)
(***************************************************************************)
EXTENDS MutualExclusionInv, FiniteSetTheorems, TLAPS

\* A process number is an integer, and OTHERS is none of them.
LEMMA ProcIsInt == Proc \subseteq Nat
  BY NAssumption DEF Proc

\* Less is a strict order on timestamps.
LEMMA LessOrder ==
  /\ \A a \in Timestamp : ~Less(a, a)
  /\ \A a, b \in Timestamp : Less(a, b) => ~Less(b, a)
  BY DEF Less, Timestamp

\* Timestamps with the same fields are the same timestamp.
LEMMA TimestampEq ==
  \A a, b \in Timestamp : a.time = b.time /\ a.process = b.process => a = b
  BY DEF Timestamp

\* max bounds both its arguments.
LEMMA MaxNat == \A a, b \in Nat : max(a, b) \in Nat /\ a <= max(a, b) /\ b <= max(a, b)
  BY DEF max

\* What appending one message does to the stream.
LEMMA AppendProp ==
  ASSUME prop \in Seq(Message), NEW m \in Message
  PROVE  /\ Append(prop, m) \in Seq(Message)
         /\ Len(Append(prop, m)) = Len(prop) + 1
         /\ \A k \in 1 .. Len(prop) : Append(prop, m)[k] = prop[k]
         /\ Append(prop, m)[Len(prop) + 1] = m
  OBVIOUS

\* The fields of a message in the stream.
LEMMA MessageFields ==
  ASSUME TypeOK, NEW k \in Index
  PROVE  /\ prop[k] \in Message /\ k \in Nat
         /\ prop[k].msgType \in MsgType /\ prop[k].msgTime \in Nat
         /\ prop[k].from \in Proc /\ prop[k].to \in Proc \cup {OTHERS}
         /\ prop[k].timestamp \in Timestamp
         /\ prop[k].timestamp.time \in Int /\ prop[k].timestamp.process \in Int
  <1>1. prop[k] \in Message /\ k \in Nat
    BY DEF TypeOK, Index
  <1>2. QED
    BY <1>1 DEF Message, Timestamp

\* The initial states satisfy the inductive invariant.
LEMMA InitIInv == Init => IInv
  <1> SUFFICES ASSUME Init PROVE IInv
    OBVIOUS
  <1> USE DEF Init
  <1>0. /\ clock \in [Proc -> Nat]
        /\ \A p \in Proc : clock[p] >= 0
        /\ occupations \in Int
        /\ newTimestamp(-1, -1) \in Timestamp
    <2>1. \A p \in Proc : clock[p] \in Nat
      BY InitTimeAssumption
    <2>2. occupations \in Int
      BY NAssumption, TimesAssumption DEF occupations
    <2>3. QED
      BY <2>1, <2>2 DEF newTimestamp, Timestamp
  <1>1. TypeOK
    <2>1. /\ prop \in Seq(Message) /\ seen \in [Proc -> Nat]
          /\ listener \in [Proc -> {"next", "push", "ack", "remove", "check"}]
          /\ clock \in [Proc -> Nat] /\ receivedTime \in [Proc -> [Proc -> Nat]]
      BY <1>0
    <2>2. /\ requestQueue \in [Proc -> SUBSET Timestamp]
          /\ requestTimestamp \in [Proc -> Timestamp \cup {nil}]
          /\ wg \in [Proc -> Int] /\ requested \in [Proc -> 0 .. occupyTimes]
      BY TimesAssumption
    <2>3. isOccupying \in [Proc -> BOOLEAN] /\ panicked \in BOOLEAN
      BY Zenon
    <2>4. /\ occupiedBy \in Timestamp \cup {nil} /\ lastOccupiedBy \in Timestamp
          /\ timestamps \in Seq(Timestamp) /\ pending \in Int
      BY <1>0
    <2>5. QED
      BY <2>1, <2>2, <2>3, <2>4 DEF TypeOK
  <1>2. TimesGrow /\ RequestsAndReleases /\ RequestsAlternate
    BY DEF TimesGrow, RequestsAndReleases, RequestsAlternate, Index
  <1>3. Outstanding
    BY DEF Outstanding, Index
  <1>4. Cursor /\ ReceivedTimes
    BY <1>0 DEF Cursor, ReceivedTimes, Index
  <1>5. Queues
    BY DEF Queues, QueueOf, Handled
  <1>6. Occupation /\ OccupierIsFirst
    BY DEF Occupation, OccupierIsFirst
  <1>7. LastIsPast
    BY <1>0 DEF LastIsPast, newTimestamp
  <1>8. QED
    BY <1>1, <1>2, <1>3, <1>4, <1>5, <1>6, <1>7 DEF IInv, NoPanic

\* A request message names its sender and its time, so it is unique, and a
\* release message comes after the request it names.
LEMMA RequestFacts ==
  ASSUME TypeOK, TimesGrow, RequestsAndReleases, NEW ts, NEW k \in Index, IsRequest(k, ts)
  PROVE  /\ ts \in Timestamp /\ ts.process = prop[k].from /\ ts.time = prop[k].msgTime
         /\ \A j \in Index : IsRequest(j, ts) => j = k
         /\ \A i \in Index : IsRelease(i, ts) => k < i
  <1>1. /\ ts \in Timestamp
        /\ ts.process = prop[k].from /\ ts.time = prop[k].msgTime
    <2>1. ts = newTimestamp(prop[k].msgTime, prop[k].from) /\ ts \in Timestamp
      BY MessageFields DEF IsRequest, RequestsAndReleases
    <2>2. QED
      BY <2>1 DEF newTimestamp
  <1>2. ASSUME NEW j \in Index, IsRequest(j, ts) PROVE j = k
    <2>1. ts = newTimestamp(prop[j].msgTime, prop[j].from)
      BY <1>2 DEF IsRequest, RequestsAndReleases
    <2>2. prop[j].from = prop[k].from /\ prop[j].msgTime = prop[k].msgTime
      BY <1>1, <2>1 DEF newTimestamp
    <2>3. j \in Nat /\ k \in Nat /\ prop[j].msgTime \in Nat
      BY MessageFields
    <2>4. ~(prop[j].msgTime < prop[j].msgTime)
      BY <2>3
    <2>5. ~(j < k) /\ ~(k < j)
      BY <2>2, <2>4, Zenon DEF TimesGrow
    <2>6. QED
      BY <2>3, <2>5
  <1>3. ASSUME NEW i \in Index, IsRelease(i, ts) PROVE k < i
    <2>1. PICK j \in 1 .. i - 1 : IsRequest(j, ts)
      BY <1>3 DEF IsRelease, RequestsAndReleases
    <2>2. j \in Index /\ j < i
      BY MessageFields DEF Index, TypeOK
    <2>3. QED
      BY <1>2, <2>1, <2>2
  <1>4. QED
    BY <1>1, <1>2, <1>3

\* A step that leaves the stream and the requests alone keeps what the
\* invariant says of them.
LEMMA StreamFrame ==
  ASSUME IInv, UNCHANGED <<prop, requestTimestamp, wg>>,
         \A q \in Proc : clock'[q] \in Nat /\ clock[q] <= clock'[q]
  PROVE  TimesGrow' /\ RequestsAndReleases' /\ RequestsAlternate' /\ Outstanding'
  <1>1. \A j \in Index : /\ prop[j].from \in Proc /\ prop[j].msgTime \in Nat
                          /\ clock[prop[j].from] \in Nat
    BY MessageFields DEF IInv, TypeOK
  <1>2. TimesGrow'
    BY <1>1 DEF IInv, TimesGrow, Index
  <1>3. RequestsAndReleases' /\ RequestsAlternate'
    BY DEF IInv, RequestsAndReleases, RequestsAlternate, Index, IsRequest, IsRelease
  <1>4. Outstanding'
    BY DEF IInv, Outstanding, Index, IsRequest, IsRelease
  <1>5. QED
    BY <1>2, <1>3, <1>4

\* A step that touches neither the queue of q nor what q has handled keeps
\* what the invariant says of that queue; the stream may grow.
LEMMA QueueFrame ==
  ASSUME TypeOK, Cursor, NEW q \in Proc, QueueOf(q),
         \A k \in Index : prop'[k] = prop[k],
         UNCHANGED <<seen[q], requestTimestamp[q], requestQueue[q]>>,
         (listener'[q] \in {"push", "remove"}) = (listener[q] \in {"push", "remove"})
  PROVE  QueueOf(q)'
  <1>1. Handled(q)' = Handled(q)
    BY DEF Handled
  <1>2. 1 .. Handled(q) \subseteq Index
    BY DEF Handled, Cursor, TypeOK, Index
  <1>3. \A k \in 1 .. Handled(q) : prop'[k] = prop[k]
    BY <1>2
  <1>4. QED
    BY <1>1, <1>3 DEF QueueOf, IsRequest, IsRelease

\* Reading a message never moves a received time back: what is unread of a
\* sender is later than all that was read of it.
LEMMA ReceiveMonotone ==
  ASSUME IInv, NEW p \in Proc, Receive(p), NEW a \in Proc, NEW b \in Proc
  PROVE  receivedTime[a][b] <= receivedTime'[a][b]
  <1>1. PICK k \in seen[p] + 1 .. Len(prop) :
          /\ ~Ignored(p, prop[k])
          /\ receivedTime' = [receivedTime EXCEPT ![p][prop[k].from] = prop[k].msgTime]
    BY DEF Receive
  <1>2. TypeOK
    BY DEF IInv
  <1>3. k \in Index /\ k > seen[p]
    <2>1. seen[p] \in Nat /\ Len(prop) \in Nat
      BY <1>2 DEF TypeOK
    <2>2. QED
      BY <2>1 DEF Index
  <1>4. prop[k].msgTime \in Nat /\ prop[k].from \in Proc /\ prop[k].from # p
    BY <1>1, <1>2, <1>3, MessageFields DEF Ignored
  <1>5. CASE a = p /\ b = prop[k].from
    <2>1. receivedTime'[a][b] = prop[k].msgTime
      BY <1>1, <1>2, <1>4, <1>5 DEF TypeOK
    <2>2. receivedTime[p][prop[k].from] < prop[k].msgTime
      BY <1>3, <1>4 DEF IInv, ReceivedTimes
    <2>3. QED
      BY <2>1, <2>2, <1>2, <1>4, <1>5 DEF TypeOK
  <1>6. CASE ~(a = p /\ b = prop[k].from)
    <2>1. receivedTime'[a][b] = receivedTime[a][b] /\ receivedTime[a][b] \in Nat
      BY <1>1, <1>2, <1>6 DEF TypeOK
    <2>2. QED
      BY <2>1
  <1>7. QED
    BY <1>5, <1>6

\* Reading a message keeps the invariant.
LEMMA ReceiveIInv == ASSUME IInv, NEW p \in Proc, Receive(p) PROVE IInv'
  <1>0. PICK k \in seen[p] + 1 .. Len(prop) :
          /\ \A j \in seen[p] + 1 .. k - 1 : Ignored(p, prop[j])
          /\ ~Ignored(p, prop[k])
          /\ seen' = [seen EXCEPT ![p] = k]
          /\ clock' = [clock EXCEPT ![p] = max(@, prop[k].msgTime + 1)]
          /\ receivedTime' = [receivedTime EXCEPT ![p][prop[k].from] = prop[k].msgTime]
          /\ listener' = [listener EXCEPT ![p] = NextStep(prop[k].msgType)]
    BY DEF Receive, UpdateClock
  <1>1. /\ UNCHANGED <<prop, requestQueue, isOccupying, requestTimestamp, wg, requested,
                       resourceVars, panicked>>
        /\ listener[p] = "next"
    BY DEF Receive
  <1>2. TypeOK /\ Cursor /\ Queues
    BY DEF IInv
  <1>3. /\ prop \in Seq(Message) /\ Len(prop) \in Nat
        /\ seen \in [Proc -> Nat] /\ seen[p] \in Nat /\ clock \in [Proc -> Nat]
    BY <1>2 DEF TypeOK
  <1>4. k \in Index /\ k \in Nat /\ k > seen[p]
    BY <1>3 DEF Index
  <1>5. /\ prop[k].msgTime \in Nat /\ prop[k].from \in Proc /\ prop[k].from # p
        /\ prop[k].msgType \in MsgType
    BY <1>0, <1>2, <1>4, MessageFields DEF Ignored
  <1>6. /\ NextStep(prop[k].msgType) \in {"push", "remove", "check"}
        /\ NextStep(prop[k].msgType) = "push" <=> prop[k].msgType = "requestResource"
        /\ NextStep(prop[k].msgType) = "remove" <=> prop[k].msgType = "releaseResource"
    BY <1>5 DEF NextStep, MsgType
  <1>7. /\ clock' \in [Proc -> Nat]
        /\ \A q \in Proc : clock'[q] \in Nat /\ clock[q] <= clock'[q]
    <2>1. /\ max(clock[p], prop[k].msgTime + 1) \in Nat
          /\ clock[p] <= max(clock[p], prop[k].msgTime + 1)
      <3>1. clock[p] \in Nat /\ prop[k].msgTime + 1 \in Nat
        BY <1>3, <1>5
      <3>2. QED
        BY <3>1, MaxNat
    <2>2. QED
      BY <1>0, <1>3, <2>1
  <1>8. TypeOK'
    <2>1. seen' \in [Proc -> Nat]
      BY <1>0, <1>3, <1>4
    <2>2. listener' \in [Proc -> {"next", "push", "ack", "remove", "check"}]
      BY <1>0, <1>2, <1>6 DEF TypeOK
    <2>3. receivedTime' \in [Proc -> [Proc -> Nat]]
      BY <1>0, <1>2, <1>5 DEF TypeOK
    <2>4. QED
      BY <1>1, <1>2, <1>7, <2>1, <2>2, <2>3 DEF TypeOK, resourceVars
  <1>9. TimesGrow' /\ RequestsAndReleases' /\ RequestsAlternate' /\ Outstanding'
    BY <1>1, <1>7, StreamFrame
  <1>10. Cursor'
    <2> SUFFICES ASSUME NEW q \in Proc
                 PROVE  /\ seen'[q] <= Len(prop)
                        /\ listener'[q] # "next" => seen'[q] >= 1 /\ ~Ignored(q, prop[seen'[q]])
                        /\ listener'[q] \in {"push", "ack"} => prop[seen'[q]].msgType = "requestResource"
                        /\ listener'[q] = "remove" => prop[seen'[q]].msgType = "releaseResource"
      BY <1>1 DEF Cursor, msg, Ignored
    <2>1. CASE q = p
      <3>1. seen'[q] = k /\ listener'[q] = NextStep(prop[k].msgType)
        BY <2>1, <1>0, <1>2 DEF TypeOK
      <3>2. k <= Len(prop) /\ k >= 1
        BY <1>3, <1>4
      <3>3. QED
        BY <2>1, <3>1, <3>2, <1>0, <1>6
    <2>2. CASE q # p
      <3>1. seen'[q] = seen[q] /\ listener'[q] = listener[q]
        BY <2>2, <1>0, <1>2 DEF TypeOK
      <3>2. QED
        BY <3>1, <1>2 DEF Cursor, msg
    <2>3. QED
      BY <2>1, <2>2
  <1>11. \A a, b \in Proc : /\ receivedTime[a][b] \in Nat /\ receivedTime'[a][b] \in Nat
                            /\ receivedTime[a][b] <= receivedTime'[a][b]
    BY <1>2, <1>8, ReceiveMonotone DEF TypeOK
  <1>12. ReceivedTimes'
    <2> SUFFICES ASSUME NEW a \in Proc, NEW b \in Proc
                 PROVE  /\ receivedTime'[a][b] <= clock'[b]
                        /\ a # b => \A i \in Index : i > seen'[a] /\ prop[i].from = b
                                                       => receivedTime'[a][b] < prop[i].msgTime
      BY <1>1 DEF ReceivedTimes, Index
    <2>1. CASE a = p /\ b = prop[k].from
      <3>1. receivedTime'[a][b] = prop[k].msgTime
        BY <2>1, <1>0, <1>2, <1>5 DEF TypeOK
      <3>2. prop[k].msgTime <= clock[b]
        BY <2>1, <1>4 DEF IInv, TimesGrow
      <3>3. prop[k].msgTime <= clock'[b]
        BY <3>2, <1>3, <1>5, <1>7
      <3>4. seen'[a] = k
        BY <2>1, <1>0, <1>3
      <3>5. \A i \in Index : i > k /\ prop[i].from = prop[k].from => prop[k].msgTime < prop[i].msgTime
        <4>1. \A i \in Index : i > k => k < i
          BY <1>3, <1>4 DEF Index
        <4>2. QED
          BY <4>1, <1>4 DEF IInv, TimesGrow
      <3>6. QED
        BY <2>1, <3>1, <3>3, <3>4, <3>5
    <2>2. CASE ~(a = p /\ b = prop[k].from)
      <3>1. receivedTime'[a][b] = receivedTime[a][b] /\ receivedTime[a][b] \in Nat
        BY <2>2, <1>0, <1>2 DEF TypeOK
      <3>2. \A i \in Index : i > seen'[a] => i > seen[a]
        <4>1. CASE a = p
          BY <4>1, <1>0, <1>3, <1>4 DEF Index
        <4>2. CASE a # p
          BY <4>2, <1>0, <1>3
        <4>3. QED
          BY <4>1, <4>2
      <3>3. receivedTime[a][b] <= clock[b]
        BY DEF IInv, ReceivedTimes
      <3>4. receivedTime[a][b] <= clock'[b]
        BY <3>1, <3>3, <1>3, <1>7
      <3>5. a # b => \A i \in Index : i > seen[a] /\ prop[i].from = b
                                        => receivedTime[a][b] < prop[i].msgTime
        BY DEF IInv, ReceivedTimes
      <3>6. QED
        BY <3>1, <3>2, <3>4, <3>5
    <2>3. QED
      BY <2>1, <2>2
  <1>13. Queues'
    <2> SUFFICES ASSUME NEW q \in Proc PROVE QueueOf(q)'
      BY DEF Queues
    <2>1. CASE q # p
      <3>1. UNCHANGED <<seen[q], requestTimestamp[q], requestQueue[q], listener[q]>>
        BY <2>1, <1>0, <1>1, <1>2 DEF TypeOK
      <3>2. QED
        BY <3>1, <1>1, <1>2, QueueFrame DEF Queues
    <2>2. CASE q = p
      <3>0. QueueOf(p)
        BY <1>2 DEF Queues
      <3>1. Handled(p) = seen[p]
        BY <1>1 DEF Handled
      <3>2. Handled(p)' = IF prop[k].msgType \in {"requestResource", "releaseResource"} THEN k - 1 ELSE k
        BY <1>0, <1>2, <1>3, <1>6 DEF Handled, TypeOK
      <3>3. /\ Handled(p)' \in Nat /\ seen[p] <= Handled(p)' /\ Handled(p)' <= Len(prop)
            /\ Handled(p)' <= k
        BY <3>2, <1>3, <1>4
      <3>4. ASSUME NEW i \in seen[p] + 1 .. Handled(p)'
            PROVE  /\ i \in Index
                   /\ prop[i].msgType = "requestResource" => prop[i].from = p
                   /\ prop[i].msgType = "releaseResource" => prop[i].timestamp.process = p
        <4>1. i \in Index /\ i \in Nat
          BY <3>3, <1>3 DEF Index
        <4>2. CASE i = k
          BY <4>1, <4>2, <3>2, <3>3, <1>4
        <4>3. CASE i # k
          <5>1. Ignored(p, prop[i])
            BY <4>1, <4>3, <3>3, <1>0, <1>3, <1>4
          <5>2. QED
            BY <4>1, <5>1 DEF Ignored, IInv, RequestsAndReleases
        <4>4. QED
          BY <4>2, <4>3
      <3>5. \A i \in 1 .. Handled(p)' : i \in 1 .. seen[p] \/ i \in seen[p] + 1 .. Handled(p)'
        BY <3>3, <1>3
      <3>6. \A i \in 1 .. seen[p] : i \in 1 .. Handled(p)'
        BY <3>3, <1>3
      <3>7. ASSUME NEW i \in 1 .. Handled(p)', prop[i].msgType = "requestResource", prop[i].from # p,
                   \A j \in 1 .. Handled(p)' : ~IsRelease(j, prop[i].timestamp)
            PROVE  prop[i].timestamp \in requestQueue[p]
        <4>1. i \in 1 .. seen[p]
          BY <3>4, <3>5, <3>7
        <4>2. QED
          BY <4>1, <3>0, <3>1, <3>6, <3>7 DEF QueueOf
      <3>8. ASSUME NEW ts \in requestQueue[p], ts # requestTimestamp[p]
            PROVE  /\ ts.process # p
                   /\ \E j \in 1 .. Handled(p)' : IsRequest(j, ts)
                   /\ \A j \in 1 .. Handled(p)' : ~IsRelease(j, ts)
        <4>1. /\ ts.process # p
              /\ \E j \in 1 .. seen[p] : IsRequest(j, ts)
              /\ \A j \in 1 .. seen[p] : ~IsRelease(j, ts)
          BY <3>0, <3>1, <3>8 DEF QueueOf
        <4>2. \A j \in seen[p] + 1 .. Handled(p)' : ~IsRelease(j, ts)
          BY <4>1, <3>4 DEF IsRelease
        <4>3. QED
          BY <4>1, <4>2, <3>5, <3>6
      <3>9. requestTimestamp[p] # nil => requestTimestamp[p] \in requestQueue[p]
        BY <3>0 DEF QueueOf
      <3>10. QED
        BY <2>2, <1>1, <3>7, <3>8, <3>9 DEF QueueOf, IsRequest, IsRelease
    <2>3. QED
      BY <2>1, <2>2
  <1>14. Occupation'
    <2>1. ASSUME NEW a \in Proc, isOccupying[a], NEW b \in Proc \ {a}
          PROVE  requestTimestamp[a].time < receivedTime'[a][b]
      <3>1. /\ requestTimestamp[a] # nil
            /\ requestTimestamp[a].time < receivedTime[a][b]
        BY <2>1 DEF IInv, Occupation
      <3>2. requestTimestamp[a].time \in Int
        BY <3>1, <1>2 DEF TypeOK, Timestamp
      <3>3. QED
        BY <3>1, <3>2, <1>11
    <2>2. QED
      BY <1>1, <2>1 DEF IInv, Occupation, resourceVars
  <1>15. OccupierIsFirst' /\ NoPanic'
    BY <1>1 DEF IInv, OccupierIsFirst, NoPanic
  <1>16. LastIsPast'
    <2>1. lastOccupiedBy.time \in Int
      BY <1>2 DEF TypeOK, Timestamp
    <2>2. \A q \in Proc : lastOccupiedBy.time <= clock'[q]
      BY <2>1, <1>3, <1>7 DEF IInv, LastIsPast
    <2>3. QED
      BY <2>2, <1>1 DEF IInv, LastIsPast, resourceVars
  <1>17. QED
    BY <1>8, <1>9, <1>10, <1>12, <1>13, <1>14, <1>15, <1>16 DEF IInv

\* Rule 2.1 keeps the invariant: the request pushed is not released in the
\* part of the stream the process has handled.
LEMMA PushRequestIInv == ASSUME IInv, NEW p \in Proc, PushRequest(p) PROVE IInv'
  <1>1. /\ listener[p] = "push"
        /\ requestQueue' = [requestQueue EXCEPT ![p] = @ \cup {prop[seen[p]].timestamp}]
        /\ listener' = [listener EXCEPT ![p] = "ack"]
        /\ UNCHANGED <<prop, seen, clock, receivedTime, isOccupying, requestTimestamp, wg,
                       requested, resourceVars, panicked>>
    BY DEF PushRequest, msg
  <1>2. TypeOK /\ Cursor /\ Queues /\ TimesGrow /\ RequestsAndReleases
    BY DEF IInv
  <1>3. DEFINE k == seen[p]
               ts == prop[k].timestamp
  <1>4. /\ k \in Index /\ k \in Nat /\ k >= 1 /\ Len(prop) \in Nat
        /\ prop[k].from # p /\ prop[k].msgType = "requestResource"
    BY <1>1, <1>2 DEF Cursor, TypeOK, Index, Ignored, msg
  <1>5. IsRequest(k, ts)
    BY <1>4 DEF IsRequest
  <1>6. TypeOK'
    <2>1. requestQueue' \in [Proc -> SUBSET Timestamp]
      BY <1>1, <1>2, <1>4, MessageFields DEF TypeOK
    <2>2. listener' \in [Proc -> {"next", "push", "ack", "remove", "check"}]
      BY <1>1, <1>2 DEF TypeOK
    <2>3. QED
      BY <1>1, <1>2, <2>1, <2>2 DEF TypeOK, resourceVars
  <1>7. TimesGrow' /\ RequestsAndReleases' /\ RequestsAlternate' /\ Outstanding'
    <2>1. \A q \in Proc : clock'[q] \in Nat /\ clock[q] <= clock'[q]
      BY <1>1, <1>2 DEF TypeOK
    <2>2. QED
      BY <1>1, <2>1, StreamFrame
  <1>8. Cursor'
    BY <1>1, <1>2, <1>4 DEF Cursor, TypeOK, msg, Ignored
  <1>9. Queues'
    <2> SUFFICES ASSUME NEW q \in Proc PROVE QueueOf(q)'
      BY DEF Queues
    <2>1. CASE q # p
      <3>1. UNCHANGED <<seen[q], requestTimestamp[q], requestQueue[q], listener[q]>>
        BY <2>1, <1>1, <1>2 DEF TypeOK
      <3>2. QED
        BY <3>1, <1>1, <1>2, QueueFrame DEF Queues
    <2>2. CASE q = p
      <3>0. QueueOf(p) /\ requestQueue'[p] = requestQueue[p] \cup {ts}
        BY <1>1, <1>2 DEF Queues, TypeOK
      <3>1. Handled(p) = k - 1 /\ Handled(p)' = k
        BY <1>1, <1>2 DEF Handled, TypeOK
      <3>2. \A i \in 1 .. k : i \in 1 .. k - 1 \/ i = k
        BY <1>4
      <3>3. \A i \in 1 .. k - 1 : i \in 1 .. k
        BY <1>4
      <3>4. \A ts2 : ~IsRelease(k, ts2)
        BY <1>4 DEF IsRelease
      <3>5. ts.process # p /\ \A i \in 1 .. k : ~IsRelease(i, ts)
        <4>1. \A i \in 1 .. k : i \in Index /\ ~(k < i)
          BY <1>4 DEF Index
        <4>2. QED
          BY <4>1, <1>2, <1>4, <1>5, RequestFacts
      <3>6. ASSUME NEW i \in 1 .. k, prop[i].msgType = "requestResource", prop[i].from # p,
                   \A j \in 1 .. k : ~IsRelease(j, prop[i].timestamp)
            PROVE  prop[i].timestamp \in requestQueue'[p]
        BY <3>0, <3>1, <3>2, <3>3, <3>6 DEF QueueOf
      <3>7. ASSUME NEW ts2 \in requestQueue'[p], ts2 # requestTimestamp[p]
            PROVE  /\ ts2.process # p
                   /\ \E j \in 1 .. k : IsRequest(j, ts2)
                   /\ \A j \in 1 .. k : ~IsRelease(j, ts2)
        <4>1. CASE ts2 = ts
          <5>1. k \in 1 .. k
            BY <1>4
          <5>2. QED
            BY <4>1, <5>1, <3>5, <1>5
        <4>2. CASE ts2 # ts
          <5>1. /\ ts2.process # p
                /\ \E j \in 1 .. k - 1 : IsRequest(j, ts2)
                /\ \A j \in 1 .. k - 1 : ~IsRelease(j, ts2)
            BY <3>0, <3>1, <3>7, <4>2 DEF QueueOf
          <5>2. QED
            BY <5>1, <3>2, <3>3, <3>4
        <4>3. QED
          BY <4>1, <4>2
      <3>8. requestTimestamp[p] # nil => requestTimestamp[p] \in requestQueue'[p]
        BY <3>0 DEF QueueOf
      <3>9. QED
        BY <2>2, <1>1, <3>1, <3>6, <3>7, <3>8 DEF QueueOf, IsRequest, IsRelease
    <2>3. QED
      BY <2>1, <2>2
  <1>10. ReceivedTimes' /\ Occupation' /\ OccupierIsFirst' /\ LastIsPast' /\ NoPanic'
    BY <1>1 DEF IInv, ReceivedTimes, Occupation, OccupierIsFirst, LastIsPast, NoPanic,
                resourceVars, Index
  <1>11. QED
    BY <1>6, <1>7, <1>8, <1>9, <1>10 DEF IInv

\* Rule 4 keeps the invariant, and the queue holds the request it removes.
LEMMA HandleReleaseMessageIInv ==
  ASSUME IInv, NEW p \in Proc, HandleReleaseMessage(p) PROVE IInv'
  <1>1. /\ listener[p] = "remove"
        /\ panicked' = (prop[seen[p]].timestamp \notin requestQueue[p])
        /\ requestQueue' = [requestQueue EXCEPT ![p] = @ \ {prop[seen[p]].timestamp}]
        /\ listener' = [listener EXCEPT ![p] = "check"]
        /\ UNCHANGED <<prop, seen, clock, receivedTime, isOccupying, requestTimestamp, wg,
                       requested, resourceVars>>
    BY DEF HandleReleaseMessage, msg
  <1>2. TypeOK /\ Cursor /\ Queues /\ TimesGrow /\ RequestsAndReleases /\ Outstanding
    BY DEF IInv
  <1>3. DEFINE k == seen[p]
               ts == prop[k].timestamp
  <1>4. /\ k \in Index /\ k \in Nat /\ k >= 1 /\ Len(prop) \in Nat
        /\ prop[k].from # p /\ prop[k].msgType = "releaseResource"
    BY <1>1, <1>2 DEF Cursor, TypeOK, Index, Ignored, msg
  <1>5. /\ ts.process = prop[k].from
        /\ \A j \in 1 .. k - 1 : ~IsRelease(j, ts)
    BY <1>2, <1>4 DEF RequestsAndReleases
  <1>6. PICK r \in 1 .. k - 1 : IsRequest(r, ts)
    BY <1>2, <1>4 DEF RequestsAndReleases
  <1>7. QueueOf(p) /\ Handled(p) = k - 1 /\ Handled(p)' = k
    BY <1>1, <1>2 DEF Handled, TypeOK, Queues
  <1>8. ts \in requestQueue[p]
    <2>1. r \in Index
      BY <1>4 DEF Index
    <2>2. prop[r].from # p /\ prop[r].timestamp = ts /\ prop[r].msgType = "requestResource"
      BY <2>1, <1>2, <1>4, <1>5, <1>6, RequestFacts DEF IsRequest
    <2>3. QED
      BY <2>2, <1>5, <1>7 DEF QueueOf
  <1>9. NoPanic'
    BY <1>1, <1>8 DEF NoPanic
  <1>10. TypeOK'
    <2>1. requestQueue' \in [Proc -> SUBSET Timestamp]
      BY <1>1, <1>2 DEF TypeOK
    <2>2. listener' \in [Proc -> {"next", "push", "ack", "remove", "check"}]
      BY <1>1, <1>2 DEF TypeOK
    <2>3. panicked' \in BOOLEAN
      BY <1>1, Zenon
    <2>4. QED
      BY <1>1, <1>2, <2>1, <2>2, <2>3 DEF TypeOK, resourceVars
  <1>11. TimesGrow' /\ RequestsAndReleases' /\ RequestsAlternate' /\ Outstanding'
    <2>1. \A q \in Proc : clock'[q] \in Nat /\ clock[q] <= clock'[q]
      BY <1>1, <1>2 DEF TypeOK
    <2>2. QED
      BY <1>1, <2>1, StreamFrame
  <1>12. Cursor'
    BY <1>1, <1>2, <1>4 DEF Cursor, TypeOK, msg, Ignored
  <1>13. Queues'
    <2> SUFFICES ASSUME NEW q \in Proc PROVE QueueOf(q)'
      BY DEF Queues
    <2>1. CASE q # p
      <3>1. UNCHANGED <<seen[q], requestTimestamp[q], requestQueue[q], listener[q]>>
        BY <2>1, <1>1, <1>2 DEF TypeOK
      <3>2. QED
        BY <3>1, <1>1, <1>2, QueueFrame DEF Queues
    <2>2. CASE q = p
      <3>0. requestQueue'[p] = requestQueue[p] \ {ts}
        BY <1>1, <1>2 DEF TypeOK
      <3>1. \A i \in 1 .. k : i \in 1 .. k - 1 \/ i = k
        BY <1>4
      <3>2. \A i \in 1 .. k - 1 : i \in 1 .. k
        BY <1>4
      <3>3. IsRelease(k, ts) /\ k \in 1 .. k /\ \A ts2 : ~IsRequest(k, ts2)
        BY <1>4 DEF IsRelease, IsRequest
      <3>4. ASSUME NEW i \in 1 .. k, prop[i].msgType = "requestResource", prop[i].from # p,
                   \A j \in 1 .. k : ~IsRelease(j, prop[i].timestamp)
            PROVE  prop[i].timestamp \in requestQueue'[p]
        <4>1. prop[i].timestamp # ts /\ i \in 1 .. k - 1
          BY <3>1, <3>3, <3>4, <1>4
        <4>2. QED
          BY <4>1, <3>0, <3>2, <3>4, <1>7 DEF QueueOf
      <3>5. ASSUME NEW ts2 \in requestQueue'[p], ts2 # requestTimestamp[p]
            PROVE  /\ ts2.process # p
                   /\ \E j \in 1 .. k : IsRequest(j, ts2)
                   /\ \A j \in 1 .. k : ~IsRelease(j, ts2)
        <4>1. /\ ts2.process # p
              /\ \E j \in 1 .. k - 1 : IsRequest(j, ts2)
              /\ \A j \in 1 .. k - 1 : ~IsRelease(j, ts2)
          BY <3>0, <3>5, <1>7 DEF QueueOf
        <4>2. ~IsRelease(k, ts2)
          BY <3>0, <3>5 DEF IsRelease
        <4>3. QED
          BY <4>1, <4>2, <3>1, <3>2
      <3>6. requestTimestamp[p] # nil => requestTimestamp[p] \in requestQueue'[p]
        BY <3>0, <1>2, <1>4, <1>5, <1>7 DEF QueueOf, Outstanding
      <3>7. QED
        BY <2>2, <1>1, <1>7, <3>4, <3>5, <3>6 DEF QueueOf, IsRequest, IsRelease
    <2>3. QED
      BY <2>1, <2>2
  <1>14. ReceivedTimes' /\ Occupation' /\ OccupierIsFirst' /\ LastIsPast'
    BY <1>1 DEF IInv, ReceivedTimes, Occupation, OccupierIsFirst, LastIsPast,
                resourceVars, Index
  <1>15. QED
    BY <1>9, <1>10, <1>11, <1>12, <1>13, <1>14 DEF IInv

\* A request that satisfies rule 5 is before every open request, the ones
\* that are still unread included.
LEMMA Rule5First ==
  ASSUME IInv, NEW p \in Proc, listener[p] = "check", IsSatisfiedRule5(p),
         NEW q \in Proc \ {p}, requestTimestamp[q] # nil
  PROVE  Less(requestTimestamp[p], requestTimestamp[q])
  <1>1. TypeOK /\ TimesGrow /\ RequestsAndReleases /\ Outstanding /\ Cursor /\ Queues /\ ReceivedTimes
    BY DEF IInv
  <1>2. DEFINE ts == requestTimestamp[p]
               ts2 == requestTimestamp[q]
  <1>3. /\ ts \in Timestamp /\ ts2 \in Timestamp /\ ts.process = p /\ ts2.process = q
        /\ ts.time \in Int /\ ts2.time \in Int
    BY <1>1 DEF TypeOK, Outstanding, IsSatisfiedRule5, Timestamp
  <1>4. PICK k \in Index : IsRequest(k, ts2)
    BY <1>1 DEF Outstanding
  <1>5. prop[k].from = q /\ prop[k].msgTime = ts2.time /\ prop[k].timestamp = ts2
        /\ prop[k].msgType = "requestResource"
    BY <1>1, <1>3, <1>4, RequestFacts DEF IsRequest
  <1>6. seen[p] \in Nat /\ Len(prop) \in Nat /\ k \in Nat /\ seen[p] <= Len(prop) /\ k >= 1
    BY <1>1 DEF TypeOK, Index, Cursor
  <1>7. CASE k > seen[p]
    <2>1. receivedTime[p][q] < ts2.time
      BY <1>1, <1>5, <1>7 DEF ReceivedTimes
    <2>2. ts.time < receivedTime[p][q] /\ receivedTime[p][q] \in Nat
      BY <1>1 DEF IsSatisfiedRule5, IsBefore, TypeOK
    <2>3. QED
      BY <2>1, <2>2, <1>3 DEF Less
  <1>8. CASE k <= seen[p]
    <2>1. Handled(p) = seen[p] /\ k \in 1 .. seen[p]
      BY <1>6, <1>8 DEF Handled
    <2>2. \A i \in 1 .. seen[p] : ~IsRelease(i, ts2)
      <3>1. 1 .. seen[p] \subseteq Index
        BY <1>6 DEF Index
      <3>2. QED
        BY <3>1, <1>1 DEF Outstanding
    <2>3. ts2 \in requestQueue[p]
      BY <2>1, <2>2, <1>1, <1>5 DEF Queues, QueueOf
    <2>4. PICK root \in requestQueue[p] : /\ \A ts3 \in requestQueue[p] \ {root} : Less(root, ts3)
                                          /\ IsEqual(ts, root)
      BY DEF IsSatisfiedRule5, IsMin
    <2>5. root \in Timestamp /\ root = ts
      <3>1. root \in Timestamp
        BY <1>1 DEF TypeOK
      <3>2. QED
        BY <3>1, <2>4, <1>3, TimestampEq DEF IsEqual
    <2>6. ts2 # ts
      BY <1>3
    <2>7. QED
      BY <2>3, <2>4, <2>5, <2>6
  <1>9. QED
    BY <1>6, <1>7, <1>8

\* Checking rule 5 keeps the invariant: Occupy does not panic.
LEMMA CheckRule5IInv == ASSUME IInv, NEW p \in Proc, CheckRule5(p) PROVE IInv'
  <1>1. /\ listener[p] = "check"
        /\ listener' = [listener EXCEPT ![p] = "next"]
        /\ UNCHANGED <<prop, seen, clock, receivedTime, requestQueue, requestTimestamp, wg,
                       requested>>
    BY DEF CheckRule5
  <1>2. TypeOK /\ Cursor /\ Queues /\ Occupation /\ OccupierIsFirst /\ LastIsPast /\ NoPanic
        /\ Outstanding
    BY DEF IInv
  <1>3. listener' \in [Proc -> {"next", "push", "ack", "remove", "check"}]
    BY <1>1, <1>2 DEF TypeOK
  <1>4. TimesGrow' /\ RequestsAndReleases' /\ RequestsAlternate' /\ Outstanding'
    <2>1. \A q \in Proc : clock'[q] \in Nat /\ clock[q] <= clock'[q]
      BY <1>1, <1>2 DEF TypeOK
    <2>2. QED
      BY <1>1, <2>1, StreamFrame
  <1>5. Cursor'
    BY <1>1, <1>2 DEF Cursor, TypeOK, msg, Ignored
  <1>6. Queues'
    <2> SUFFICES ASSUME NEW q \in Proc PROVE QueueOf(q)'
      BY DEF Queues
    <2>1. /\ UNCHANGED <<seen[q], requestTimestamp[q], requestQueue[q]>>
          /\ \A k \in Index : prop'[k] = prop[k]
      BY <1>1
    <2>2. (listener'[q] \in {"push", "remove"}) = (listener[q] \in {"push", "remove"})
      BY <1>1, <1>2 DEF TypeOK
    <2>3. QED
      BY <2>1, <2>2, <1>2, QueueFrame DEF Queues
  <1>7. ReceivedTimes'
    BY <1>1 DEF IInv, ReceivedTimes, Index
  <1>8. CASE IsSatisfiedRule5(p)
    <2>1. /\ isOccupying' = [isOccupying EXCEPT ![p] = TRUE]
          /\ Occupy(requestTimestamp[p])
      BY <1>8 DEF CheckRule5
    <2>2. /\ ~isOccupying[p] /\ requestTimestamp[p] # nil /\ requestTimestamp[p] \in Timestamp
          /\ \A q \in Proc \ {p} : requestTimestamp[p].time < receivedTime[p][q]
      BY <1>2, <1>8 DEF IsSatisfiedRule5, IsBefore, TypeOK
    <2>3. \A q \in Proc \ {p} : requestTimestamp[q] # nil
                                  => Less(requestTimestamp[p], requestTimestamp[q])
      BY <1>1, <1>8, Rule5First
    <2>4. occupiedBy = nil
      <3> SUFFICES ASSUME occupiedBy # nil PROVE FALSE
        OBVIOUS
      <3>1. PICK q \in Proc : isOccupying[q]
        BY <1>2 DEF Occupation
      <3>2. q \in Proc \ {p} /\ requestTimestamp[q] # nil /\ requestTimestamp[q] \in Timestamp
        BY <3>1, <2>2, <1>2 DEF Occupation, TypeOK
      <3>3. Less(requestTimestamp[q], requestTimestamp[p])
        BY <3>1, <3>2, <2>2, <1>2 DEF OccupierIsFirst
      <3>4. QED
        BY <3>2, <3>3, <2>2, <2>3, LessOrder
    <2>5. ~CannotOccupy(requestTimestamp[p])
      BY <2>2, <2>4, <1>2 DEF CannotOccupy, LastIsPast
    <2>6. /\ panicked' = FALSE
          /\ occupiedBy' = requestTimestamp[p]
          /\ timestamps' = Append(timestamps, requestTimestamp[p])
          /\ UNCHANGED <<lastOccupiedBy, pending>>
      <3>1. panicked' = (occupiedBy # nil \/ ~Less(lastOccupiedBy, requestTimestamp[p]))
        BY <2>1 DEF Occupy, CannotOccupy
      <3>2. panicked' = FALSE
        BY <3>1, <2>5, Zenon DEF CannotOccupy
      <3>3. QED
        BY <3>2, <2>1, <2>5 DEF Occupy
    <2>7. TypeOK'
      <3>1. isOccupying' \in [Proc -> BOOLEAN] /\ panicked' \in BOOLEAN
        BY <2>1, <2>6, <1>2, Zenon DEF TypeOK
      <3>2. timestamps' \in Seq(Timestamp) /\ occupiedBy' \in Timestamp \cup {nil}
        BY <2>2, <2>6, <1>2 DEF TypeOK
      <3>3. QED
        BY <3>1, <3>2, <2>6, <1>1, <1>2, <1>3 DEF TypeOK
    <2>8. \A q \in Proc : isOccupying'[q] <=> q = p
      <3>1. \A q \in Proc : ~isOccupying[q]
        BY <2>4, <1>2 DEF Occupation
      <3>2. QED
        BY <3>1, <2>1, <1>2 DEF TypeOK
    <2>9. Occupation'
      <3>1. \A a \in Proc : isOccupying'[a]
              => /\ requestTimestamp'[a] # nil
                 /\ occupiedBy' = requestTimestamp'[a]
                 /\ \A q \in Proc \ {a} : requestTimestamp'[a].time < receivedTime'[a][q]
        BY <2>2, <2>6, <2>8, <1>1
      <3>2. QED
        BY <3>1, <2>8 DEF Occupation
    <2>10. OccupierIsFirst'
      BY <2>3, <2>8, <1>1 DEF OccupierIsFirst
    <2>11. LastIsPast' /\ NoPanic'
      BY <2>6, <1>1, <1>2 DEF LastIsPast, NoPanic
    <2>12. QED
      BY <1>4, <1>5, <1>6, <1>7, <2>7, <2>9, <2>10, <2>11 DEF IInv
  <1>9. CASE ~IsSatisfiedRule5(p)
    <2>1. UNCHANGED <<isOccupying, occupiedBy, lastOccupiedBy, timestamps, pending, panicked>>
      BY <1>9 DEF CheckRule5, resourceVars
    <2>2. TypeOK'
      BY <2>1, <1>1, <1>2, <1>3 DEF TypeOK
    <2>3. Occupation' /\ OccupierIsFirst' /\ LastIsPast' /\ NoPanic'
      BY <2>1, <1>1, <1>2 DEF Occupation, OccupierIsFirst, LastIsPast, NoPanic
    <2>4. QED
      BY <1>4, <1>5, <1>6, <1>7, <2>2, <2>3 DEF IInv
  <1>10. QED
    BY <1>8, <1>9

\* What holds after process p stamps a message with its next clock value and
\* appends it, whatever the message says.
LEMMA AppendFrame ==
  ASSUME IInv, NEW p \in Proc, NEW m \in Message, m.from = p, m.msgTime = clock[p] + 1,
         prop' = Append(prop, m), clock' = [clock EXCEPT ![p] = @ + 1],
         UNCHANGED <<seen, receivedTime>>
  PROVE  /\ prop' \in Seq(Message) /\ clock' \in [Proc -> Nat]
         /\ Len(prop) \in Nat /\ Len(prop') = Len(prop) + 1
         /\ \A k \in Index : k \in Index' /\ prop'[k] = prop[k]
         /\ prop'[Len(prop) + 1] = m /\ Len(prop) + 1 \in Index'
         /\ \A k \in Index' : k \in Index \/ k = Len(prop) + 1
         /\ \A q \in Proc : clock[q] \in Nat /\ clock[q] <= clock'[q]
         /\ clock'[p] = clock[p] + 1
         /\ TimesGrow' /\ ReceivedTimes'
  <1>1. TypeOK /\ TimesGrow /\ ReceivedTimes /\ Cursor
    BY DEF IInv
  <1>2. /\ prop' \in Seq(Message) /\ Len(prop) \in Nat /\ Len(prop') = Len(prop) + 1
        /\ \A k \in Index : prop'[k] = prop[k]
        /\ prop'[Len(prop) + 1] = m
    <2>1. prop \in Seq(Message)
      BY <1>1 DEF TypeOK
    <2>2. QED
      BY <2>1, AppendProp DEF Index
  <1>3. /\ \A k \in Index : k \in Index' /\ k \in Nat /\ k < Len(prop) + 1
        /\ Len(prop) + 1 \in Index'
        /\ \A k \in Index' : k \in Index \/ k = Len(prop) + 1
    BY <1>2 DEF Index
  <1>4. /\ clock' \in [Proc -> Nat] /\ clock'[p] = clock[p] + 1
        /\ \A q \in Proc : clock[q] \in Nat /\ clock'[q] \in Nat /\ clock[q] <= clock'[q]
    BY <1>1 DEF TypeOK
  <1>5. TimesGrow'
    <2>1. ASSUME NEW k \in Index' PROVE prop'[k].msgTime <= clock'[prop'[k].from]
      <3>1. CASE k \in Index
        <4>1. /\ prop[k].from \in Proc /\ prop[k].msgTime \in Nat
              /\ prop[k].msgTime <= clock[prop[k].from]
          BY <1>1, <3>1, MessageFields DEF TimesGrow
        <4>2. prop'[k] = prop[k]
          BY <3>1, <1>2
        <4>3. prop[k].msgTime <= clock'[prop[k].from]
          BY <4>1, <1>4
        <4>4. QED
          BY <4>2, <4>3
      <3>2. CASE k = Len(prop) + 1
        BY <3>2, <1>2, <1>4
      <3>3. QED
        BY <3>1, <3>2, <1>3
    <2>2. ASSUME NEW j \in Index', NEW k \in Index', j < k, prop'[j].from = prop'[k].from
          PROVE  prop'[j].msgTime < prop'[k].msgTime
      <3>1. j \in Index
        BY <2>2, <1>2, <1>3 DEF Index
      <3>2. CASE k \in Index
        BY <2>2, <3>1, <3>2, <1>1, <1>2 DEF TimesGrow
      <3>3. CASE k = Len(prop) + 1
        <4>1. /\ prop[j].from = p /\ prop[j].msgTime \in Nat
              /\ prop[j].msgTime <= clock[p]
          BY <2>2, <3>1, <3>3, <1>1, <1>2, MessageFields DEF TimesGrow
        <4>2. prop'[j] = prop[j] /\ prop'[k].msgTime = clock[p] + 1
          BY <3>1, <3>3, <1>2
        <4>3. prop[j].msgTime < clock[p] + 1
          BY <4>1, <1>4
        <4>4. QED
          BY <4>2, <4>3
      <3>4. QED
        BY <3>2, <3>3, <1>3
    <2>3. QED
      BY <2>1, <2>2 DEF TimesGrow
  <1>6. ReceivedTimes'
    <2> SUFFICES ASSUME NEW a \in Proc, NEW b \in Proc
                 PROVE  /\ receivedTime[a][b] <= clock'[b]
                        /\ a # b => \A k \in Index' : k > seen[a] /\ prop'[k].from = b
                                                        => receivedTime[a][b] < prop'[k].msgTime
      BY DEF ReceivedTimes
    <2>1. receivedTime[a][b] \in Nat /\ receivedTime[a][b] <= clock[b]
      BY <1>1 DEF TypeOK, ReceivedTimes
    <2>2. receivedTime[a][b] <= clock'[b]
      BY <2>1, <1>4
    <2>3. ASSUME a # b, NEW k \in Index', k > seen[a], prop'[k].from = b
          PROVE  receivedTime[a][b] < prop'[k].msgTime
      <3>1. CASE k \in Index
        BY <2>3, <3>1, <1>1, <1>2 DEF ReceivedTimes
      <3>2. CASE k = Len(prop) + 1
        <4>1. b = p /\ prop'[k].msgTime = clock[b] + 1
          BY <2>3, <3>2, <1>2
        <4>2. QED
          BY <4>1, <2>1, <1>4
      <3>3. QED
        BY <3>1, <3>2, <1>3
    <2>4. QED
      BY <2>2, <2>3
  <1>7. QED
    BY <1>2, <1>3, <1>4, <1>5, <1>6

\* The cursor of a process is not disturbed by a longer stream.
LEMMA CursorFrame ==
  ASSUME TypeOK, Cursor, NEW q \in Proc, Len(prop) \in Nat, Len(prop') = Len(prop) + 1,
         \A k \in Index : prop'[k] = prop[k],
         UNCHANGED seen[q],
         listener'[q] = listener[q] \/ (listener[q] = "ack" /\ listener'[q] = "check")
  PROVE  /\ seen'[q] <= Len(prop')
         /\ listener'[q] # "next" => seen'[q] >= 1 /\ ~Ignored(q, msg(q)')
         /\ listener'[q] \in {"push", "ack"} => msg(q)'.msgType = "requestResource"
         /\ listener'[q] = "remove" => msg(q)'.msgType = "releaseResource"
  <1>1. seen[q] \in Nat /\ seen[q] <= Len(prop)
    BY DEF TypeOK, Cursor
  <1>2. listener'[q] # "next" => listener[q] # "next" /\ seen[q] >= 1 /\ seen[q] \in Index
    BY <1>1 DEF Cursor, Index
  <1>3. listener'[q] # "next" => msg(q)' = msg(q)
    BY <1>2 DEF msg
  <1>4. QED
    BY <1>1, <1>2, <1>3 DEF Cursor

\* Rule 2.2 keeps the invariant.
LEMMA AcknowledgeIInv == ASSUME IInv, NEW p \in Proc, Acknowledge(p) PROVE IInv'
  <1>1. PICK m : m = newMessage("acknowledgment", clock[p] + 1, p, msg(p).from, msg(p).timestamp)
    OBVIOUS
  <1>2. /\ listener[p] = "ack"
        /\ prop' = Append(prop, m)
        /\ clock' = [clock EXCEPT ![p] = @ + 1]
        /\ listener' = [listener EXCEPT ![p] = "check"]
        /\ UNCHANGED <<seen, receivedTime, requestQueue, isOccupying, requestTimestamp, wg,
                       requested, resourceVars, panicked>>
    BY <1>1 DEF Acknowledge, Tick, Update
  <1>3. TypeOK /\ Cursor /\ Queues /\ RequestsAndReleases /\ RequestsAlternate /\ Outstanding
    BY DEF IInv
  <1>4. m \in Message /\ m.from = p /\ m.msgTime = clock[p] + 1 /\ m.msgType = "acknowledgment"
    <2>1. seen[p] \in Index
      BY <1>2, <1>3 DEF Cursor, TypeOK, Index
    <2>2. msg(p).from \in Proc /\ msg(p).timestamp \in Timestamp
      BY <2>1, <1>3, MessageFields DEF msg
    <2>3. clock[p] + 1 \in Nat
      BY <1>3 DEF TypeOK
    <2>4. QED
      BY <1>1, <2>2, <2>3 DEF newMessage, Message, MsgType
  <1>5. /\ prop' \in Seq(Message) /\ clock' \in [Proc -> Nat]
        /\ Len(prop) \in Nat /\ Len(prop') = Len(prop) + 1
        /\ \A k \in Index : k \in Index' /\ prop'[k] = prop[k]
        /\ prop'[Len(prop) + 1] = m
        /\ \A k \in Index' : k \in Index \/ k = Len(prop) + 1
        /\ \A q \in Proc : clock[q] \in Nat /\ clock[q] <= clock'[q]
        /\ clock'[p] = clock[p] + 1
        /\ TimesGrow' /\ ReceivedTimes'
    BY <1>2, <1>4, AppendFrame
  <1>6. TypeOK'
    <2>1. listener' \in [Proc -> {"next", "push", "ack", "remove", "check"}]
      BY <1>2, <1>3 DEF TypeOK
    <2>2. QED
      BY <1>2, <1>3, <1>5, <2>1 DEF TypeOK, resourceVars
  <1>7. /\ \A k \in Index' : prop'[k].msgType # "acknowledgment" => k \in Index
        /\ \A ts : \A k \in Index : /\ IsRequest(k, ts)' <=> IsRequest(k, ts)
                                    /\ IsRelease(k, ts)' <=> IsRelease(k, ts)
        /\ \A ts : \A k \in Index' : IsRequest(k, ts)' \/ IsRelease(k, ts)' => k \in Index
    BY <1>4, <1>5 DEF IsRequest, IsRelease
  <1>8. \A k \in Index : /\ 1 .. k - 1 \subseteq Index
                         /\ \A j \in Index : j .. k \subseteq Index
    BY <1>5 DEF Index
  <1>9. RequestsAndReleases'
    BY <1>3, <1>5, <1>7, <1>8 DEF RequestsAndReleases
  <1>10. RequestsAlternate'
    BY <1>3, <1>5, <1>7, <1>8 DEF RequestsAlternate
  <1>11. Outstanding'
    <2>1. ASSUME NEW q \in Proc, requestTimestamp'[q] # nil
          PROVE  /\ requestTimestamp'[q].process = q
                 /\ \E k \in Index' : IsRequest(k, requestTimestamp[q])'
                 /\ \A k \in Index' : ~IsRelease(k, requestTimestamp[q])'
      <3>1. PICK ts : ts = requestTimestamp[q] /\ ts = requestTimestamp'[q]
        BY <1>2
      <3>2. /\ ts.process = q
            /\ \E k \in Index : IsRequest(k, ts)
            /\ \A k \in Index : ~IsRelease(k, ts)
        BY <2>1, <3>1, <1>3 DEF Outstanding
      <3>3. /\ \E k \in Index' : IsRequest(k, ts)'
            /\ \A k \in Index' : ~IsRelease(k, ts)'
        BY <3>2, <1>5, <1>7
      <3>4. QED
        BY <3>1, <3>2, <3>3
    <2>2. ASSUME NEW k \in Index', prop'[k].msgType = "requestResource"
          PROVE  \/ requestTimestamp'[prop'[k].from] = prop'[k].timestamp
                 \/ \E i \in Index' : IsRelease(i, prop[k].timestamp)'
      <3>1. k \in Index /\ prop'[k] = prop[k]
        BY <2>2, <1>5, <1>7
      <3>2. CASE requestTimestamp[prop[k].from] = prop[k].timestamp
        BY <3>1, <3>2, <1>2
      <3>3. CASE \E i \in Index : IsRelease(i, prop[k].timestamp)
        BY <3>1, <3>3, <1>5 DEF IsRelease
      <3>4. QED
        BY <2>2, <3>1, <3>2, <3>3, <1>3 DEF Outstanding
    <2>3. \A q \in Proc : wg'[q] = IF requestTimestamp'[q] = nil THEN 0 ELSE 1
      BY <1>2, <1>3 DEF Outstanding
    <2>4. QED
      BY <2>1, <2>2, <2>3 DEF Outstanding
  <1>12. Cursor'
    <2>1. \A q \in Proc : listener'[q] = listener[q] \/ (listener[q] = "ack" /\ listener'[q] = "check")
      BY <1>2, <1>3 DEF TypeOK
    <2>2. QED
      BY <2>1, <1>2, <1>3, <1>5, CursorFrame DEF Cursor
  <1>13. Queues'
    <2>1. \A q \in Proc : (listener'[q] \in {"push", "remove"}) = (listener[q] \in {"push", "remove"})
      BY <1>2, <1>3 DEF TypeOK
    <2>2. QED
      BY <2>1, <1>2, <1>3, <1>5, QueueFrame DEF Queues
  <1>14. Occupation' /\ OccupierIsFirst' /\ NoPanic'
    BY <1>2 DEF IInv, Occupation, OccupierIsFirst, NoPanic, resourceVars
  <1>15. LastIsPast'
    <2>1. lastOccupiedBy.time \in Int /\ clock' \in [Proc -> Nat]
      BY <1>3, <1>5 DEF TypeOK, Timestamp
    <2>2. \A q \in Proc : lastOccupiedBy.time <= clock'[q]
      BY <2>1, <1>5 DEF IInv, LastIsPast
    <2>3. QED
      BY <2>2, <1>2 DEF IInv, LastIsPast, resourceVars
  <1>16. QED
    BY <1>5, <1>6, <1>9, <1>10, <1>11, <1>12, <1>13, <1>14, <1>15 DEF IInv

\* Rule 3 keeps the invariant: Release and Remove do not panic, and the
\* request released is before all that are open or still to come.
LEMMA ReleaseResourceIInv == ASSUME IInv, NEW p \in Proc, ReleaseResource(p) PROVE IInv'
  <1>0. PICK ts, m, n :
          /\ ts = requestTimestamp[p]
          /\ m = newMessage("releaseResource", clock[p] + 1, p, OTHERS, ts)
          /\ n = Len(prop) + 1
    OBVIOUS
  <1>1. /\ isOccupying[p]
        /\ panicked' = (CannotRelease(ts) \/ ts \notin requestQueue[p])
        /\ lastOccupiedBy' = ts /\ occupiedBy' = nil /\ pending' = pending - 1
        /\ requestQueue' = [requestQueue EXCEPT ![p] = @ \ {ts}]
        /\ clock' = [clock EXCEPT ![p] = @ + 1]
        /\ prop' = Append(prop, m)
        /\ isOccupying' = [isOccupying EXCEPT ![p] = FALSE]
        /\ requestTimestamp' = [requestTimestamp EXCEPT ![p] = nil]
        /\ wg' = [wg EXCEPT ![p] = @ - 1]
        /\ UNCHANGED <<seen, listener, receivedTime, requested, timestamps>>
    BY <1>0 DEF ReleaseResource, Release, Tick, Update
  <1>2. /\ TypeOK /\ Cursor /\ Queues /\ TimesGrow /\ RequestsAndReleases /\ RequestsAlternate
        /\ Outstanding /\ Occupation /\ OccupierIsFirst /\ ReceivedTimes
    BY DEF IInv
  <1>3. /\ ts # nil /\ ts \in Timestamp /\ occupiedBy = ts /\ ts.process = p
        /\ ts.time \in Int
        /\ \A q \in Proc \ {p} : ts.time < receivedTime[p][q]
        /\ \A k \in Index : ~IsRelease(k, ts)
    BY <1>0, <1>1, <1>2 DEF Occupation, TypeOK, Outstanding, Timestamp
  <1>4. PICK r \in Index : IsRequest(r, ts)
    BY <1>0, <1>2, <1>3 DEF Outstanding
  <1>5. ts \in requestQueue[p]
    BY <1>0, <1>2, <1>3 DEF Queues, QueueOf
  <1>6. panicked' = FALSE
    <2>1. ~CannotRelease(ts)
      BY <1>3 DEF CannotRelease, IsEqual
    <2>2. panicked' = ((occupiedBy = nil \/ ~IsEqual(occupiedBy, ts)) \/ ts \notin requestQueue[p])
      BY <1>1 DEF CannotRelease
    <2>3. QED
      BY <2>1, <2>2, <1>5, Zenon DEF CannotRelease
  <1>7. /\ m \in Message /\ m.from = p /\ m.msgTime = clock[p] + 1
        /\ m.msgType = "releaseResource" /\ m.timestamp = ts
    <2>1. clock[p] + 1 \in Nat
      BY <1>2 DEF TypeOK
    <2>2. QED
      BY <1>0, <1>3, <2>1 DEF newMessage, Message, MsgType
  <1>8. /\ prop' \in Seq(Message) /\ clock' \in [Proc -> Nat]
        /\ Len(prop) \in Nat /\ Len(prop') = Len(prop) + 1
        /\ \A k \in Index : k \in Index' /\ prop'[k] = prop[k]
        /\ prop'[n] = m /\ n \in Index'
        /\ \A k \in Index' : k \in Index \/ k = n
        /\ \A q \in Proc : clock[q] \in Nat /\ clock[q] <= clock'[q]
        /\ clock'[p] = clock[p] + 1
        /\ TimesGrow' /\ ReceivedTimes'
    <2>1. /\ prop' \in Seq(Message) /\ clock' \in [Proc -> Nat]
          /\ Len(prop) \in Nat /\ Len(prop') = Len(prop) + 1
          /\ \A k \in Index : k \in Index' /\ prop'[k] = prop[k]
          /\ prop'[Len(prop) + 1] = m /\ Len(prop) + 1 \in Index'
          /\ \A k \in Index' : k \in Index \/ k = Len(prop) + 1
          /\ \A q \in Proc : clock[q] \in Nat /\ clock[q] <= clock'[q]
          /\ clock'[p] = clock[p] + 1
          /\ TimesGrow' /\ ReceivedTimes'
      BY <1>1, <1>7, AppendFrame
    <2>2. QED
      BY <2>1, <1>0
  <1>9. TypeOK'
    <2>1. /\ requestQueue' \in [Proc -> SUBSET Timestamp]
          /\ requestTimestamp' \in [Proc -> Timestamp \cup {nil}]
          /\ wg' \in [Proc -> Int] /\ pending' \in Int
      BY <1>1, <1>2 DEF TypeOK
    <2>2. isOccupying' \in [Proc -> BOOLEAN] /\ panicked' \in BOOLEAN
      BY <1>1, <1>2, <1>6, Zenon DEF TypeOK
    <2>3. lastOccupiedBy' \in Timestamp /\ occupiedBy' \in Timestamp \cup {nil}
      BY <1>1, <1>3
    <2>4. QED
      BY <1>1, <1>2, <1>8, <2>1, <2>2, <2>3 DEF TypeOK
  <1>10. /\ \A t : \A k \in Index : /\ IsRequest(k, t)' <=> IsRequest(k, t)
                                    /\ IsRelease(k, t)' <=> IsRelease(k, t)
         /\ \A t : ~IsRequest(n, t)'
         /\ \A t : IsRelease(n, t)' <=> t = ts
    BY <1>7, <1>8 DEF IsRequest, IsRelease
  <1>11. /\ \A k \in Index : /\ 1 .. k - 1 \subseteq Index
                             /\ \A j \in Index : j .. k \subseteq Index
         /\ 1 .. n - 1 = Index
    BY <1>0, <1>8 DEF Index
  <1>12. RequestsAndReleases'
    <2>1. ASSUME NEW k \in Index', prop'[k].msgType = "requestResource"
          PROVE  prop'[k].timestamp = newTimestamp(prop'[k].msgTime, prop'[k].from)
      BY <2>1, <1>2, <1>7, <1>8 DEF RequestsAndReleases
    <2>2. ASSUME NEW k \in Index', prop'[k].msgType = "releaseResource"
          PROVE  /\ prop'[k].timestamp.process = prop'[k].from
                 /\ \E j \in 1 .. k - 1 : IsRequest(j, prop[k].timestamp)'
                 /\ \A j \in 1 .. k - 1 : ~IsRelease(j, prop[k].timestamp)'
      <3>1. CASE k \in Index
        <4>1. prop'[k] = prop[k]
          BY <3>1, <1>8
        <4>2. /\ prop[k].timestamp.process = prop[k].from
              /\ \E j \in 1 .. k - 1 : IsRequest(j, prop[k].timestamp)
              /\ \A j \in 1 .. k - 1 : ~IsRelease(j, prop[k].timestamp)
          BY <2>2, <3>1, <4>1, <1>2 DEF RequestsAndReleases
        <4>3. \A j \in 1 .. k - 1 : prop'[j] = prop[j]
          BY <3>1, <1>8, <1>11
        <4>4. QED
          BY <4>1, <4>2, <4>3 DEF IsRequest, IsRelease
      <3>2. CASE k = n
        <4>1. prop'[k].timestamp = ts /\ prop'[k].from = p
          BY <3>2, <1>7, <1>8
        <4>2. /\ \E j \in 1 .. k - 1 : IsRequest(j, ts)'
              /\ \A j \in 1 .. k - 1 : ~IsRelease(j, ts)'
          BY <3>2, <1>3, <1>4, <1>10, <1>11
        <4>3. QED
          BY <4>1, <4>2, <1>3
      <3>3. QED
        BY <3>1, <3>2, <1>8
    <2>3. QED
      BY <2>1, <2>2 DEF RequestsAndReleases
  <1>13. RequestsAlternate'
    <2> SUFFICES ASSUME NEW j \in Index', NEW k \in Index', j < k,
                        prop'[j].msgType = "requestResource",
                        prop'[k].msgType = "requestResource",
                        prop'[j].from = prop'[k].from
                 PROVE  \E i \in j .. k : IsRelease(i, prop[j].timestamp)'
      BY DEF RequestsAlternate
    <2>1. j \in Index /\ k \in Index /\ prop'[j] = prop[j] /\ prop'[k] = prop[k]
      BY <1>7, <1>8
    <2>2. PICK i \in j .. k : IsRelease(i, prop[j].timestamp)
      BY <2>1, <1>2 DEF RequestsAlternate
    <2>3. i \in Index
      BY <2>1, <1>11
    <2>4. IsRelease(i, prop[j].timestamp)'
      BY <2>1, <2>2, <2>3, <1>8 DEF IsRelease
    <2>5. QED
      BY <2>4
  <1>14. Outstanding'
    <2>1. ASSUME NEW q \in Proc, requestTimestamp'[q] # nil
          PROVE  /\ requestTimestamp'[q].process = q
                 /\ \E k \in Index' : IsRequest(k, requestTimestamp[q])'
                 /\ \A k \in Index' : ~IsRelease(k, requestTimestamp[q])'
      <3>1. q # p /\ requestTimestamp'[q] = requestTimestamp[q]
        BY <2>1, <1>1, <1>2 DEF TypeOK
      <3>2. PICK t : t = requestTimestamp[q] /\ t = requestTimestamp'[q]
        BY <3>1
      <3>3. /\ t.process = q
            /\ \E k \in Index : IsRequest(k, t)
            /\ \A k \in Index : ~IsRelease(k, t)
        BY <2>1, <3>2, <1>2 DEF Outstanding
      <3>4. t # ts
        BY <3>1, <3>3, <1>3
      <3>5. /\ \E k \in Index' : IsRequest(k, t)'
            /\ \A k \in Index' : ~IsRelease(k, t)'
        BY <3>3, <3>4, <1>8, <1>10
      <3>6. QED
        BY <3>2, <3>3, <3>5
    <2>2. ASSUME NEW k \in Index', prop'[k].msgType = "requestResource"
          PROVE  \/ requestTimestamp'[prop'[k].from] = prop'[k].timestamp
                 \/ \E i \in Index' : IsRelease(i, prop[k].timestamp)'
      <3>1. k \in Index /\ prop'[k] = prop[k] /\ prop[k].from \in Proc
        BY <2>2, <1>2, <1>7, <1>8, MessageFields
      <3>2. CASE requestTimestamp[prop[k].from] = prop[k].timestamp /\ prop[k].from = p
        <4>1. prop'[k].timestamp = ts
          BY <3>1, <3>2, <1>0
        <4>2. IsRelease(n, ts)'
          BY <1>10
        <4>3. \E i \in Index' : IsRelease(i, ts)'
          BY <4>2, <1>8
        <4>4. QED
          BY <4>1, <4>3 DEF IsRelease
      <3>3. CASE requestTimestamp[prop[k].from] = prop[k].timestamp /\ prop[k].from # p
        BY <3>1, <3>3, <1>1, <1>2 DEF TypeOK
      <3>4. CASE \E i \in Index : IsRelease(i, prop[k].timestamp)
        BY <3>1, <3>4, <1>8 DEF IsRelease
      <3>5. QED
        BY <2>2, <3>1, <3>2, <3>3, <3>4, <1>2 DEF Outstanding
    <2>3. \A q \in Proc : wg'[q] = IF requestTimestamp'[q] = nil THEN 0 ELSE 1
      <3>1. \A q \in Proc : wg[q] = IF requestTimestamp[q] = nil THEN 0 ELSE 1
        BY <1>2 DEF Outstanding
      <3>2. wg[p] = 1
        BY <3>1, <1>0, <1>3
      <3>3. /\ wg'[p] = 0 /\ requestTimestamp'[p] = nil
            /\ \A q \in Proc \ {p} : wg'[q] = wg[q] /\ requestTimestamp'[q] = requestTimestamp[q]
        BY <3>2, <1>1, <1>2 DEF TypeOK
      <3>4. QED
        BY <3>1, <3>3
    <2>4. QED
      BY <2>1, <2>2, <2>3 DEF Outstanding
  <1>15. Cursor'
    BY <1>1, <1>2, <1>8, CursorFrame DEF Cursor
  <1>16. Queues'
    <2> SUFFICES ASSUME NEW q \in Proc PROVE QueueOf(q)'
      BY DEF Queues
    <2>1. CASE q # p
      <3>1. UNCHANGED <<seen[q], requestTimestamp[q], requestQueue[q], listener[q]>>
        BY <2>1, <1>1, <1>2 DEF TypeOK
      <3>2. QED
        BY <3>1, <1>2, <1>8, QueueFrame DEF Queues
    <2>2. CASE q = p
      <3>0. QueueOf(p) /\ requestQueue'[p] = requestQueue[p] \ {ts} /\ requestTimestamp'[p] = nil
        BY <1>1, <1>2 DEF Queues, TypeOK
      <3>1. Handled(p)' = Handled(p)
        BY <1>1 DEF Handled
      <3>2. 1 .. Handled(p) \subseteq Index
        BY <1>2 DEF Handled, Cursor, TypeOK, Index
      <3>3. \A i \in 1 .. Handled(p) : prop'[i] = prop[i]
        BY <3>2, <1>8
      <3>4. ASSUME NEW i \in 1 .. Handled(p), prop[i].msgType = "requestResource", prop[i].from # p,
                   \A j \in 1 .. Handled(p) : ~IsRelease(j, prop[i].timestamp)
            PROVE  prop[i].timestamp \in requestQueue'[p]
        <4>1. prop[i].timestamp \in requestQueue[p]
          BY <3>0, <3>4 DEF QueueOf
        <4>2. prop[i].timestamp.process = prop[i].from
          <5>1. prop[i].timestamp = newTimestamp(prop[i].msgTime, prop[i].from)
            BY <3>2, <3>4, <1>2 DEF RequestsAndReleases
          <5>2. QED
            BY <5>1 DEF newTimestamp
        <4>3. QED
          BY <4>1, <4>2, <3>0, <3>4, <1>3
      <3>5. ASSUME NEW t \in requestQueue'[p]
            PROVE  /\ t.process # p
                   /\ \E j \in 1 .. Handled(p) : IsRequest(j, t)
                   /\ \A j \in 1 .. Handled(p) : ~IsRelease(j, t)
        BY <3>0, <3>5, <1>0 DEF QueueOf
      <3>6. QED
        BY <2>2, <3>0, <3>1, <3>3, <3>4, <3>5 DEF QueueOf, IsRequest, IsRelease
    <2>3. QED
      BY <2>1, <2>2
  <1>17. Occupation' /\ OccupierIsFirst'
    <2>1. \A q \in Proc : ~isOccupying'[q]
      <3>1. \A q \in Proc : q # p => ~isOccupying[q]
        BY <1>2, <1>3 DEF Occupation, Outstanding
      <3>2. QED
        BY <3>1, <1>1, <1>2 DEF TypeOK
    <2>2. QED
      BY <2>1, <1>1 DEF Occupation, OccupierIsFirst
  <1>18. LastIsPast'
    <2>1. ASSUME NEW q \in Proc PROVE ts.time <= clock'[q]
      <3>1. CASE q = p
        <4>1. ts.time <= clock[p]
          BY <1>2, <1>3, <1>4, RequestFacts DEF TimesGrow
        <4>2. QED
          BY <3>1, <4>1, <1>3, <1>8
      <3>2. CASE q # p
        <4>1. /\ ts.time < receivedTime[p][q] /\ receivedTime[p][q] <= clock[q]
              /\ receivedTime[p][q] \in Nat
          BY <3>2, <1>2, <1>3 DEF ReceivedTimes, TypeOK
        <4>2. QED
          BY <4>1, <1>3, <1>8
      <3>3. QED
        BY <3>1, <3>2
    <2>2. ASSUME NEW q \in Proc, requestTimestamp'[q] # nil PROVE Less(ts, requestTimestamp'[q])
      <3>1. q # p /\ requestTimestamp'[q] = requestTimestamp[q]
        BY <2>2, <1>1, <1>2 DEF TypeOK
      <3>2. QED
        BY <3>1, <2>2, <1>0, <1>1, <1>2 DEF OccupierIsFirst
    <2>3. QED
      BY <2>1, <2>2, <1>1 DEF LastIsPast
  <1>19. NoPanic'
    BY <1>6 DEF NoPanic
  <1>20. QED
    BY <1>8, <1>9, <1>12, <1>13, <1>14, <1>15, <1>16, <1>17, <1>18, <1>19 DEF IInv

\* Rule 1 keeps the invariant: the new request is later than the one that
\* occupies the resource and than all that did.
LEMMA RequestIInv == ASSUME IInv, NEW p \in Proc, Request(p) PROVE IInv'
  <1>0. PICK ts, m, n :
          /\ ts = newTimestamp(clock[p] + 1, p)
          /\ m = newMessage("requestResource", clock[p] + 1, p, OTHERS, ts)
          /\ n = Len(prop) + 1
    OBVIOUS
  <1>1. /\ wg[p] = 0 /\ requested[p] < occupyTimes
        /\ requestQueue' = [requestQueue EXCEPT ![p] = @ \cup {ts}]
        /\ clock' = [clock EXCEPT ![p] = @ + 1]
        /\ prop' = Append(prop, m)
        /\ requestTimestamp' = [requestTimestamp EXCEPT ![p] = ts]
        /\ wg' = [wg EXCEPT ![p] = @ + 1]
        /\ requested' = [requested EXCEPT ![p] = @ + 1]
        /\ UNCHANGED <<seen, listener, receivedTime, isOccupying, occupiedBy, lastOccupiedBy,
                       timestamps, pending, panicked>>
    BY <1>0 DEF Request, MayRequest, Tick, Update, resourceVars
  <1>2. /\ TypeOK /\ Cursor /\ Queues /\ TimesGrow /\ RequestsAndReleases /\ RequestsAlternate
        /\ Outstanding /\ Occupation /\ OccupierIsFirst /\ ReceivedTimes /\ LastIsPast
    BY DEF IInv
  <1>3. /\ clock[p] \in Nat /\ clock[p] + 1 \in Nat /\ p \in Int
        /\ ts \in Timestamp /\ ts # nil /\ ts.process = p /\ ts.time = clock[p] + 1
    <2>1. clock[p] \in Nat /\ clock[p] + 1 \in Nat /\ p \in Int
      BY <1>2, ProcIsInt DEF TypeOK
    <2>2. QED
      BY <1>0, <2>1, NilAssumption DEF newTimestamp, Timestamp
  <1>4. requestTimestamp[p] = nil /\ ~isOccupying[p]
    BY <1>1, <1>2 DEF Outstanding, Occupation
  <1>7. /\ m \in Message /\ m.from = p /\ m.msgTime = clock[p] + 1
        /\ m.msgType = "requestResource" /\ m.timestamp = ts
    BY <1>0, <1>3 DEF newMessage, Message, MsgType
  <1>8. /\ prop' \in Seq(Message) /\ clock' \in [Proc -> Nat]
        /\ Len(prop) \in Nat /\ Len(prop') = Len(prop) + 1
        /\ \A k \in Index : k \in Index' /\ prop'[k] = prop[k]
        /\ prop'[n] = m /\ n \in Index'
        /\ \A k \in Index' : k \in Index \/ k = n
        /\ \A q \in Proc : clock[q] \in Nat /\ clock[q] <= clock'[q]
        /\ clock'[p] = clock[p] + 1
        /\ TimesGrow' /\ ReceivedTimes'
    <2>1. /\ prop' \in Seq(Message) /\ clock' \in [Proc -> Nat]
          /\ Len(prop) \in Nat /\ Len(prop') = Len(prop) + 1
          /\ \A k \in Index : k \in Index' /\ prop'[k] = prop[k]
          /\ prop'[Len(prop) + 1] = m /\ Len(prop) + 1 \in Index'
          /\ \A k \in Index' : k \in Index \/ k = Len(prop) + 1
          /\ \A q \in Proc : clock[q] \in Nat /\ clock[q] <= clock'[q]
          /\ clock'[p] = clock[p] + 1
          /\ TimesGrow' /\ ReceivedTimes'
      BY <1>1, <1>7, AppendFrame
    <2>2. QED
      BY <2>1, <1>0
  <1>9. TypeOK'
    <2>1. /\ requestQueue' \in [Proc -> SUBSET Timestamp]
          /\ requestTimestamp' \in [Proc -> Timestamp \cup {nil}]
          /\ wg' \in [Proc -> Int]
      BY <1>1, <1>2, <1>3 DEF TypeOK
    <2>2. requested' \in [Proc -> 0 .. occupyTimes]
      BY <1>1, <1>2, TimesAssumption DEF TypeOK
    <2>3. QED
      BY <1>1, <1>2, <1>8, <2>1, <2>2 DEF TypeOK
  <1>10. /\ \A t : \A k \in Index : /\ IsRequest(k, t)' <=> IsRequest(k, t)
                                    /\ IsRelease(k, t)' <=> IsRelease(k, t)
         /\ \A t : ~IsRelease(n, t)'
         /\ \A t : IsRequest(n, t)' <=> t = ts
    BY <1>7, <1>8 DEF IsRequest, IsRelease
  <1>11. /\ \A k \in Index : /\ 1 .. k - 1 \subseteq Index /\ k \in Nat /\ k < n
                             /\ \A j \in Index : j .. k \subseteq Index
         /\ n \in Nat
    BY <1>0, <1>8 DEF Index
  <1>12. RequestsAndReleases'
    <2>1. ASSUME NEW k \in Index', prop'[k].msgType = "requestResource"
          PROVE  prop'[k].timestamp = newTimestamp(prop'[k].msgTime, prop'[k].from)
      <3>1. CASE k \in Index
        BY <2>1, <3>1, <1>2, <1>8 DEF RequestsAndReleases
      <3>2. CASE k = n
        BY <3>2, <1>0, <1>7, <1>8
      <3>3. QED
        BY <3>1, <3>2, <1>8
    <2>2. ASSUME NEW k \in Index', prop'[k].msgType = "releaseResource"
          PROVE  /\ prop'[k].timestamp.process = prop'[k].from
                 /\ \E j \in 1 .. k - 1 : IsRequest(j, prop[k].timestamp)'
                 /\ \A j \in 1 .. k - 1 : ~IsRelease(j, prop[k].timestamp)'
      <3>1. k \in Index /\ prop'[k] = prop[k]
        BY <2>2, <1>7, <1>8
      <3>2. /\ prop[k].timestamp.process = prop[k].from
            /\ \E j \in 1 .. k - 1 : IsRequest(j, prop[k].timestamp)
            /\ \A j \in 1 .. k - 1 : ~IsRelease(j, prop[k].timestamp)
        BY <2>2, <3>1, <1>2 DEF RequestsAndReleases
      <3>3. \A j \in 1 .. k - 1 : prop'[j] = prop[j]
        BY <3>1, <1>8, <1>11
      <3>4. QED
        BY <3>1, <3>2, <3>3 DEF IsRequest, IsRelease
    <2>3. QED
      BY <2>1, <2>2 DEF RequestsAndReleases
  <1>13. RequestsAlternate'
    <2> SUFFICES ASSUME NEW j \in Index', NEW k \in Index', j < k,
                        prop'[j].msgType = "requestResource",
                        prop'[k].msgType = "requestResource",
                        prop'[j].from = prop'[k].from
                 PROVE  \E i \in j .. k : IsRelease(i, prop[j].timestamp)'
      BY DEF RequestsAlternate
    <2>1. j \in Index /\ prop'[j] = prop[j]
      BY <1>8, <1>11
    <2>2. CASE k \in Index
      <3>1. prop'[k] = prop[k]
        BY <2>2, <1>8
      <3>2. PICK i \in j .. k : IsRelease(i, prop[j].timestamp)
        BY <2>1, <2>2, <3>1, <1>2 DEF RequestsAlternate
      <3>3. i \in Index
        BY <2>1, <2>2, <1>11
      <3>4. IsRelease(i, prop[j].timestamp)'
        BY <2>1, <3>2, <3>3, <1>8 DEF IsRelease
      <3>5. QED
        BY <3>4
    <2>3. CASE k = n
      <3>1. prop[j].from = p /\ prop[j].timestamp # nil
        <4>1. prop[j].timestamp \in Timestamp
          BY <2>1, <1>2, MessageFields
        <4>2. QED
          BY <2>1, <2>3, <4>1, <1>7, <1>8, NilAssumption
      <3>2. PICK i \in Index : IsRelease(i, prop[j].timestamp)
        BY <2>1, <3>1, <1>2, <1>4 DEF Outstanding
      <3>3. IsRequest(j, prop[j].timestamp)
        BY <2>1 DEF IsRequest
      <3>4. j < i
        BY <2>1, <3>2, <3>3, <1>2, RequestFacts
      <3>5. i \in j .. k
        <4>1. i \in Nat /\ j \in Nat /\ i < n /\ n \in Nat
          BY <2>1, <3>2, <1>11
        <4>2. QED
          BY <4>1, <2>3, <3>4
      <3>6. IsRelease(i, prop[j].timestamp)'
        BY <2>1, <3>2, <1>8 DEF IsRelease
      <3>7. QED
        BY <3>5, <3>6
    <2>4. QED
      BY <2>2, <2>3, <1>8
  <1>14. \A i \in Index : ~IsRelease(i, ts)
    <2> SUFFICES ASSUME NEW i \in Index, IsRelease(i, ts) PROVE FALSE
      OBVIOUS
    <2>1. PICK j \in 1 .. i - 1 : IsRequest(j, ts)
      BY <1>2 DEF IsRelease, RequestsAndReleases
    <2>2. j \in Index
      BY <1>11
    <2>3. prop[j].from = p /\ prop[j].msgTime = clock[p] + 1
      BY <2>1, <2>2, <1>2, <1>3, RequestFacts
    <2>4. prop[j].msgTime <= clock[p]
      BY <2>2, <2>3, <1>2 DEF TimesGrow
    <2>5. QED
      BY <2>3, <2>4, <1>3
  <1>15. Outstanding'
    <2>1. ASSUME NEW q \in Proc, requestTimestamp'[q] # nil
          PROVE  /\ requestTimestamp'[q].process = q
                 /\ \E k \in Index' : IsRequest(k, requestTimestamp[q])'
                 /\ \A k \in Index' : ~IsRelease(k, requestTimestamp[q])'
      <3>1. PICK t : t = requestTimestamp'[q]
        OBVIOUS
      <3>2. CASE q = p
        <4>1. t = ts
          BY <3>1, <3>2, <1>1, <1>2 DEF TypeOK
        <4>2. /\ IsRequest(n, t)'
              /\ \A k \in Index' : ~IsRelease(k, t)'
          BY <4>1, <1>8, <1>10, <1>14
        <4>3. QED
          BY <3>1, <3>2, <4>1, <4>2, <1>3, <1>8
      <3>3. CASE q # p
        <4>1. t = requestTimestamp[q]
          BY <3>1, <3>3, <1>1, <1>2 DEF TypeOK
        <4>2. /\ t.process = q
              /\ \E k \in Index : IsRequest(k, t)
              /\ \A k \in Index : ~IsRelease(k, t)
          BY <2>1, <3>1, <4>1, <1>2 DEF Outstanding
        <4>3. /\ \E k \in Index' : IsRequest(k, t)'
              /\ \A k \in Index' : ~IsRelease(k, t)'
          BY <4>2, <1>8, <1>10
        <4>4. QED
          BY <3>1, <4>2, <4>3
      <3>4. QED
        BY <3>2, <3>3
    <2>2. ASSUME NEW k \in Index', prop'[k].msgType = "requestResource"
          PROVE  \/ requestTimestamp'[prop'[k].from] = prop'[k].timestamp
                 \/ \E i \in Index' : IsRelease(i, prop[k].timestamp)'
      <3>1. CASE k = n
        BY <3>1, <1>1, <1>2, <1>7, <1>8 DEF TypeOK
      <3>2. CASE k \in Index
        <4>1. prop'[k] = prop[k] /\ prop[k].from \in Proc /\ prop[k].timestamp # nil
          <5>1. prop[k].timestamp \in Timestamp /\ prop[k].from \in Proc
            BY <3>2, <1>2, MessageFields
          <5>2. QED
            BY <5>1, <3>2, <1>8, NilAssumption
        <4>2. CASE requestTimestamp[prop[k].from] = prop[k].timestamp
          <5>1. prop[k].from # p
            BY <4>1, <4>2, <1>4
          <5>2. QED
            BY <4>1, <4>2, <5>1, <1>1, <1>2 DEF TypeOK
        <4>3. CASE \E i \in Index : IsRelease(i, prop[k].timestamp)
          BY <4>1, <4>3, <1>8 DEF IsRelease
        <4>4. QED
          BY <2>2, <3>2, <4>1, <4>2, <4>3, <1>2 DEF Outstanding
      <3>3. QED
        BY <3>1, <3>2, <1>8
    <2>3. \A q \in Proc : wg'[q] = IF requestTimestamp'[q] = nil THEN 0 ELSE 1
      <3>1. \A q \in Proc : wg[q] = IF requestTimestamp[q] = nil THEN 0 ELSE 1
        BY <1>2 DEF Outstanding
      <3>2. /\ wg'[p] = 1 /\ requestTimestamp'[p] = ts
            /\ \A q \in Proc \ {p} : wg'[q] = wg[q] /\ requestTimestamp'[q] = requestTimestamp[q]
        BY <1>1, <1>2 DEF TypeOK
      <3>3. QED
        BY <3>1, <3>2, <1>3
    <2>4. QED
      BY <2>1, <2>2, <2>3 DEF Outstanding
  <1>16. Cursor'
    BY <1>1, <1>2, <1>8, CursorFrame DEF Cursor
  <1>17. Queues'
    <2> SUFFICES ASSUME NEW q \in Proc PROVE QueueOf(q)'
      BY DEF Queues
    <2>1. CASE q # p
      <3>1. UNCHANGED <<seen[q], requestTimestamp[q], requestQueue[q], listener[q]>>
        BY <2>1, <1>1, <1>2 DEF TypeOK
      <3>2. QED
        BY <3>1, <1>2, <1>8, QueueFrame DEF Queues
    <2>2. CASE q = p
      <3>0. /\ QueueOf(p) /\ requestQueue'[p] = requestQueue[p] \cup {ts}
            /\ requestTimestamp'[p] = ts
        BY <1>1, <1>2 DEF Queues, TypeOK
      <3>1. Handled(p)' = Handled(p)
        BY <1>1 DEF Handled
      <3>2. 1 .. Handled(p) \subseteq Index
        BY <1>2 DEF Handled, Cursor, TypeOK, Index
      <3>3. \A i \in 1 .. Handled(p) : prop'[i] = prop[i]
        BY <3>2, <1>8
      <3>4. ASSUME NEW i \in 1 .. Handled(p), prop[i].msgType = "requestResource", prop[i].from # p,
                   \A j \in 1 .. Handled(p) : ~IsRelease(j, prop[i].timestamp)
            PROVE  prop[i].timestamp \in requestQueue'[p]
        BY <3>0, <3>4 DEF QueueOf
      <3>5. ASSUME NEW t \in requestQueue'[p], t # ts
            PROVE  /\ t.process # p
                   /\ \E j \in 1 .. Handled(p) : IsRequest(j, t)
                   /\ \A j \in 1 .. Handled(p) : ~IsRelease(j, t)
        <4>1. t \in requestQueue[p] /\ t # nil
          BY <3>0, <3>5, <1>2, NilAssumption DEF TypeOK
        <4>2. QED
          BY <4>1, <3>0, <1>4 DEF QueueOf
      <3>6. QED
        BY <2>2, <3>0, <3>1, <3>3, <3>4, <3>5 DEF QueueOf, IsRequest, IsRelease
    <2>3. QED
      BY <2>1, <2>2
  <1>18. Occupation'
    <2>1. \A q \in Proc : isOccupying[q] => requestTimestamp'[q] = requestTimestamp[q]
      BY <1>1, <1>2, <1>4 DEF TypeOK
    <2>2. QED
      BY <2>1, <1>1, <1>2 DEF Occupation
  <1>19. OccupierIsFirst'
    <2> SUFFICES ASSUME NEW a \in Proc, NEW b \in Proc, isOccupying[a], a # b,
                        requestTimestamp'[b] # nil
                 PROVE  Less(requestTimestamp'[a], requestTimestamp'[b])
      BY <1>1 DEF OccupierIsFirst
    <2>1. a # p /\ requestTimestamp'[a] = requestTimestamp[a]
      BY <1>1, <1>2, <1>4 DEF TypeOK
    <2>2. CASE b = p
      <3>1. /\ requestTimestamp[a].time < receivedTime[a][p] /\ receivedTime[a][p] <= clock[p]
            /\ receivedTime[a][p] \in Nat /\ requestTimestamp[a].time \in Int
        BY <2>1, <1>2 DEF Occupation, ReceivedTimes, TypeOK, Timestamp
      <3>2. requestTimestamp[a].time < ts.time /\ requestTimestamp[a].time # ts.time
        BY <3>1, <1>3
      <3>3. requestTimestamp'[b] = ts
        BY <2>2, <1>1, <1>2 DEF TypeOK
      <3>4. QED
        BY <2>1, <3>2, <3>3 DEF Less
    <2>3. CASE b # p
      <3>1. requestTimestamp'[b] = requestTimestamp[b]
        BY <2>3, <1>1, <1>2 DEF TypeOK
      <3>2. QED
        BY <2>1, <3>1, <1>2 DEF OccupierIsFirst
    <2>4. QED
      BY <2>2, <2>3
  <1>20. LastIsPast'
    <2>1. lastOccupiedBy.time \in Int /\ \A q \in Proc : lastOccupiedBy.time <= clock[q]
      BY <1>2 DEF TypeOK, Timestamp, LastIsPast
    <2>2. \A q \in Proc : lastOccupiedBy.time <= clock'[q]
      BY <2>1, <1>8
    <2>3. Less(lastOccupiedBy, ts)
      <3>1. lastOccupiedBy.time < ts.time /\ lastOccupiedBy.time # ts.time
        BY <2>1, <1>3
      <3>2. QED
        BY <3>1 DEF Less
    <2>4. \A q \in Proc : requestTimestamp'[q] # nil => Less(lastOccupiedBy, requestTimestamp'[q])
      BY <2>3, <1>1, <1>2 DEF LastIsPast, TypeOK
    <2>5. QED
      BY <2>2, <2>4, <1>1 DEF LastIsPast
  <1>21. NoPanic'
    BY <1>1 DEF IInv, NoPanic
  <1>22. QED
    BY <1>8, <1>9, <1>12, <1>13, <1>15, <1>16, <1>17, <1>18, <1>19, <1>20, <1>21 DEF IInv

----------------------------------------------------------------------------
\* IInv is an invariant of the program: the actions of the three goroutines
\* of every process preserve it, in whatever order they interleave.
THEOREM InductiveInvariant == Spec => []IInv
  <1>1. IInv /\ [Next]_vars => IInv'
    <2> SUFFICES ASSUME IInv, [Next]_vars PROVE IInv'
      OBVIOUS
    <2>1. CASE UNCHANGED vars
      <3>1. UNCHANGED <<prop, seen, listener, clock, receivedTime, requestQueue, isOccupying,
                        requestTimestamp, wg, requested, occupiedBy, lastOccupiedBy,
                        timestamps, pending, panicked>>
        BY <2>1 DEF vars, procVars, resourceVars
      <3>2. TypeOK' /\ TimesGrow' /\ RequestsAndReleases' /\ RequestsAlternate' /\ Outstanding'
        <4>1. TypeOK'
          BY <3>1 DEF IInv, TypeOK
        <4>2. \A q \in Proc : clock'[q] \in Nat /\ clock[q] <= clock'[q]
          BY <3>1 DEF IInv, TypeOK
        <4>3. QED
          BY <3>1, <4>1, <4>2, StreamFrame
      <3>3. Cursor' /\ ReceivedTimes' /\ Queues'
        BY <3>1 DEF IInv, Cursor, ReceivedTimes, Queues, QueueOf, Handled, Index, IsRequest,
                    IsRelease, msg, Ignored
      <3>4. Occupation' /\ OccupierIsFirst' /\ LastIsPast' /\ NoPanic'
        BY <3>1 DEF IInv, Occupation, OccupierIsFirst, LastIsPast, NoPanic
      <3>5. QED
        BY <3>2, <3>3, <3>4 DEF IInv
    <2>2. ASSUME NEW p \in Proc, Listener(p) PROVE IInv'
      BY <2>2, ReceiveIInv, PushRequestIInv, AcknowledgeIInv, HandleReleaseMessageIInv,
         CheckRule5IInv DEF Listener
    <2>3. ASSUME NEW p \in Proc, ReleaseResource(p) \/ Request(p) PROVE IInv'
      BY <2>3, ReleaseResourceIInv, RequestIInv
    <2>4. QED
      BY <2>1, <2>2, <2>3 DEF Next, Finished
  <1>2. QED
    BY InitIInv, <1>1, PTL DEF Spec

\* The state stays within its types for any number of processes.
THEOREM TypeCorrect == Spec => []TypeOK
  BY InductiveInvariant, PTL DEF IInv

\* resource.Occupy, resource.Release and requestQueue.Remove never panic,
\* for any number of processes and requests and any initial clocks.
THEOREM NeverPanics == Spec => []NoPanic
  BY InductiveInvariant, PTL DEF IInv

\* Whoever occupies the resource is before every other open request.
THEOREM FirstComeFirstServed == Spec => []OccupierIsFirst
  BY InductiveInvariant, PTL DEF IInv

\* The resource and the processes agree on who occupies it.
THEOREM Agreement == Spec => []ResourceAgrees
  <1>1. ASSUME IInv PROVE ResourceAgrees
    <2>1. Occupation /\ Outstanding
      BY <1>1 DEF IInv
    <2>2. ASSUME NEW p \in Proc, occupiedBy # nil, occupiedBy = requestTimestamp[p]
          PROVE  isOccupying[p]
      <3>1. PICK q \in Proc : isOccupying[q]
        BY <2>1, <2>2 DEF Occupation
      <3>2. requestTimestamp[q] = requestTimestamp[p] /\ requestTimestamp[p] # nil
        BY <2>1, <2>2, <3>1 DEF Occupation
      <3>3. q = p
        BY <2>1, <3>2 DEF Outstanding
      <3>4. QED
        BY <3>1, <3>3
    <2>3. ASSUME NEW p \in Proc, isOccupying[p]
          PROVE  occupiedBy # nil /\ occupiedBy = requestTimestamp[p]
      BY <2>1, <2>3 DEF Occupation
    <2>4. QED
      BY <2>1, <2>2, <2>3 DEF ResourceAgrees, Occupation
  <1>2. QED
    BY <1>1, InductiveInvariant, PTL

\* A queue never holds two requests of one process, so it has at most N.
THEOREM QueueBounded == Spec => []OneRequestPerProcess
  <1>1. ASSUME IInv PROVE OneRequestPerProcess
    <2>1. /\ TypeOK /\ Cursor /\ Queues /\ TimesGrow /\ RequestsAndReleases /\ RequestsAlternate
          /\ Outstanding
      BY <1>1 DEF IInv
    <2> SUFFICES ASSUME NEW p \in Proc, NEW ts \in requestQueue[p], NEW ts2 \in requestQueue[p],
                        ts.process = ts2.process
                 PROVE  ts = ts2
      BY DEF OneRequestPerProcess
    <2>2. QueueOf(p) /\ ts # nil /\ ts2 # nil
      BY <2>1, NilAssumption DEF Queues, TypeOK
    <2>3. CASE ts = requestTimestamp[p] \/ ts2 = requestTimestamp[p]
      <3>1. ts.process = p
        BY <2>1, <2>2, <2>3 DEF Outstanding
      <3>2. QED
        BY <2>2, <3>1 DEF QueueOf
    <2>4. CASE ts # requestTimestamp[p] /\ ts2 # requestTimestamp[p]
      <3>1. PICK j \in 1 .. Handled(p), k \in 1 .. Handled(p) : IsRequest(j, ts) /\ IsRequest(k, ts2)
        BY <2>2, <2>4 DEF QueueOf
      <3>2. /\ j \in Nat /\ k \in Nat /\ j \in Index /\ k \in Index
            /\ j .. k \subseteq 1 .. Handled(p) /\ k .. j \subseteq 1 .. Handled(p)
        <4>1. Handled(p) \in Int /\ Handled(p) <= Len(prop) /\ Len(prop) \in Nat
          BY <2>1 DEF Handled, TypeOK, Cursor
        <4>2. QED
          BY <4>1 DEF Index
      <3>3. \A i \in 1 .. Handled(p) : ~IsRelease(i, ts) /\ ~IsRelease(i, ts2)
        BY <2>2, <2>4 DEF QueueOf
      <3>4. prop[j].from = prop[k].from
        BY <2>1, <3>1, <3>2, RequestFacts
      <3>5. ~(j < k) /\ ~(k < j)
        BY <2>1, <3>1, <3>2, <3>3, <3>4 DEF RequestsAlternate, IsRequest
      <3>6. j = k
        BY <3>2, <3>5
      <3>7. QED
        BY <3>1, <3>6 DEF IsRequest
    <2>5. QED
      BY <2>3, <2>4
  <1>2. QED
    BY <1>1, InductiveInvariant, PTL

\* Although receivedTime.Update overwrites, a recorded time never goes back.
THEOREM ReceivedTimesGrow == Spec => ReceivedTimeMonotonic
  <1>1. ASSUME IInv, [Next]_vars
        PROVE  [\A p, q \in Proc : receivedTime[p][q] <= receivedTime'[p][q]]_vars
    <2>1. ASSUME NEW r \in Proc, Receive(r)
          PROVE  \A p, q \in Proc : receivedTime[p][q] <= receivedTime'[p][q]
      BY <1>1, <2>1, ReceiveMonotone
    <2>2. ASSUME UNCHANGED receivedTime
          PROVE  \A p, q \in Proc : receivedTime[p][q] <= receivedTime'[p][q]
      BY <1>1, <2>2 DEF IInv, TypeOK
    <2>3. ASSUME NEW r \in Proc, \/ PushRequest(r) \/ Acknowledge(r) \/ HandleReleaseMessage(r)
                                 \/ CheckRule5(r) \/ ReleaseResource(r) \/ Request(r)
          PROVE  UNCHANGED receivedTime
      BY <2>3 DEF PushRequest, Acknowledge, HandleReleaseMessage, CheckRule5, ReleaseResource, Request
    <2>4. QED
      BY <1>1, <2>1, <2>2, <2>3 DEF Next, Listener, Finished
  <1>2. QED
    BY <1>1, InductiveInvariant, PTL DEF Spec, ReceivedTimeMonotonic

\* A request satisfies the abstract lock's Request.
LEMMA RequestRefines == ASSUME IInv, NEW p \in Proc, Request(p) PROVE Lock!Request
  <1>0. PICK ts : ts = newTimestamp(clock[p] + 1, p)
    OBVIOUS
  <1>1. /\ wg[p] = 0
        /\ requestTimestamp' = [requestTimestamp EXCEPT ![p] = ts]
        /\ UNCHANGED <<isOccupying, occupiedBy, lastOccupiedBy>>
    BY <1>0 DEF Request, MayRequest, resourceVars
  <1>2. TypeOK /\ Outstanding /\ Occupation
    BY DEF IInv
  <1>3. ts \in Timestamp /\ ts # nil /\ ts.process = p
    <2>1. clock[p] + 1 \in Int /\ p \in Int
      BY <1>2, ProcIsInt DEF TypeOK
    <2>2. QED
      BY <1>0, <2>1, NilAssumption DEF newTimestamp, Timestamp
  <1>4. requestTimestamp[p] = nil /\ ~isOccupying[p]
    BY <1>1, <1>2 DEF Outstanding, Occupation
  <1>5. /\ requestTimestamp'[p] = ts
        /\ \A q \in Proc \ {p} : requestTimestamp'[q] = requestTimestamp[q]
    BY <1>1, <1>2 DEF TypeOK
  <1>6. waiting' = waiting \cup {ts}
    BY <1>1, <1>3, <1>4, <1>5 DEF waiting
  <1>7. \A t \in waiting \cup ({occupiedBy} \ {nil}) : t.process # ts.process
    <2>1. \A t \in waiting : t.process # p
      BY <1>2, <1>4 DEF waiting, Outstanding
    <2>2. occupiedBy # nil => occupiedBy.process # p
      BY <1>2, <1>4 DEF Occupation, Outstanding
    <2>3. QED
      BY <2>1, <2>2, <1>3
  <1>8. Less(lastOccupiedBy, ts) /\ (occupiedBy # nil => Less(occupiedBy, ts))
    <2>1. LastIsPast' /\ OccupierIsFirst' /\ Occupation'
      BY RequestIInv DEF IInv
    <2>2. Less(lastOccupiedBy, ts)
      BY <2>1, <1>1, <1>3, <1>5 DEF LastIsPast
    <2>3. ASSUME occupiedBy # nil PROVE Less(occupiedBy, ts)
      <3>1. PICK a \in Proc : isOccupying[a]
        BY <2>3, <1>2 DEF Occupation
      <3>2. a # p /\ occupiedBy = requestTimestamp'[a]
        BY <3>1, <1>2, <1>4, <1>5 DEF Occupation
      <3>3. QED
        BY <3>1, <3>2, <2>1, <1>1, <1>3, <1>5 DEF OccupierIsFirst
    <2>4. QED
      BY <2>2, <2>3
  <1>9. QED
    BY <1>1, <1>3, <1>6, <1>7, <1>8 DEF Lock!Request, Lock!Timestamp, Lock!Less, Timestamp, Less

\* An occupation is the abstract lock's Acquire, a check that fails nothing.
LEMMA CheckRule5Refines ==
  ASSUME IInv, NEW p \in Proc, CheckRule5(p)
  PROVE  Lock!Acquire \/ UNCHANGED <<waiting, occupiedBy, lastOccupiedBy>>
  <1>1. listener[p] = "check" /\ UNCHANGED requestTimestamp
    BY DEF CheckRule5
  <1>2. TypeOK /\ Outstanding /\ Occupation /\ LastIsPast
    BY DEF IInv
  <1>3. CASE ~IsSatisfiedRule5(p)
    <2>1. UNCHANGED <<isOccupying, occupiedBy, lastOccupiedBy>>
      BY <1>3 DEF CheckRule5, resourceVars
    <2>2. QED
      BY <2>1, <1>1 DEF waiting
  <1>4. CASE IsSatisfiedRule5(p)
    <2>1. isOccupying' = [isOccupying EXCEPT ![p] = TRUE] /\ Occupy(requestTimestamp[p])
      BY <1>4 DEF CheckRule5
    <2>2. ~isOccupying[p] /\ requestTimestamp[p] # nil /\ requestTimestamp[p].process = p
      BY <1>2, <1>4 DEF IsSatisfiedRule5, Outstanding
    <2>3. ~panicked'
      BY CheckRule5IInv DEF IInv, NoPanic
    <2>4. ~CannotOccupy(requestTimestamp[p])
      BY <2>1, <2>3 DEF Occupy
    <2>5. occupiedBy = nil /\ occupiedBy' = requestTimestamp[p] /\ lastOccupiedBy' = lastOccupiedBy
      BY <2>1, <2>4 DEF Occupy, CannotOccupy
    <2>6. \A q \in Proc : ~isOccupying[q]
      BY <2>5, <1>2 DEF Occupation
    <2>7. requestTimestamp[p] \in waiting
      BY <2>2 DEF waiting
    <2>8. waiting' = waiting \ {requestTimestamp[p]}
      <3>1. /\ isOccupying'[p]
            /\ \A q \in Proc \ {p} : isOccupying'[q] = isOccupying[q]
        BY <2>1, <1>2 DEF TypeOK
      <3>2. \A q \in Proc \ {p} : requestTimestamp[q] # requestTimestamp[p]
        BY <2>2, <1>2 DEF Outstanding
      <3>3. QED
        BY <3>1, <3>2, <2>2, <2>6, <1>1 DEF waiting
    <2>9. \A t \in waiting \ {requestTimestamp[p]} : Less(requestTimestamp[p], t)
      BY <1>1, <1>4, Rule5First DEF waiting
    <2>10. Less(lastOccupiedBy, requestTimestamp[p])
      BY <2>2, <1>2 DEF LastIsPast
    <2>11. QED
      BY <2>5, <2>7, <2>8, <2>9, <2>10 DEF Lock!Acquire, Lock!Less, Less
  <1>5. QED
    BY <1>3, <1>4

\* Rule 3 is the abstract lock's Release.
LEMMA ReleaseResourceRefines ==
  ASSUME IInv, NEW p \in Proc, ReleaseResource(p) PROVE Lock!Release
  <1>1. /\ isOccupying[p]
        /\ lastOccupiedBy' = requestTimestamp[p] /\ occupiedBy' = nil
        /\ isOccupying' = [isOccupying EXCEPT ![p] = FALSE]
        /\ requestTimestamp' = [requestTimestamp EXCEPT ![p] = nil]
    BY DEF ReleaseResource, Release
  <1>2. TypeOK /\ Occupation
    BY DEF IInv
  <1>3. occupiedBy # nil /\ occupiedBy = requestTimestamp[p]
    BY <1>1, <1>2 DEF Occupation
  <1>4. /\ requestTimestamp'[p] = nil
        /\ \A q \in Proc \ {p} : /\ requestTimestamp'[q] = requestTimestamp[q]
                                 /\ isOccupying'[q] = isOccupying[q]
    BY <1>1, <1>2 DEF TypeOK
  <1>5. waiting' = waiting
    BY <1>1, <1>4 DEF waiting
  <1>6. QED
    BY <1>1, <1>3, <1>5 DEF Lock!Release

\* The program implements the lock that serves requests in timestamp order.
THEOREM Refinement == Spec => ImplementsOrderedLock
  <1>1. Init => Lock!Init
    BY DEF Init, Lock!Init, waiting, newTimestamp, Lock!newTimestamp
  <1>2. ASSUME IInv, [Next]_vars
        PROVE  [Lock!Next]_<<waiting, occupiedBy, lastOccupiedBy>>
    <2>1. ASSUME UNCHANGED <<requestTimestamp, isOccupying, occupiedBy, lastOccupiedBy>>
          PROVE  UNCHANGED <<waiting, occupiedBy, lastOccupiedBy>>
      BY <2>1 DEF waiting
    <2>2. ASSUME NEW p \in Proc,
                 Receive(p) \/ PushRequest(p) \/ Acknowledge(p) \/ HandleReleaseMessage(p)
          PROVE  UNCHANGED <<requestTimestamp, isOccupying, occupiedBy, lastOccupiedBy>>
      BY <2>2 DEF Receive, PushRequest, Acknowledge, HandleReleaseMessage, resourceVars
    <2>3. ASSUME UNCHANGED vars
          PROVE  UNCHANGED <<requestTimestamp, isOccupying, occupiedBy, lastOccupiedBy>>
      BY <2>3 DEF vars, procVars, resourceVars
    <2>4. QED
      BY <1>2, <2>1, <2>2, <2>3, CheckRule5Refines, ReleaseResourceRefines, RequestRefines
      DEF Next, Listener, Finished, Lock!Next
  <1>3. QED
    BY <1>1, <1>2, InductiveInvariant, PTL DEF Spec, ImplementsOrderedLock, Lock!Spec

----------------------------------------------------------------------------
(* The resource's wait group.                                              *)

\* There are finitely many occupations to finish.
LEMMA UnfinishedFinite == IsFiniteSet(Unfinished)
  <1>1. IsFiniteSet(Proc) /\ IsFiniteSet(1 .. occupyTimes)
    BY FS_Interval, NAssumption, TimesAssumption DEF Proc
  <1>2. IsFiniteSet(Proc \X (1 .. occupyTimes))
    BY <1>1, FS_Product
  <1>3. Unfinished \subseteq Proc \X (1 .. occupyTimes)
    BY DEF Unfinished
  <1>4. QED
    BY <1>2, <1>3, FS_Subset

\* newResource is given the number of all occupations.
LEMMA CountedInit == Init => Counted
  <1> SUFFICES ASSUME Init PROVE Counted
    OBVIOUS
  <1>1. /\ requested = [p \in Proc |-> 0] /\ pending = N * occupyTimes
        /\ \A p \in Proc : requestTimestamp[p] = nil
    BY DEF Init, occupations
  <1>2. Unfinished = Proc \X (1 .. occupyTimes)
    BY <1>1, TimesAssumption DEF Unfinished
  <1>3. IsFiniteSet(Proc) /\ IsFiniteSet(1 .. occupyTimes)
    BY FS_Interval, NAssumption, TimesAssumption DEF Proc
  <1>4. Cardinality(Proc) = N
    <2>1. Cardinality(0 .. N - 1) = (N - 1) - 0 + 1
      BY FS_Interval, NAssumption
    <2>2. QED
      BY <2>1, NAssumption DEF Proc
  <1>5. Cardinality(1 .. occupyTimes) = occupyTimes
    <2>1. Cardinality(1 .. occupyTimes) = IF 1 > occupyTimes THEN 0 ELSE occupyTimes - 1 + 1
      BY FS_Interval, TimesAssumption
    <2>2. QED
      BY <2>1, TimesAssumption
  <1>6. Cardinality(Proc \X (1 .. occupyTimes)) = N * occupyTimes
    BY <1>3, <1>4, <1>5, FS_Product
  <1>7. QED
    BY <1>1, <1>2, <1>6 DEF Counted

\* Request opens what was still to be asked for: the count stays.
LEMMA RequestCounted == ASSUME IInv, Counted, NEW p \in Proc, Request(p) PROVE Counted'
  <1>1. /\ requested \in [Proc -> 0 .. occupyTimes] /\ DOMAIN requestTimestamp = Proc
        /\ clock \in [Proc -> Nat] /\ Outstanding
    BY DEF IInv, TypeOK
  <1> DEFINE ts == newTimestamp(clock[p] + 1, p)
  <1>2. /\ requested' = [requested EXCEPT ![p] = @ + 1] /\ pending' = pending
        /\ requestTimestamp' = [requestTimestamp EXCEPT ![p] = ts]
        /\ wg[p] = 0
    BY DEF Request, MayRequest, resourceVars
  <1>3. requestTimestamp[p] = nil
    BY <1>1, <1>2 DEF Outstanding
  <1>4. ts # nil
    <2>1. ts \in Timestamp
      BY <1>1, ProcIsInt DEF Timestamp, newTimestamp
    <2>2. QED
      BY <2>1, NilAssumption
  <1> HIDE DEF ts
  <1>5. /\ requested'[p] = requested[p] + 1 /\ requestTimestamp'[p] = ts
        /\ \A q \in Proc \ {p} :
             requested'[q] = requested[q] /\ requestTimestamp'[q] = requestTimestamp[q]
    BY <1>1, <1>2
  <1>6. ASSUME NEW o \in Proc \X (1 .. occupyTimes) PROVE o \in Unfinished' <=> o \in Unfinished
    <2>1. o[1] \in Proc /\ o[2] \in Nat /\ requested[o[1]] \in Nat
      BY <1>1, TimesAssumption
    <2>2. CASE o[1] = p
      BY <1>3, <1>4, <1>5, <2>1, <2>2 DEF Unfinished
    <2>3. CASE o[1] # p
      BY <1>5, <2>1, <2>3 DEF Unfinished
    <2>4. QED
      BY <2>2, <2>3
  <1>7. Unfinished' = Unfinished
    BY <1>6 DEF Unfinished
  <1>8. \A q \in Proc : requestTimestamp'[q] # nil => requested'[q] > 0
    BY <1>1, <1>5 DEF Counted
  <1>9. QED
    BY <1>2, <1>7, <1>8 DEF Counted

\* Release finishes one occupation and counts it.
LEMMA ReleaseCounted == ASSUME IInv, Counted, NEW p \in Proc, ReleaseResource(p) PROVE Counted'
  <1>1. /\ requested \in [Proc -> 0 .. occupyTimes] /\ DOMAIN requestTimestamp = Proc
        /\ Occupation /\ pending \in Int
    BY DEF IInv, TypeOK
  <1>2. /\ requested' = requested /\ pending' = pending - 1
        /\ requestTimestamp' = [requestTimestamp EXCEPT ![p] = nil]
        /\ isOccupying[p]
    BY DEF ReleaseResource, Release
  <1> DEFINE r == <<p, requested[p]>>
  <1>3. requestTimestamp[p] # nil
    BY <1>1, <1>2 DEF Occupation
  <1>4. r \in Unfinished
    <2>1. requested[p] \in 1 .. occupyTimes
      BY <1>1, <1>3, TimesAssumption DEF Counted
    <2>2. r \in Proc \X (1 .. occupyTimes) /\ r[1] = p /\ r[2] = requested[p]
      BY <2>1
    <2>3. QED
      BY <1>3, <2>2 DEF Unfinished
  <1>5. ASSUME NEW o \in Proc \X (1 .. occupyTimes) PROVE o \in Unfinished' <=> o \in Unfinished /\ o # r
    <2>1. o[1] \in Proc /\ o[2] \in Nat /\ requested[o[1]] \in Nat /\ o = <<o[1], o[2]>>
      BY <1>1, TimesAssumption
    <2>2. CASE o[1] = p
      <3>1. requestTimestamp'[o[1]] = nil
        BY <1>1, <1>2, <2>2
      <3>2. o # r <=> o[2] # requested[p]
        BY <2>1, <2>2
      <3>3. QED
        BY <1>2, <1>3, <2>1, <2>2, <3>1, <3>2 DEF Unfinished
    <2>3. CASE o[1] # p
      <3>1. requestTimestamp'[o[1]] = requestTimestamp[o[1]] /\ o # r
        BY <1>1, <1>2, <2>1, <2>3
      <3>2. QED
        BY <1>2, <3>1 DEF Unfinished
    <2>4. QED
      BY <2>2, <2>3
  <1>6. Unfinished' = Unfinished \ {r}
    BY <1>5 DEF Unfinished
  <1> HIDE DEF r
  <1>7. Cardinality(Unfinished \ {r}) = Cardinality(Unfinished) - 1
    BY <1>4, UnfinishedFinite, FS_RemoveElement
  <1>8. \A q \in Proc : requestTimestamp'[q] # nil => requested'[q] > 0
    BY <1>1, <1>2 DEF Counted
  <1>9. QED
    BY <1>2, <1>6, <1>7, <1>8 DEF Counted

\* The wait group of the resource never goes negative, and rsc.wait() returns
\* only after every request of every process was granted and released, the
\* last one perhaps not yet forgotten by its process: for any number of
\* processes and of requests that the driver makes.
THEOREM WaitIsLast == Spec => []WaitReturnsLast
  <1>1. ASSUME IInv, Counted, [Next]_vars PROVE Counted'
    <2>1. ASSUME UNCHANGED <<requested, requestTimestamp, pending>> PROVE Counted'
      <3>1. Unfinished' = Unfinished
        BY <2>1 DEF Unfinished
      <3>2. QED
        BY <1>1, <2>1, <3>1 DEF Counted
    <2>2. ASSUME NEW p \in Proc, Listener(p)
          PROVE  UNCHANGED <<requested, requestTimestamp, pending>>
      BY <2>2 DEF Listener, Receive, PushRequest, Acknowledge, HandleReleaseMessage, CheckRule5,
        Occupy, resourceVars
    <2>3. ASSUME UNCHANGED vars
          PROVE  UNCHANGED <<requested, requestTimestamp, pending>>
      BY <2>3 DEF vars, procVars, resourceVars
    <2>4. QED
      BY <1>1, <2>1, <2>2, <2>3, RequestCounted, ReleaseCounted DEF Next, Finished
  <1>2. ASSUME IInv, Counted PROVE WaitReturnsLast
    <2>1. requested \in [Proc -> 0 .. occupyTimes]
      BY <1>2 DEF IInv, TypeOK
    <2>2. Cardinality(Unfinished) \in Nat /\ pending = Cardinality(Unfinished)
      BY <1>2, UnfinishedFinite, FS_CardinalityType DEF Counted
    <2>3. ASSUME pending = 0, NEW p \in Proc
          PROVE  requested[p] = occupyTimes /\ requestTimestamp[p] = nil
      <3>1. Unfinished = {}
        BY <2>2, <2>3, UnfinishedFinite, FS_EmptySet
      <3>2. \A k \in 1 .. occupyTimes : ~(k > requested[p]) /\ (k = requested[p] => requestTimestamp[p] = nil)
        <4> TAKE k \in 1 .. occupyTimes
        <4> DEFINE o == <<p, k>>
        <4>1. o \in Proc \X (1 .. occupyTimes) /\ o[1] = p /\ o[2] = k
          OBVIOUS
        <4>2. QED
          BY <3>1, <4>1 DEF Unfinished
      <3>3. requested[p] = occupyTimes
        <4>1. CASE occupyTimes = 0
          BY <2>1, <4>1
        <4>2. CASE occupyTimes > 0
          <5>1. occupyTimes \in 1 .. occupyTimes
            BY <4>2, TimesAssumption
          <5>2. QED
            BY <2>1, <3>2, <5>1, TimesAssumption
        <4>3. QED
          BY <4>1, <4>2, TimesAssumption
      <3>4. requestTimestamp[p] = nil
        <4>1. CASE requested[p] = 0
          BY <1>2, <4>1 DEF Counted
        <4>2. CASE requested[p] > 0
          <5>1. requested[p] \in 1 .. occupyTimes
            BY <2>1, <4>2, TimesAssumption
          <5>2. QED
            BY <3>2, <5>1
        <4>3. QED
          BY <2>1, <4>1, <4>2, TimesAssumption
      <3>5. QED
        BY <3>3, <3>4
    <2>4. pending = 0 => occupiedBy = nil
      BY <1>2, <2>3 DEF IInv, Occupation
    <2>5. QED
      BY <2>2, <2>3, <2>4 DEF WaitReturnsLast
  <1>3. QED
    BY <1>1, <1>2, CountedInit, InductiveInvariant, PTL DEF Spec

----------------------------------------------------------------------------
(* The queues of the processes.                                            *)

\* What a step does to the queues of p.
QueuesStep(p) == [QueuesOf(p)!Next]_(QueuesOf(p)!vars)

\* A step that leaves both alone.
LEMMA QueuesStutter ==
  ASSUME NEW p \in Proc, requestQueue'[p] = requestQueue[p], receivedTime'[p] = receivedTime[p]
  PROVE  QueuesStep(p)
  BY DEF QueuesStep, QueuesOf!vars

\* A request of a process that has none there.
LEMMA QueuesPush ==
  ASSUME NEW p \in Proc, NEW ts, \A ts2 \in requestQueue[p] : ts2.process # ts.process,
         requestQueue'[p] = requestQueue[p] \cup {ts}, receivedTime'[p] = receivedTime[p]
  PROVE  QueuesStep(p)
  <1>1. ts \in requestQueue'[p]
    OBVIOUS
  <1>2. QueuesOf(p)!Push
    BY <1>1 DEF QueuesOf!Push
  <1>3. QED
    BY <1>2 DEF QueuesStep, QueuesOf!Next

\* The removal of one that is there.
LEMMA QueuesRemove ==
  ASSUME NEW p \in Proc, NEW ts \in requestQueue[p],
         requestQueue'[p] = requestQueue[p] \ {ts}, receivedTime'[p] = receivedTime[p]
  PROVE  QueuesStep(p)
  <1>1. QueuesOf(p)!Remove
    BY DEF QueuesOf!Remove
  <1>2. QED
    BY <1>1 DEF QueuesStep, QueuesOf!Next

\* A later time of another process.
LEMMA QueuesUpdate ==
  ASSUME NEW p \in Proc, NEW q \in Proc \ {p}, NEW t \in Nat, TypeOK,
         t > receivedTime[p][q], receivedTime' = [receivedTime EXCEPT ![p][q] = t],
         requestQueue'[p] = requestQueue[p]
  PROVE  QueuesStep(p)
  <1> DEFINE f == [r \in Proc \ {p} |-> receivedTime[p][r]]
             g == [r \in Proc \ {p} |-> receivedTime'[p][r]]
  <1>1. /\ receivedTime'[p][q] = t
        /\ \A r \in Proc : r # q => receivedTime'[p][r] = receivedTime[p][r]
    BY DEF TypeOK
  <1>2. g[q] > f[q] /\ g = [f EXCEPT ![q] = g[q]]
    BY <1>1
  <1>3. QueuesOf(p)!Update
    BY <1>2 DEF QueuesOf!Update
  <1>4. QED
    BY <1>3 DEF QueuesStep, QueuesOf!Next

\* The message that the listener of p reads is later than all that it read of
\* the sender.
LEMMA ReceiveQueues ==
  ASSUME IInv, NEW p \in Proc, Receive(p), NEW a \in Proc
  PROVE  QueuesStep(a)
  <1>1. PICK k \in seen[p] + 1 .. Len(prop) :
          /\ ~Ignored(p, prop[k])
          /\ receivedTime' = [receivedTime EXCEPT ![p][prop[k].from] = prop[k].msgTime]
    BY DEF Receive
  <1>2. TypeOK /\ requestQueue' = requestQueue
    BY DEF IInv, Receive
  <1>3. k \in Index /\ k > seen[p]
    <2>1. seen[p] \in Nat /\ Len(prop) \in Nat
      BY <1>2 DEF TypeOK
    <2>2. QED
      BY <2>1 DEF Index
  <1>4. prop[k].msgTime \in Nat /\ prop[k].from \in Proc \ {p}
    BY <1>1, <1>2, <1>3, MessageFields DEF Ignored
  <1>5. CASE a = p
    <2>1. receivedTime[p][prop[k].from] < prop[k].msgTime
      BY <1>3, <1>4 DEF IInv, ReceivedTimes
    <2>2. receivedTime[p][prop[k].from] \in Nat
      BY <1>2, <1>4 DEF TypeOK
    <2>3. prop[k].msgTime > receivedTime[p][prop[k].from]
      BY <1>4, <2>1, <2>2
    <2>4. QED
      BY <1>1, <1>2, <1>4, <1>5, <2>3, QueuesUpdate
  <1>6. CASE a # p
    <2>1. receivedTime'[a] = receivedTime[a]
      BY <1>1, <1>2, <1>6 DEF TypeOK
    <2>2. QED
      BY <1>2, <2>1, QueuesStutter
  <1>7. QED
    BY <1>5, <1>6

\* The request that the listener of p pushes is new to the queue, and that of
\* the same process before it has left.
LEMMA PushRequestQueues ==
  ASSUME IInv, OneRequestPerProcess', NEW p \in Proc, PushRequest(p), NEW a \in Proc
  PROVE  QueuesStep(a)
  <1> DEFINE ts == msg(p).timestamp
  <1>1. /\ listener[p] = "push" /\ receivedTime' = receivedTime
        /\ requestQueue' = [requestQueue EXCEPT ![p] = @ \cup {ts}]
    BY DEF PushRequest
  <1>2. TypeOK /\ Cursor /\ TimesGrow /\ RequestsAndReleases /\ Outstanding /\ QueueOf(p)
    BY DEF IInv, Queues
  <1>3. CASE a # p
    <2>1. requestQueue'[a] = requestQueue[a]
      BY <1>1, <1>2, <1>3 DEF TypeOK
    <2>2. QED
      BY <1>1, <2>1, QueuesStutter
  <1>4. CASE a = p
    <2> DEFINE k == seen[p]
    <2>1. k \in Index /\ IsRequest(k, ts) /\ ~Ignored(p, prop[k]) /\ Handled(p) = k - 1
      <3>1. k \in Nat /\ k <= Len(prop) /\ k >= 1 /\ Len(prop) \in Nat
        BY <1>1, <1>2 DEF Cursor, TypeOK
      <3>2. k \in Index /\ Handled(p) = k - 1
        BY <1>1, <3>1 DEF Index, Handled
      <3>3. QED
        BY <1>1, <1>2, <3>2 DEF Cursor, msg, IsRequest
    <2>2. ts.process = prop[k].from /\ prop[k].from # p
      BY <1>2, <2>1, RequestFacts DEF Ignored
    <2>3. \A j \in Index : IsRequest(j, ts) => j = k
      BY <1>2, <2>1, RequestFacts
    <2>4. ts # requestTimestamp[p]
      BY <1>2, <2>1, <2>2, RequestFacts, NilAssumption DEF Outstanding
    <2>5. ts \notin requestQueue[p]
      <3> SUFFICES ASSUME ts \in requestQueue[p] PROVE FALSE
        OBVIOUS
      <3>1. PICK j \in 1 .. Handled(p) : IsRequest(j, ts)
        BY <1>2, <2>4 DEF QueueOf
      <3>2. j \in Index /\ j # k
        BY <2>1, <3>1 DEF Index
      <3>3. QED
        BY <2>3, <3>1, <3>2
    <2>6. requestQueue'[p] = requestQueue[p] \cup {ts}
      BY <1>1, <1>2 DEF TypeOK
    <2> HIDE DEF ts
    <2>7. \A ts2 \in requestQueue[p] : ts2.process # ts.process
      BY <2>5, <2>6 DEF OneRequestPerProcess
    <2>8. QED
      BY <1>1, <1>4, <2>6, <2>7, QueuesPush
  <1>5. QED
    BY <1>3, <1>4

\* A release message finds its request.
LEMMA HandleReleaseMessageQueues ==
  ASSUME IInv, IInv', NEW p \in Proc, HandleReleaseMessage(p), NEW a \in Proc
  PROVE  QueuesStep(a)
  <1> DEFINE ts == msg(p).timestamp
  <1>1. /\ panicked' = (ts \notin requestQueue[p]) /\ receivedTime' = receivedTime
        /\ requestQueue' = [requestQueue EXCEPT ![p] = @ \ {ts}]
    BY DEF HandleReleaseMessage
  <1>2. TypeOK /\ ~panicked'
    BY DEF IInv, NoPanic
  <1> HIDE DEF ts
  <1>3. ts \in requestQueue[p]
    BY <1>1, <1>2
  <1>4. CASE a # p
    <2>1. requestQueue'[a] = requestQueue[a]
      BY <1>1, <1>2, <1>4 DEF TypeOK
    <2>2. QED
      BY <1>1, <2>1, QueuesStutter
  <1>5. CASE a = p
    <2>1. requestQueue'[p] = requestQueue[p] \ {ts}
      BY <1>1, <1>2 DEF TypeOK
    <2>2. QED
      BY <1>1, <1>3, <1>5, <2>1, QueuesRemove
  <1>6. QED
    BY <1>4, <1>5

\* So does the releaser.
LEMMA ReleaseResourceQueues ==
  ASSUME IInv, IInv', NEW p \in Proc, ReleaseResource(p), NEW a \in Proc
  PROVE  QueuesStep(a)
  <1> DEFINE ts == requestTimestamp[p]
  <1>1. /\ panicked' = (CannotRelease(ts) \/ ts \notin requestQueue[p]) /\ receivedTime' = receivedTime
        /\ requestQueue' = [requestQueue EXCEPT ![p] = @ \ {ts}]
    BY DEF ReleaseResource
  <1>2. TypeOK /\ ~panicked'
    BY DEF IInv, NoPanic
  <1> HIDE DEF ts
  <1>3. ts \in requestQueue[p]
    BY <1>1, <1>2
  <1>4. CASE a # p
    <2>1. requestQueue'[a] = requestQueue[a]
      BY <1>1, <1>2, <1>4 DEF TypeOK
    <2>2. QED
      BY <1>1, <2>1, QueuesStutter
  <1>5. CASE a = p
    <2>1. requestQueue'[p] = requestQueue[p] \ {ts}
      BY <1>1, <1>2 DEF TypeOK
    <2>2. QED
      BY <1>1, <1>3, <1>5, <2>1, QueuesRemove
  <1>6. QED
    BY <1>4, <1>5

\* The driver's next request comes when the last one has left.
LEMMA RequestQueues ==
  ASSUME IInv, NEW p \in Proc, Request(p), NEW a \in Proc
  PROVE  QueuesStep(a)
  <1> DEFINE ts == newTimestamp(clock[p] + 1, p)
  <1>1. /\ wg[p] = 0 /\ receivedTime' = receivedTime
        /\ requestQueue' = [requestQueue EXCEPT ![p] = @ \cup {ts}]
    BY DEF Request, MayRequest
  <1>2. TypeOK /\ Outstanding /\ QueueOf(p)
    BY DEF IInv, Queues
  <1>3. ts.process = p /\ requestTimestamp[p] = nil
    BY <1>1, <1>2 DEF Outstanding, newTimestamp
  <1> HIDE DEF ts
  <1>4. CASE a # p
    <2>1. requestQueue'[a] = requestQueue[a]
      BY <1>1, <1>2, <1>4 DEF TypeOK
    <2>2. QED
      BY <1>1, <2>1, QueuesStutter
  <1>5. CASE a = p
    <2>1. requestQueue'[p] = requestQueue[p] \cup {ts} /\ requestQueue[p] \subseteq Timestamp
      BY <1>1, <1>2 DEF TypeOK
    <2>2. \A ts2 \in requestQueue[p] : ts2.process # ts.process
      BY <1>2, <1>3, <2>1, NilAssumption DEF QueueOf
    <2>3. QED
      BY <1>1, <1>5, <2>1, <2>2, QueuesPush
  <1>6. QED
    BY <1>4, <1>5

\* Every process uses its queues within the limits for which ProcessQueues
\* shows the heaps to be right, for any number of processes and requests: the
\* two models fit together.
THEOREM QueuesUsed == Spec => UsesQueues
  <1>1. Init => \A p \in Proc : QueuesOf(p)!Init
    BY DEF Init, QueuesOf!Init
  <1>2. ASSUME IInv, IInv', OneRequestPerProcess', [Next]_vars, NEW a \in Proc PROVE QueuesStep(a)
    <2>1. ASSUME NEW p \in Proc, Acknowledge(p) \/ CheckRule5(p) PROVE QueuesStep(a)
      <3>1. requestQueue' = requestQueue /\ receivedTime' = receivedTime
        BY <2>1 DEF Acknowledge, CheckRule5
      <3>2. QED
        BY <3>1, QueuesStutter
    <2>2. CASE UNCHANGED vars
      <3>1. requestQueue' = requestQueue /\ receivedTime' = receivedTime
        BY <2>2 DEF vars, procVars
      <3>2. QED
        BY <3>1, QueuesStutter
    <2>3. ASSUME NEW p \in Proc, Listener(p) PROVE QueuesStep(a)
      BY <1>2, <2>1, <2>3, ReceiveQueues, PushRequestQueues, HandleReleaseMessageQueues DEF Listener
    <2>4. QED
      BY <1>2, <2>2, <2>3, ReleaseResourceQueues, RequestQueues DEF Next, Finished
  <1>3. IInv /\ IInv' /\ OneRequestPerProcess' /\ [Next]_vars
          => [\A p \in Proc : [QueuesOf(p)!Next]_(QueuesOf(p)!vars)]_vars
    BY <1>2 DEF QueuesStep
  <1>4. QED
    BY <1>1, <1>3, InductiveInvariant, QueueBounded, PTL DEF Spec, UsesQueues
=============================================================================
