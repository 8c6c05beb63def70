--------------------------------- MODULE Heap ---------------------------------
(***************************************************************************)
(* The priority queues of Mutual-Exclusion/code, requestPriorityQueue and  *)
(* timeRecordQueue: slices of elements that know their own index, kept as  *)
(* binary heaps by Go's container/heap.  Positions start at 1 here and at  *)
(* 0 in Go.  A heap is a record                                            *)
(*   queue   the slice;                                                    *)
(*   index   the index field of every element, 0 when it is not in the     *)
(*           queue (-1 in the code).                                       *)
(***************************************************************************)
EXTENDS Naturals, Sequences

CONSTANTS
  Precedes(_, _),  \* Less(i, j) of the queue, on the two elements
  Id(_)            \* which of the allocated elements this is

----------------------------------------------------------------------------
\* The methods of the queues that container/heap calls.

\* Mutant: the index fields stay.
SwapWithoutIndex(h, i, j) ==
  [h EXCEPT !.queue = [@ EXCEPT ![i] = h.queue[j], ![j] = h.queue[i]]]

\* Mutant: the second element is overwritten before it is moved.
SwapOverwritten(h, i, j) ==
  [queue |-> [h.queue EXCEPT ![i] = h.queue[j]],
   index |-> [h.index EXCEPT ![Id(h.queue[j])] = i, ![Id(h.queue[i])] = j]]

Swap(h, i, j) ==
  [queue |-> [h.queue EXCEPT ![i] = h.queue[j], ![j] = h.queue[i]],
   index |-> [h.index EXCEPT ![Id(h.queue[j])] = i, ![Id(h.queue[i])] = j]]

PushLast(h, e) ==
  [queue |-> Append(h.queue, e), index |-> [h.index EXCEPT ![Id(e)] = Len(h.queue) + 1]]

PopLast(h) ==
  LET n == Len(h.queue)
  IN  [queue |-> SubSeq(h.queue, 1, n - 1), index |-> [h.index EXCEPT ![Id(h.queue[n])] = 0]]

----------------------------------------------------------------------------
(* container/heap.                                                         *)

\* The loop of up, at a position: while the element precedes its parent they
\* change places.  Each time the position is halved, so that j times suffice.
rise(s) ==
  LET i == s.pos \div 2
  IN  IF s.pos > 1 /\ Precedes(s.heap.queue[s.pos], s.heap.queue[i])
        THEN [heap |-> Swap(s.heap, i, s.pos), pos |-> i]
        ELSE s

up(h, j) ==
  LET run[m \in Nat] == IF m = 0 THEN [heap |-> h, pos |-> j] ELSE rise(run[m - 1])
  IN  run[j].heap

\* The loop of down, among the first n elements: while the smaller child
\* precedes the element they change places.  Each time the position grows.
smallerChild(s, n) ==
  IF 2 * s.pos + 1 <= n /\ Precedes(s.heap.queue[2 * s.pos + 1], s.heap.queue[2 * s.pos])
    THEN 2 * s.pos + 1
    ELSE 2 * s.pos

sink(s, n) ==
  LET j == smallerChild(s, n)
  IN  IF j <= n /\ Precedes(s.heap.queue[j], s.heap.queue[s.pos])
        THEN [heap |-> Swap(s.heap, s.pos, j), pos |-> j]
        ELSE s

down(h, i, n) ==
  LET run[m \in Nat] == IF m = 0 THEN [heap |-> h, pos |-> i] ELSE sink(run[m - 1], n)
  IN  run[n]

\* The element at i goes down or, when it did not move, up.
settle(h, i, n) ==
  LET s == down(h, i, n)
  IN  IF s.pos > i THEN s.heap ELSE up(h, i)

\* Mutant: the new element stays behind.
PushWithoutUp(h, e) == PushLast(h, e)

Push(h, e) == up(PushLast(h, e), Len(h.queue) + 1)

Fix(h, i) == settle(h, i, Len(h.queue))

\* Mutant: the element that takes the place only goes down.
RemoveAtDown(h, i) ==
  LET n == Len(h.queue)
  IN  PopLast(IF i = n THEN h ELSE down(Swap(h, i, n), i, n - 1).heap)

RemoveAt(h, i) ==
  LET n == Len(h.queue)
  IN  PopLast(IF i = n THEN h ELSE settle(Swap(h, i, n), i, n - 1))

----------------------------------------------------------------------------
(* What the operations keep.                                               *)

\* The elements of the queue.
Content(q) == {q[k] : k \in 1 .. Len(q)}

\* The index field of every element is its position.
Indexed(h) == \A k \in 1 .. Len(h.queue) : h.index[Id(h.queue[k])] = k

\* The element at k does not precede its parent.
InOrder(q, k) == ~Precedes(q[k], q[k \div 2])

\* The first n elements are a heap.
Ordered(q, n) == \A k \in 2 .. n : InOrder(q, k)
=============================================================================
