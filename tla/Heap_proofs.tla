----------------------------- MODULE Heap_proofs -----------------------------
(***************************************************************************)
(* Proofs about Heap: what up, down, Push, Fix and RemoveAt do with a heap *)
(* of any length.  An induction over data takes the least counterexample.  *)
(***************************************************************************)
EXTENDS Heap, WellFoundedInduction, SequenceTheorems, TLAPS

----------------------------------------------------------------------------
(* Recursion.                                                              *)

\* A nonempty set of natural numbers has a least element.
LEMMA LeastNat ==
  ASSUME NEW S \in SUBSET Nat, S # {}
  PROVE  \E n \in S : \A m \in S : n <= m
<1>1. \E x \in S : \A y \in S : ~ (<<y, x>> \in OpToRel(<, Nat))
  BY NatLessThanWellFounded, WFMin
<1>2. \E x \in S : \A y \in S : ~(y < x)
  BY <1>1 DEF OpToRel
<1> QED BY <1>2

\* A sequence of n + 1 states, each made from the one before.
IsRun(S, x, F, n, g) ==
  /\ g \in [0 .. n -> S]
  /\ g[0] = x
  /\ \A m \in 0 .. n - 1 : g[m + 1] = F[<<m, g[m]>>]

\* There are such sequences of every length.
LEMMA RunsExist ==
  ASSUME NEW S, NEW x \in S, NEW F \in [Nat \X S -> S], NEW n \in Nat
  PROVE  \E g : IsRun(S, x, F, n, g)
<1> DEFINE D == {k \in Nat : ~ \E g : IsRun(S, x, F, k, g)}
<1> SUFFICES ASSUME D # {} PROVE FALSE
  OBVIOUS
<1>1. PICK k \in D : \A m \in D : k <= m
  <2>1. D \in SUBSET Nat
    OBVIOUS
  <2> HIDE DEF D
  <2> QED BY <2>1, LeastNat
<1>2. k # 0
  <2> SUFFICES ASSUME k = 0 PROVE FALSE
    OBVIOUS
  <2> DEFINE g == [m \in 0 .. 0 |-> x]
  <2>1. g \in [0 .. 0 -> S] /\ g[0] = x /\ 0 .. 0 - 1 = {}
    OBVIOUS
  <2>2. IsRun(S, x, F, 0, g)
    BY <2>1 DEF IsRun
  <2> QED BY <1>1, <2>2
<1>3. k \in Nat /\ k - 1 \in Nat /\ k - 1 \notin D
  BY <1>1, <1>2
<1>4. PICK h : IsRun(S, x, F, k - 1, h)
  BY <1>3
<1> DEFINE g == [m \in 0 .. k |-> IF m = k THEN F[<<k - 1, h[k - 1]>>] ELSE h[m]]
<1> HIDE DEF D
<1>5. /\ h \in [0 .. k - 1 -> S] /\ h[0] = x
      /\ \A m \in 0 .. (k - 1) - 1 : h[m + 1] = F[<<m, h[m]>>]
  BY <1>4 DEF IsRun
<1>6. h[k - 1] \in S /\ F[<<k - 1, h[k - 1]>>] \in S
  BY <1>3, <1>5
<1>7. g \in [0 .. k -> S] /\ g[0] = x
  BY <1>2, <1>3, <1>5, <1>6
<1>8. ASSUME NEW m \in 0 .. k - 1 PROVE g[m + 1] = F[<<m, g[m]>>]
  <2>1. m \in Nat /\ m \in 0 .. k /\ m + 1 \in 0 .. k /\ m # k
    BY <1>3
  <2>2. CASE m = k - 1
    BY <1>3, <2>1, <2>2
  <2>3. CASE m # k - 1
    <3>1. m \in 0 .. (k - 1) - 1 /\ m + 1 # k
      BY <1>3, <2>3
    <3> QED BY <1>5, <2>1, <3>1
  <2> QED BY <2>2, <2>3
<1>9. IsRun(S, x, F, k, g)
  <2> HIDE DEF g
  <2> QED BY <1>7, <1>8 DEF IsRun
<1> QED BY <1>1, <1>9 DEF D

\* A longer one begins like a shorter one.
LEMMA RunsAgree ==
  ASSUME NEW S, NEW x \in S, NEW F \in [Nat \X S -> S], NEW n \in Nat, NEW g, NEW h,
         IsRun(S, x, F, n, g), IsRun(S, x, F, n + 1, h)
  PROVE  h[n] = g[n]
<1> DEFINE D == {k \in 0 .. n : g[k] # h[k]}
<1> SUFFICES ASSUME D # {} PROVE FALSE
  OBVIOUS
<1>1. PICK k \in D : \A m \in D : k <= m
  <2>1. D \in SUBSET Nat
    OBVIOUS
  <2> HIDE DEF D
  <2> QED BY <2>1, LeastNat
<1>2. g[0] = x /\ h[0] = x
  BY DEF IsRun
<1>3. k \in Nat /\ k # 0 /\ k - 1 \in 0 .. n - 1 /\ k - 1 \in 0 .. (n + 1) - 1 /\ k - 1 \notin D
      /\ (k - 1) + 1 = k
  BY <1>1, <1>2
<1>4. g[k - 1] = h[k - 1]
  BY <1>3
<1>5. g[k] = F[<<k - 1, g[k - 1]>>]
  BY <1>3 DEF IsRun
<1>6. h[k] = F[<<k - 1, h[k - 1]>>]
  BY <1>3 DEF IsRun
<1> QED BY <1>1, <1>4, <1>5, <1>6

\* The function defined by primitive recursion.
IsRecursive(S, x, F, g) ==
  /\ g \in [Nat -> S]
  /\ g[0] = x
  /\ \A n \in Nat : g[n + 1] = F[<<n, g[n]>>]

\* There is one.
LEMMA Recursion ==
  ASSUME NEW S, NEW x \in S, NEW F \in [Nat \X S -> S]
  PROVE  \E g : IsRecursive(S, x, F, g)
<1> DEFINE G == [n \in Nat |-> CHOOSE g : IsRun(S, x, F, n, g)]
           g == [n \in Nat |-> G[n][n]]
<1>1. ASSUME NEW n \in Nat PROVE IsRun(S, x, F, n, G[n])
  BY RunsExist
<1> HIDE DEF G
<1>2. ASSUME NEW n \in Nat PROVE g[n] \in S
  <2>1. n \in 0 .. n /\ G[n] \in [0 .. n -> S]
    BY <1>1 DEF IsRun
  <2> QED BY <2>1
<1>3. g[0] = x
  BY <1>1 DEF IsRun
<1>4. ASSUME NEW n \in Nat PROVE g[n + 1] = F[<<n, g[n]>>]
  <2>1. n + 1 \in Nat /\ n \in 0 .. (n + 1) - 1
    OBVIOUS
  <2>2. IsRun(S, x, F, n + 1, G[n + 1])
    BY <1>1, <2>1
  <2>3. G[n + 1][n + 1] = F[<<n, G[n + 1][n]>>]
    BY <2>1, <2>2 DEF IsRun
  <2>4. G[n + 1][n] = G[n][n]
    BY <1>1, <2>2, RunsAgree
  <2> QED BY <2>1, <2>3, <2>4
<1>5. g \in [Nat -> S]
  BY <1>2
<1> HIDE DEF g
<1> QED BY <1>3, <1>4, <1>5 DEF IsRecursive

\* A loop whose measure falls until it is done.
LEMMA LoopEnds ==
  ASSUME NEW S, NEW run \in [Nat -> S], NEW Done, NEW measure \in [S -> Nat], NEW n \in Nat,
         measure[run[0]] <= n,
         \A m \in Nat : run[m] \in Done => run[m + 1] \in Done,
         \A m \in Nat : run[m] \notin Done => measure[run[m + 1]] < measure[run[m]]
  PROVE  run[n] \in Done
<1> DEFINE D == {m \in Nat : run[m] \notin Done /\ measure[run[m]] + m > measure[run[0]]}
<1>1. D = {}
  <2> SUFFICES ASSUME D # {} PROVE FALSE
    OBVIOUS
  <2>1. PICK k \in D : \A m \in D : k <= m
    <3>1. D \in SUBSET Nat
      OBVIOUS
    <3> HIDE DEF D
    <3> QED BY <3>1, LeastNat
  <2>2. k \in Nat /\ measure[run[0]] \in Nat /\ run[k] \notin Done
        /\ measure[run[k]] + k > measure[run[0]]
    BY <2>1
  <2>3. k # 0
    BY <2>2
  <2>4. k - 1 \in Nat /\ (k - 1) + 1 = k /\ k - 1 \notin D
    BY <2>1, <2>2, <2>3
  <2>5. run[k - 1] \notin Done
    BY <2>2, <2>4
  <2>6. measure[run[k]] < measure[run[k - 1]] /\ measure[run[k - 1]] + (k - 1) <= measure[run[0]]
    <3>1. measure[run[k - 1]] \in Nat
      BY <2>4
    <3> QED BY <2>2, <2>4, <2>5, <3>1
  <2>7. measure[run[k]] \in Nat /\ measure[run[k - 1]] \in Nat
    BY <2>2, <2>4
  <2> QED BY <2>2, <2>6, <2>7
<1> SUFFICES ASSUME run[n] \notin Done PROVE FALSE
  OBVIOUS
<1>2. measure[run[n]] + n <= measure[run[0]] /\ measure[run[n]] \in Nat /\ measure[run[0]] \in Nat
  BY <1>1
<1>3. measure[run[n]] = 0
  BY <1>2
<1>4. measure[run[n + 1]] \in Nat /\ measure[run[n + 1]] < measure[run[n]]
  OBVIOUS
<1> QED BY <1>3, <1>4

\* A function on the states, iterated.
Iterates(S, x, f, g) ==
  /\ g \in [Nat -> S]
  /\ g[0] = x
  /\ \A n \in Nat : g[n + 1] = f[g[n]]

\* It can be.
LEMMA Iteration ==
  ASSUME NEW S, NEW x \in S, NEW f \in [S -> S]
  PROVE  \E g : Iterates(S, x, f, g)
<1> DEFINE F == [p \in Nat \X S |-> f[p[2]]]
<1>1. F \in [Nat \X S -> S]
  OBVIOUS
<1>2. \A n \in Nat, s \in S : F[<<n, s>>] = f[s]
  OBVIOUS
<1> HIDE DEF F
<1>3. PICK g : IsRecursive(S, x, F, g)
  BY <1>1, Recursion
<1>4. g \in [Nat -> S] /\ g[0] = x /\ \A n \in Nat : g[n + 1] = f[g[n]]
  BY <1>2, <1>3 DEF IsRecursive
<1> QED BY <1>4 DEF Iterates

\* What holds at first and is kept holds always.
LEMMA RunStays ==
  ASSUME NEW S, NEW run, run[0] \in S,
         \A n \in Nat : run[n] \in S => run[n + 1] \in S,
         NEW n \in Nat
  PROVE  run[n] \in S
<1> DEFINE D == {k \in Nat : run[k] \notin S}
<1> SUFFICES ASSUME D # {} PROVE FALSE
  OBVIOUS
<1>1. PICK k \in D : \A m \in D : k <= m
  <2>1. D \in SUBSET Nat
    OBVIOUS
  <2> HIDE DEF D
  <2> QED BY <2>1, LeastNat
<1>2. k \in Nat /\ k # 0
  BY <1>1
<1>3. k - 1 \in Nat /\ (k - 1) + 1 = k /\ k - 1 \notin D
  BY <1>1, <1>2
<1>4. run[k - 1] \in S
  BY <1>3
<1> QED BY <1>1, <1>3, <1>4

----------------------------------------------------------------------------
(* The queue as an array.                                                  *)

\* Less is a strict weak order of the elements.
Ordering(Elem, Ids) ==
  /\ \A e \in Elem : Id(e) \in Ids
  /\ \A a, b \in Elem : Precedes(a, b) => ~Precedes(b, a)
  /\ \A a, b, c \in Elem : ~Precedes(a, b) /\ ~Precedes(b, c) => ~Precedes(a, c)

Heaps(Elem, Ids) == [queue : Seq(Elem), index : [Ids -> Nat]]

\* h2 has the elements of h, the ones after position n in their places.
Rearranged(Elem, Ids, h, n, h2) ==
  /\ h2 \in Heaps(Elem, Ids)
  /\ Indexed(h2)
  /\ Len(h2.queue) = Len(h.queue)
  /\ Content(h2.queue) = Content(h.queue)
  /\ \A k \in n + 1 .. Len(h.queue) : h2.queue[k] = h.queue[k]

\* What Swap does to the slice.
IsSwap(q, i, j, q2) ==
  /\ q2[i] = q[j]
  /\ q2[j] = q[i]
  /\ \A k \in 1 .. Len(q) : k # i /\ k # j => q2[k] = q[k]

\* Swap is one, also when the two positions are the same.
LEMMA SwapSlice ==
  ASSUME NEW Elem, NEW Ids, NEW h \in Heaps(Elem, Ids),
         NEW i \in 1 .. Len(h.queue), NEW j \in 1 .. Len(h.queue)
  PROVE  /\ Swap(h, i, j).queue \in Seq(Elem)
         /\ Len(Swap(h, i, j).queue) = Len(h.queue)
         /\ IsSwap(h.queue, i, j, Swap(h, i, j).queue)
<1> DEFINE q == h.queue
<1>1. q \in Seq(Elem) /\ Len(q) \in Nat /\ i \in 1 .. Len(q) /\ j \in 1 .. Len(q)
  BY DEF Heaps
<1>2. Swap(h, i, j).queue = [q EXCEPT ![i] = q[j], ![j] = q[i]]
  BY DEF Swap
<1> HIDE DEF q
<1>3. q[i] \in Elem /\ q[j] \in Elem
  BY <1>1
<1> DEFINE r == [q EXCEPT ![i] = q[j], ![j] = q[i]]
<1>4. r \in Seq(Elem) /\ Len(r) = Len(q)
  BY <1>1, <1>3
<1>5. IsSwap(q, i, j, r)
  BY <1>1, <1>3 DEF IsSwap
<1> QED BY <1>2, <1>4, <1>5 DEF q

\* Swap keeps the elements and moves the index fields along.
LEMMA SwapRearranges ==
  ASSUME NEW Elem, NEW Ids, Ordering(Elem, Ids), NEW h \in Heaps(Elem, Ids), Indexed(h),
         NEW n \in 0 .. Len(h.queue), NEW i \in 1 .. n, NEW j \in 1 .. n
  PROVE  Rearranged(Elem, Ids, h, n, Swap(h, i, j))
<1> DEFINE h2 == Swap(h, i, j)
           q == h.queue
           r == h2.queue
           w == h2.index
<1>1. q \in Seq(Elem) /\ Len(q) \in Nat /\ h.index \in [Ids -> Nat] /\ n \in Nat /\ n <= Len(q)
  BY DEF Heaps
<1>2. i \in 1 .. Len(q) /\ j \in 1 .. Len(q)
  BY <1>1
<1>3. r \in Seq(Elem) /\ Len(r) = Len(q) /\ IsSwap(q, i, j, r)
  BY <1>2, SwapSlice
<1>4. w = [h.index EXCEPT ![Id(q[j])] = i, ![Id(q[i])] = j] /\ h2 = [queue |-> r, index |-> w]
  BY DEF Swap
<1>5. \A k \in 1 .. Len(q) : h.index[Id(q[k])] = k
  BY DEF Indexed
<1> HIDE DEF h2, q, r, w
<1>6. \A k \in 1 .. Len(q) : q[k] \in Elem /\ Id(q[k]) \in Ids
  <2> SUFFICES ASSUME NEW k \in 1 .. Len(q) PROVE q[k] \in Elem /\ Id(q[k]) \in Ids
    OBVIOUS
  <2>1. q[k] \in Elem
    BY <1>1
  <2> QED BY <2>1 DEF Ordering
<1>7. w \in [Ids -> Nat]
  BY <1>1, <1>2, <1>4, <1>6
<1>8. h2 \in Heaps(Elem, Ids)
  BY <1>3, <1>4, <1>7 DEF Heaps
<1>9. ASSUME NEW k \in 1 .. Len(q) PROVE w[Id(r[k])] = k
  <2>1. CASE k = i
    <3>1. r[k] = q[j]
      BY <1>3, <2>1 DEF IsSwap
    <3>2. CASE i = j
      BY <1>1, <1>2, <1>4, <1>6, <2>1, <3>1, <3>2
    <3>3. CASE i # j
      <4>1. Id(q[i]) # Id(q[j])
        BY <1>2, <1>5, <3>3
      <4> QED BY <1>1, <1>2, <1>4, <1>6, <2>1, <3>1, <4>1
    <3> QED BY <3>2, <3>3
  <2>2. CASE k = j
    <3>1. r[k] = q[i]
      BY <1>3, <2>2 DEF IsSwap
    <3> QED BY <1>1, <1>2, <1>4, <1>6, <2>2, <3>1
  <2>3. CASE k # i /\ k # j
    <3>1. r[k] = q[k]
      BY <1>3, <2>3 DEF IsSwap
    <3>2. Id(q[k]) # Id(q[i]) /\ Id(q[k]) # Id(q[j])
      BY <1>2, <1>5, <2>3
    <3> QED BY <1>1, <1>4, <1>5, <1>6, <3>1, <3>2
  <2> QED BY <2>1, <2>2, <2>3
<1>10. Indexed(h2)
  BY <1>3, <1>9 DEF Indexed, r, w
<1>11. Content(r) = Content(q)
  <2>1. ASSUME NEW k \in 1 .. Len(q) PROVE \E l \in 1 .. Len(q) : r[k] = q[l]
    BY <1>2, <1>3 DEF IsSwap
  <2>2. ASSUME NEW k \in 1 .. Len(q) PROVE \E l \in 1 .. Len(q) : q[k] = r[l]
    BY <1>2, <1>3 DEF IsSwap
  <2>3. Content(r) \subseteq Content(q)
    BY <1>3, <2>1 DEF Content
  <2>4. Content(q) \subseteq Content(r)
    BY <1>3, <2>2 DEF Content
  <2> QED BY <2>3, <2>4
<1>12. \A k \in n + 1 .. Len(q) : r[k] = q[k]
  BY <1>1, <1>2, <1>3 DEF IsSwap
<1> QED BY <1>3, <1>8, <1>10, <1>11, <1>12 DEF Rearranged, h2, q, r

\* Rearranging twice is rearranging.
LEMMA RearrangedTwice ==
  ASSUME NEW Elem, NEW Ids, NEW n \in Nat, NEW h, NEW h2, NEW h3,
         Rearranged(Elem, Ids, h, n, h2), Rearranged(Elem, Ids, h2, n, h3)
  PROVE  Rearranged(Elem, Ids, h, n, h3)
BY DEF Rearranged

----------------------------------------------------------------------------
(* The order of the heap.                                                  *)

\* They are but for the element at j, which may precede its parent.
UpReady(q, n, j) ==
  /\ \A k \in 2 .. n : k # j => InOrder(q, k)
  /\ j > 1 => \A k \in 2 .. n : k \div 2 = j => ~Precedes(q[k], q[j \div 2])

\* They are but for the element at pos, where down that began at i has come:
\* its children may precede it and, before it has moved, it its parent.
DownReady(q, n, i, pos) ==
  /\ \A k \in 2 .. n : k \div 2 # pos /\ ~(k = i /\ pos = i) => InOrder(q, k)
  /\ pos > 1 => \A k \in 2 .. n : k \div 2 = pos => ~Precedes(q[k], q[pos \div 2])

\* The parent of a position.
LEMMA Half ==
  ASSUME NEW k \in Nat, k >= 2
  PROVE  /\ k \div 2 \in Nat
         /\ k \div 2 >= 1
         /\ k \div 2 < k
         /\ k = 2 * (k \div 2) \/ k = 2 * (k \div 2) + 1
OBVIOUS

\* The children of a position.
LEMMA Double ==
  ASSUME NEW p \in Nat
  PROVE  (2 * p) \div 2 = p /\ (2 * p + 1) \div 2 = p
OBVIOUS

\* The order, used at given elements.
LEMMA NotBoth ==
  ASSUME NEW Elem, NEW Ids, Ordering(Elem, Ids), NEW a \in Elem, NEW b \in Elem, Precedes(a, b)
  PROVE  ~Precedes(b, a)
BY DEF Ordering

\* It is a weak order.
LEMMA NotBefore ==
  ASSUME NEW Elem, NEW Ids, Ordering(Elem, Ids), NEW a \in Elem, NEW b \in Elem, NEW c \in Elem,
         ~Precedes(a, b), ~Precedes(b, c)
  PROVE  ~Precedes(a, c)
BY DEF Ordering

\* An element does not precede itself.
LEMMA NotItself ==
  ASSUME NEW Elem, NEW Ids, Ordering(Elem, Ids), NEW a \in Elem
  PROVE  ~Precedes(a, a)
BY DEF Ordering

\* No element of a heap precedes the root.
LEMMA RootIsLeast ==
  ASSUME NEW Elem, NEW Ids, Ordering(Elem, Ids), NEW q \in Seq(Elem), Ordered(q, Len(q)),
         NEW k \in 1 .. Len(q)
  PROVE  ~Precedes(q[k], q[1])
<1> DEFINE D == {l \in 1 .. Len(q) : Precedes(q[l], q[1])}
<1> SUFFICES ASSUME D # {} PROVE FALSE
  OBVIOUS
<1>1. PICK l \in D : \A m \in D : l <= m
  <2>1. D \in SUBSET Nat
    OBVIOUS
  <2> HIDE DEF D
  <2> QED BY <2>1, LeastNat
<1>2. Len(q) \in Nat /\ l \in 1 .. Len(q) /\ Precedes(q[l], q[1]) /\ l \in Nat
  BY <1>1
<1>3. \A m \in 1 .. Len(q) : q[m] \in Elem
  OBVIOUS
<1>4. l # 1
  BY <1>2, <1>3, NotItself
<1>5. l \div 2 \in 1 .. Len(q) /\ l \div 2 < l
  BY <1>2, <1>4, Half
<1>6. l \div 2 \notin D
  BY <1>1, <1>2, <1>5
<1>7. ~Precedes(q[l \div 2], q[1])
  BY <1>5, <1>6
<1>8. ~Precedes(q[l], q[l \div 2])
  BY <1>2, <1>4 DEF Ordered, InOrder
<1>9. q[l] \in Elem /\ q[l \div 2] \in Elem /\ q[1] \in Elem
  BY <1>2, <1>3, <1>5
<1>10. ~Precedes(q[l], q[1])
  BY <1>7, <1>8, <1>9, NotBefore
<1> QED BY <1>2, <1>10

\* One time round the loop of up.
LEMMA RiseReady ==
  ASSUME NEW Elem, NEW Ids, Ordering(Elem, Ids), NEW q \in Seq(Elem), NEW n \in 0 .. Len(q),
         NEW j \in 2 .. n, UpReady(q, n, j), Precedes(q[j], q[j \div 2]),
         NEW r, IsSwap(q, j \div 2, j, r)
  PROVE  UpReady(r, n, j \div 2)
<1> DEFINE i == j \div 2
<1>1. j \in Nat /\ n \in Nat /\ Len(q) \in Nat /\ j \in 1 .. Len(q) /\ j <= n /\ n <= Len(q)
  OBVIOUS
<1>2. i \in 1 .. Len(q) /\ i < j /\ i \in Nat /\ i >= 1
  BY <1>1, Half
<1>3. \A k \in 1 .. Len(q) : q[k] \in Elem
  OBVIOUS
<1>4. /\ r[i] = q[j] /\ r[j] = q[i]
      /\ \A k \in 1 .. Len(q) : k # i /\ k # j => r[k] = q[k]
  BY DEF IsSwap
<1>5. \A k \in 2 .. n : k # j => ~Precedes(q[k], q[k \div 2])
  BY DEF UpReady, InOrder
<1>6. \A k \in 2 .. n : k \div 2 = j => ~Precedes(q[k], q[i])
  BY <1>1 DEF UpReady
<1>7. Precedes(q[j], q[i]) /\ ~Precedes(q[i], q[j])
  BY <1>1, <1>2, <1>3, NotBoth
<1>8. \A k \in 2 .. n : k \in Nat /\ k \in 1 .. Len(q) /\ k \div 2 \in 1 .. Len(q) /\ k \div 2 < k
  <2> SUFFICES ASSUME NEW k \in 2 .. n
               PROVE  k \in Nat /\ k \in 1 .. Len(q) /\ k \div 2 \in 1 .. Len(q) /\ k \div 2 < k
    OBVIOUS
  <2>1. k \in Nat /\ k >= 2 /\ k <= n
    BY <1>1
  <2> QED BY <1>1, <2>1, Half
<1> HIDE DEF i
<1>9. ASSUME NEW k \in 2 .. n, k # i PROVE ~Precedes(r[k], r[k \div 2])
  <2> DEFINE p == k \div 2
  <2>1. k \in 1 .. Len(q) /\ p \in 1 .. Len(q) /\ p < k /\ k \in Nat
    BY <1>8
  <2>2. q[k] \in Elem /\ q[p] \in Elem /\ q[i] \in Elem /\ q[j] \in Elem
    BY <1>1, <1>2, <1>3, <2>1
  <2>3. CASE k = j
    BY <1>4, <1>7, <2>3 DEF i
  <2>4. CASE k # j /\ p = j
    <3>1. r[k] = q[k] /\ r[p] = q[i]
      BY <1>4, <1>9, <2>1, <2>4
    <3> QED BY <1>6, <2>4, <3>1
  <2>5. CASE k # j /\ p = i
    <3>1. r[k] = q[k] /\ r[p] = q[j]
      BY <1>4, <1>9, <2>1, <2>5
    <3>2. ~Precedes(q[k], q[i])
      BY <1>5, <2>5
    <3>3. ~Precedes(q[k], q[j])
      BY <1>7, <2>2, <3>2, NotBefore
    <3> QED BY <3>1, <3>3
  <2>6. CASE k # j /\ p # i /\ p # j
    <3>1. r[k] = q[k] /\ r[p] = q[p]
      BY <1>4, <1>9, <2>1, <2>6
    <3> QED BY <1>5, <2>6, <3>1
  <2> QED BY <2>3, <2>4, <2>5, <2>6
<1>10. ASSUME i > 1, NEW k \in 2 .. n, k \div 2 = i PROVE ~Precedes(r[k], r[i \div 2])
  <2>1. i \in 2 .. n /\ i # j
    BY <1>1, <1>2, <1>10
  <2>2. i \div 2 \in 1 .. Len(q) /\ i \div 2 < i
    BY <1>8, <2>1
  <2>3. r[i \div 2] = q[i \div 2]
    BY <1>1, <1>2, <1>4, <2>2
  <2>4. ~Precedes(q[i], q[i \div 2])
    BY <1>5, <2>1
  <2>5. CASE k = j
    BY <1>4, <2>3, <2>4, <2>5
  <2>6. CASE k # j
    <3>1. k \in 1 .. Len(q) /\ i < k
      BY <1>8, <1>10
    <3>2. r[k] = q[k]
      BY <1>1, <1>2, <1>4, <2>6, <3>1
    <3>3. ~Precedes(q[k], q[i])
      BY <1>5, <1>10, <2>6
    <3>4. ~Precedes(q[k], q[i \div 2])
      BY <1>2, <1>3, <2>2, <2>4, <3>1, <3>3, NotBefore
    <3> QED BY <2>3, <3>2, <3>4
  <2> QED BY <2>5, <2>6
<1>11. UpReady(r, n, i)
  BY <1>9, <1>10 DEF UpReady, InOrder
<1> QED BY <1>11 DEF i

\* When up stops the heap is in order.
LEMMA RiseDone ==
  ASSUME NEW q, NEW n \in Nat, NEW j \in 1 .. n, UpReady(q, n, j),
         ~(j > 1 /\ Precedes(q[j], q[j \div 2]))
  PROVE  Ordered(q, n)
<1> SUFFICES ASSUME NEW k \in 2 .. n PROVE ~Precedes(q[k], q[k \div 2])
  BY DEF Ordered, InOrder
<1>1. CASE k # j
  BY <1>1 DEF UpReady, InOrder
<1>2. CASE k = j
  BY <1>2
<1> QED BY <1>1, <1>2

\* One time round the loop of down.
LEMMA SinkReady ==
  ASSUME NEW Elem, NEW Ids, Ordering(Elem, Ids), NEW q \in Seq(Elem), NEW n \in 0 .. Len(q),
         NEW i \in 1 .. n, NEW pos \in i .. n, NEW j \in 2 .. n, j \div 2 = pos,
         DownReady(q, n, i, pos), Precedes(q[j], q[pos]),
         \A k \in 2 .. n : k \div 2 = pos => ~Precedes(q[k], q[j]),
         NEW r, IsSwap(q, pos, j, r)
  PROVE  DownReady(r, n, i, j) /\ j > pos
<1>1. j \in Nat /\ n \in Nat /\ Len(q) \in Nat /\ j \in 1 .. Len(q) /\ j <= n /\ n <= Len(q) /\ i \in Nat
  OBVIOUS
<1>2. pos \in Nat /\ pos >= i /\ pos >= 1 /\ pos \in 1 .. Len(q) /\ pos < j
  BY <1>1, Half
<1>3. \A k \in 1 .. Len(q) : q[k] \in Elem
  OBVIOUS
<1>4. /\ r[pos] = q[j] /\ r[j] = q[pos]
      /\ \A k \in 1 .. Len(q) : k # pos /\ k # j => r[k] = q[k]
  BY DEF IsSwap
<1>5. \A k \in 2 .. n : k \div 2 # pos /\ ~(k = i /\ pos = i) => ~Precedes(q[k], q[k \div 2])
  BY DEF DownReady, InOrder
<1>6. pos > 1 => \A k \in 2 .. n : k \div 2 = pos => ~Precedes(q[k], q[pos \div 2])
  BY DEF DownReady
<1>7. Precedes(q[j], q[pos]) /\ ~Precedes(q[pos], q[j])
  BY <1>1, <1>2, <1>3, NotBoth
<1>8. \A k \in 2 .. n : k \in Nat /\ k \in 1 .. Len(q) /\ k \div 2 \in 1 .. Len(q) /\ k \div 2 < k
  <2> SUFFICES ASSUME NEW k \in 2 .. n
               PROVE  k \in Nat /\ k \in 1 .. Len(q) /\ k \div 2 \in 1 .. Len(q) /\ k \div 2 < k
    OBVIOUS
  <2>1. k \in Nat /\ k >= 2 /\ k <= n
    BY <1>1
  <2> QED BY <1>1, <2>1, Half
<1>9. ASSUME NEW k \in 2 .. n, k \div 2 # j PROVE ~Precedes(r[k], r[k \div 2])
  <2> DEFINE p == k \div 2
  <2>1. k \in 1 .. Len(q) /\ p \in 1 .. Len(q) /\ p < k /\ k \in Nat
    BY <1>8
  <2>2. CASE k = j
    BY <1>4, <1>7, <2>2
  <2>3. CASE k # j /\ p = pos
    <3>1. r[k] = q[k] /\ r[p] = q[j]
      BY <1>4, <2>1, <2>3
    <3> QED BY <2>3, <3>1
  <2>4. CASE k = pos
    <3>1. r[k] = q[j] /\ r[p] = q[p]
      BY <1>2, <1>4, <1>9, <2>1, <2>4
    <3>2. ~Precedes(q[j], q[pos \div 2])
      BY <1>6, <2>4
    <3> QED BY <2>4, <3>1, <3>2
  <2>5. CASE k # j /\ k # pos /\ p # pos
    <3>1. r[k] = q[k] /\ r[p] = q[p]
      BY <1>4, <1>9, <2>1, <2>5
    <3> QED BY <1>5, <2>5, <3>1
  <2> QED BY <2>2, <2>3, <2>4, <2>5
<1>10. ASSUME NEW k \in 2 .. n, k \div 2 = j PROVE ~Precedes(r[k], r[j \div 2])
  <2>1. k \in 1 .. Len(q) /\ j < k
    BY <1>8, <1>10
  <2>2. r[k] = q[k] /\ r[pos] = q[j]
    BY <1>1, <1>2, <1>4, <2>1
  <2>3. k \div 2 # pos /\ k # i
    BY <1>1, <1>2, <1>10, <2>1
  <2>4. ~Precedes(q[k], q[j])
    BY <1>5, <1>10, <2>3
  <2> QED BY <2>2, <2>4
<1>11. DownReady(r, n, i, j)
  BY <1>9, <1>10 DEF DownReady, InOrder
<1> QED BY <1>2, <1>11

\* No child of pos precedes the one at j; if j is outside there is none.
IsSmallerChild(q, n, pos, j) ==
  /\ j \in Nat /\ j >= 2 /\ j \div 2 = pos
  /\ j > n => \A k \in 2 .. n : k \div 2 # pos
  /\ \A k \in 2 .. n : k \div 2 = pos => ~Precedes(q[k], q[j])

\* The child that smallerChild chooses.
LEMMA SmallerChild ==
  ASSUME NEW Elem, NEW Ids, Ordering(Elem, Ids), NEW s, NEW n \in Nat, s.heap.queue \in Seq(Elem),
         n <= Len(s.heap.queue), s.pos \in 1 .. n
  PROVE  IsSmallerChild(s.heap.queue, n, s.pos, smallerChild(s, n))
<1> DEFINE j == smallerChild(s, n)
           q == s.heap.queue
           pos == s.pos
<1>1. j = IF 2 * pos + 1 <= n /\ Precedes(q[2 * pos + 1], q[2 * pos]) THEN 2 * pos + 1 ELSE 2 * pos
  BY DEF smallerChild
<1>2. pos \in Nat /\ pos >= 1 /\ Len(q) \in Nat /\ n <= Len(q) /\ q \in Seq(Elem)
  OBVIOUS
<1> HIDE DEF j, q, pos
<1>3. j \in Nat /\ j >= 2
  BY <1>1, <1>2
<1>4. j \div 2 = pos
  BY <1>1, <1>2, Double
<1>5. \A k \in 2 .. n : k \div 2 = pos => k = 2 * pos \/ k = 2 * pos + 1
  <2> SUFFICES ASSUME NEW k \in 2 .. n, k \div 2 = pos PROVE k = 2 * pos \/ k = 2 * pos + 1
    OBVIOUS
  <2>1. k \in Nat /\ k >= 2
    OBVIOUS
  <2> QED BY <2>1, Half
<1>6. j > n => \A k \in 2 .. n : k \div 2 # pos
  BY <1>1, <1>2, <1>5
<1>7. ASSUME NEW k \in 2 .. n, k \div 2 = pos PROVE ~Precedes(q[k], q[j])
  <2>1. k \in 1 .. Len(q) /\ k \in Nat /\ k <= n
    BY <1>2
  <2>2. q[k] \in Elem
    BY <1>2, <2>1
  <2>3. CASE k = j
    BY <2>2, <2>3, NotItself
  <2>4. CASE k # j /\ k = 2 * pos + 1
    BY <1>1, <2>1, <2>4
  <2>5. CASE k # j /\ k = 2 * pos
    <3>1. j = 2 * pos + 1 /\ j <= n /\ Precedes(q[j], q[k])
      BY <1>1, <1>2, <2>5
    <3>2. q[j] \in Elem
      BY <1>2, <1>3, <3>1
    <3> QED BY <2>2, <3>1, <3>2, NotBoth
  <2> QED BY <1>5, <1>7, <2>3, <2>4, <2>5
<1>8. IsSmallerChild(q, n, pos, j)
  BY <1>3, <1>4, <1>6, <1>7 DEF IsSmallerChild
<1> QED BY <1>8 DEF j, q, pos

\* When down stops the heap is in order, or the element has not moved and may
\* have to go up.
LEMMA SinkDone ==
  ASSUME NEW Elem, NEW Ids, Ordering(Elem, Ids), NEW q \in Seq(Elem), NEW n \in 0 .. Len(q),
         NEW i \in 1 .. n, NEW pos \in i .. n, DownReady(q, n, i, pos),
         \A k \in 2 .. n : k \div 2 = pos => ~Precedes(q[k], q[pos])
  PROVE  /\ pos > i => Ordered(q, n)
         /\ pos = i => UpReady(q, n, i)
<1>1. \A k \in 2 .. n : ~(k = i /\ pos = i) => InOrder(q, k)
  BY DEF DownReady, InOrder
<1>2. pos > i => Ordered(q, n)
  BY <1>1 DEF Ordered
<1>3. pos = i => UpReady(q, n, i)
  BY <1>1 DEF UpReady, DownReady
<1> QED BY <1>2, <1>3

----------------------------------------------------------------------------
(* The loops.                                                              *)

\* The states of the loop of up on h, among the first n elements.
UpStates(Elem, Ids, h, n) ==
  {s \in [heap : Heaps(Elem, Ids), pos : 1 .. n] :
     Rearranged(Elem, Ids, h, n, s.heap) /\ UpReady(s.heap.queue, n, s.pos)}

\* The loop goes on.
Rises(s) == s.pos > 1 /\ Precedes(s.heap.queue[s.pos], s.heap.queue[s.pos \div 2])

\* Every time round leads from a state of the loop to one further up.
LEMMA RiseStep ==
  ASSUME NEW Elem, NEW Ids, Ordering(Elem, Ids), NEW h, NEW n \in Nat, n <= Len(h.queue),
         Len(h.queue) \in Nat, NEW s \in UpStates(Elem, Ids, h, n)
  PROVE  /\ rise(s) \in UpStates(Elem, Ids, h, n)
         /\ Rises(s) => rise(s).pos < s.pos
         /\ ~Rises(s) => rise(s) = s
<1>1. CASE ~Rises(s)
  BY <1>1 DEF rise, Rises
<1>2. CASE Rises(s)
  <2> DEFINE i == s.pos \div 2
             h2 == s.heap
             j == s.pos
  <2>1. /\ h2 \in Heaps(Elem, Ids) /\ j \in 1 .. n /\ Rearranged(Elem, Ids, h, n, h2)
        /\ UpReady(h2.queue, n, j)
    BY DEF UpStates
  <2>2. j > 1 /\ Precedes(h2.queue[j], h2.queue[i]) /\ rise(s) = [heap |-> Swap(h2, i, j), pos |-> i]
    BY <1>2 DEF rise, Rises
  <2>3. j \in Nat /\ j \in 2 .. n
    BY <2>1, <2>2
  <2>4. i \in 1 .. n /\ i < j
    BY <2>3, Half
  <2> HIDE DEF i, j, h2
  <2>5. Indexed(h2) /\ Len(h2.queue) = Len(h.queue) /\ h2.queue \in Seq(Elem)
    BY <2>1 DEF Rearranged, Heaps
  <2>6. n \in 0 .. Len(h2.queue) /\ i \in 1 .. Len(h2.queue) /\ j \in 1 .. Len(h2.queue)
    BY <2>1, <2>4, <2>5
  <2>7. Rearranged(Elem, Ids, h2, n, Swap(h2, i, j))
    BY <2>1, <2>4, <2>5, <2>6, SwapRearranges
  <2>8. Rearranged(Elem, Ids, h, n, Swap(h2, i, j))
    BY <2>1, <2>7, RearrangedTwice
  <2>9. Swap(h2, i, j) \in Heaps(Elem, Ids)
    BY <2>7 DEF Rearranged
  <2>10. IsSwap(h2.queue, i, j, Swap(h2, i, j).queue)
    BY <2>1, <2>6, SwapSlice
  <2>11. UpReady(Swap(h2, i, j).queue, n, i)
    <3>1. IsSwap(h2.queue, j \div 2, j, Swap(h2, i, j).queue) /\ Precedes(h2.queue[j], h2.queue[j \div 2])
      BY <2>2, <2>10 DEF i, j
    <3>2. UpReady(Swap(h2, i, j).queue, n, j \div 2)
      BY <2>1, <2>3, <2>5, <2>6, <3>1, RiseReady
    <3> QED BY <3>2 DEF i, j
  <2>12. rise(s) \in UpStates(Elem, Ids, h, n)
    BY <2>2, <2>4, <2>8, <2>9, <2>11 DEF UpStates
  <2> QED BY <1>2, <2>2, <2>4, <2>12 DEF j
<1> QED BY <1>1, <1>2

\* The loop of up as Heap writes it.
upRun(h, j) ==
  CHOOSE run : run = [m \in Nat |-> IF m = 0 THEN [heap |-> h, pos |-> j] ELSE rise(run[m - 1])]

\* A run of the loop from x.
Rising(S, x, run) ==
  /\ run \in [Nat -> S]
  /\ run[0] = x
  /\ \A m \in Nat : run[m + 1] = rise(run[m])

\* The states it goes through.
LEMMA UpRun ==
  ASSUME NEW Elem, NEW Ids, Ordering(Elem, Ids), NEW h, NEW n \in Nat, n <= Len(h.queue),
         Len(h.queue) \in Nat, NEW j, NEW x, x = [heap |-> h, pos |-> j],
         x \in UpStates(Elem, Ids, h, n)
  PROVE  Rising(UpStates(Elem, Ids, h, n), x, upRun(h, j))
<1> DEFINE S == UpStates(Elem, Ids, h, n)
           f == [s \in S |-> rise(s)]
<1>1. x \in S
  OBVIOUS
<1>2. \A s \in S : rise(s) \in S
  BY RiseStep
<1>3. f \in [S -> S] /\ \A s \in S : f[s] = rise(s)
  BY <1>2
<1> HIDE DEF S, f
<1>4. PICK g : Iterates(S, x, f, g)
  BY <1>1, <1>3, Iteration
<1>5. g \in [Nat -> S] /\ g[0] = x /\ \A m \in Nat : g[m + 1] = rise(g[m])
  BY <1>3, <1>4 DEF Iterates
<1>6. \A m \in Nat : m # 0 => g[m] = rise(g[m - 1])
  <2> SUFFICES ASSUME NEW m \in Nat, m # 0 PROVE g[m] = rise(g[m - 1])
    OBVIOUS
  <2>1. m - 1 \in Nat /\ (m - 1) + 1 = m
    OBVIOUS
  <2> QED BY <1>5, <2>1
<1>7. g = [m \in Nat |-> IF m = 0 THEN x ELSE rise(g[m - 1])]
  BY <1>5, <1>6
<1> DEFINE run == upRun(h, j)
<1>8. run = [m \in Nat |-> IF m = 0 THEN x ELSE rise(run[m - 1])]
  BY <1>7 DEF upRun
<1> HIDE DEF run
<1>9. DOMAIN run = Nat /\ run = [m \in Nat |-> run[m]] /\ run[0] = x
  BY <1>8
<1>10. \A m \in Nat : run[m + 1] = rise(run[m])
  BY <1>8
<1>11. \A m \in Nat : run[m] \in S => run[m + 1] \in S
  BY <1>2, <1>10
<1>12. \A m \in Nat : run[m] \in S
  BY <1>1, <1>9, <1>11, RunStays
<1>13. run \in [Nat -> S]
  BY <1>9, <1>12
<1> QED BY <1>9, <1>10, <1>13 DEF run, S, Rising

\* up brings a heap with one element too far down in order.
LEMMA UpFacts ==
  ASSUME NEW Elem, NEW Ids, Ordering(Elem, Ids), NEW h \in Heaps(Elem, Ids), Indexed(h),
         NEW n \in 0 .. Len(h.queue), NEW j \in 1 .. n, UpReady(h.queue, n, j)
  PROVE  Rearranged(Elem, Ids, h, n, up(h, j)) /\ Ordered(up(h, j).queue, n)
<1> DEFINE S == UpStates(Elem, Ids, h, n)
           x == [heap |-> h, pos |-> j]
           run == upRun(h, j)
           Done == {s \in S : ~Rises(s)}
           measure == [s \in S |-> s.pos]
<1>1. Len(h.queue) \in Nat /\ n \in Nat /\ n <= Len(h.queue) /\ j \in Nat
  BY DEF Heaps
<1>2. Rearranged(Elem, Ids, h, n, h)
  BY DEF Rearranged
<1>3. x \in S
  BY <1>2 DEF UpStates
<1>4. run \in [Nat -> S] /\ run[0] = x /\ \A m \in Nat : run[m + 1] = rise(run[m])
  <2>1. Rising(S, x, run)
    BY <1>1, <1>3, UpRun
  <2> QED BY <2>1 DEF Rising
<1>5. \A s \in S : /\ rise(s) \in S /\ (Rises(s) => rise(s).pos < s.pos)
                   /\ (~Rises(s) => rise(s) = s)
  BY <1>1, RiseStep
<1>6. \A s \in S : s.pos \in Nat
  BY DEF UpStates
<1>7. measure \in [S -> Nat] /\ \A s \in S : measure[s] = s.pos
  BY <1>6
<1>8. \A s \in S : s \in Done <=> ~Rises(s)
  OBVIOUS
<1>9. up(h, j) = run[j].heap
  BY DEF up, upRun
<1> HIDE DEF S, x, run, Done, measure
<1>10. measure[run[0]] <= j
  BY <1>1, <1>3, <1>4, <1>7 DEF x
<1>11. \A m \in Nat : run[m] \in Done => run[m + 1] \in Done
  BY <1>4, <1>5, <1>8
<1>12. \A m \in Nat : run[m] \notin Done => measure[run[m + 1]] < measure[run[m]]
  BY <1>4, <1>5, <1>7, <1>8
<1>13. run[j] \in Done
  BY <1>1, <1>4, <1>7, <1>10, <1>11, <1>12, LoopEnds
<1>14. run[j] \in S /\ ~Rises(run[j])
  BY <1>1, <1>4, <1>8, <1>13
<1> DEFINE s == run[j]
<1> HIDE DEF s
<1>15. /\ Rearranged(Elem, Ids, h, n, s.heap) /\ UpReady(s.heap.queue, n, s.pos) /\ s.pos \in 1 .. n
       /\ ~Rises(s)
  BY <1>14 DEF S, UpStates, s
<1>16. Ordered(s.heap.queue, n)
  BY <1>1, <1>15, RiseDone DEF Rises
<1> QED BY <1>9, <1>15, <1>16 DEF s

\* The states of the loop of down that began at i: until the element moves the
\* heap is h.
DownStates(Elem, Ids, h, i, n) ==
  {s \in [heap : Heaps(Elem, Ids), pos : i .. n] :
     /\ Rearranged(Elem, Ids, h, n, s.heap)
     /\ DownReady(s.heap.queue, n, i, s.pos)
     /\ s.pos = i => s.heap = h}

\* The loop goes on.
Sinks(s, n) ==
  /\ smallerChild(s, n) <= n
  /\ Precedes(s.heap.queue[smallerChild(s, n)], s.heap.queue[s.pos])

\* Every time round leads from a state of the loop to one further down.
LEMMA SinkStep ==
  ASSUME NEW Elem, NEW Ids, Ordering(Elem, Ids), NEW h, NEW n \in Nat, n <= Len(h.queue),
         Len(h.queue) \in Nat, NEW i \in 1 .. n, NEW s \in DownStates(Elem, Ids, h, i, n)
  PROVE  /\ sink(s, n) \in DownStates(Elem, Ids, h, i, n)
         /\ Sinks(s, n) => sink(s, n).pos > s.pos
         /\ ~Sinks(s, n) => sink(s, n) = s
<1>1. CASE ~Sinks(s, n)
  BY <1>1 DEF sink, Sinks
<1>2. CASE Sinks(s, n)
  <2> DEFINE j == smallerChild(s, n)
             h2 == s.heap
             pos == s.pos
  <2>1. /\ h2 \in Heaps(Elem, Ids) /\ pos \in i .. n /\ Rearranged(Elem, Ids, h, n, h2)
        /\ DownReady(h2.queue, n, i, pos)
    BY DEF DownStates
  <2>2. j <= n /\ Precedes(h2.queue[j], h2.queue[pos]) /\ sink(s, n) = [heap |-> Swap(h2, pos, j), pos |-> j]
    BY <1>2 DEF sink, Sinks
  <2>3. Indexed(h2) /\ Len(h2.queue) = Len(h.queue) /\ h2.queue \in Seq(Elem)
    BY <2>1 DEF Rearranged, Heaps
  <2>4. pos \in 1 .. n /\ n <= Len(h2.queue)
    BY <2>1, <2>3
  <2>5. /\ j \in Nat /\ j >= 2 /\ j \div 2 = pos
        /\ \A k \in 2 .. n : k \div 2 = pos => ~Precedes(h2.queue[k], h2.queue[j])
    <3>1. IsSmallerChild(h2.queue, n, pos, j)
      BY <2>3, <2>4, SmallerChild
    <3> QED BY <3>1 DEF IsSmallerChild
  <2> HIDE DEF j, h2, pos
  <2>6. j \in 2 .. n /\ j \in 1 .. n /\ n \in 0 .. Len(h2.queue)
    BY <2>2, <2>4, <2>5
  <2>7. pos \in 1 .. Len(h2.queue) /\ j \in 1 .. Len(h2.queue)
    BY <2>3, <2>4, <2>6
  <2>8. Rearranged(Elem, Ids, h2, n, Swap(h2, pos, j))
    BY <2>1, <2>3, <2>4, <2>6, SwapRearranges
  <2>9. Rearranged(Elem, Ids, h, n, Swap(h2, pos, j))
    BY <2>1, <2>8, RearrangedTwice
  <2>10. Swap(h2, pos, j) \in Heaps(Elem, Ids)
    BY <2>8 DEF Rearranged
  <2>11. IsSwap(h2.queue, pos, j, Swap(h2, pos, j).queue)
    BY <2>1, <2>7, SwapSlice
  <2>12. DownReady(Swap(h2, pos, j).queue, n, i, j) /\ j > pos
    BY <2>1, <2>2, <2>3, <2>5, <2>6, <2>11, SinkReady
  <2>13. j \in i .. n /\ j # i
    BY <2>1, <2>6, <2>12
  <2>14. sink(s, n) \in DownStates(Elem, Ids, h, i, n)
    BY <2>2, <2>9, <2>10, <2>12, <2>13 DEF DownStates
  <2> QED BY <1>2, <2>2, <2>12, <2>14 DEF pos
<1> QED BY <1>1, <1>2

\* The loop of down as Heap writes it.
downRun(h, i, n) ==
  CHOOSE run : run = [m \in Nat |-> IF m = 0 THEN [heap |-> h, pos |-> i] ELSE sink(run[m - 1], n)]

\* A run of the loop from x.
Sinking(S, x, n, run) ==
  /\ run \in [Nat -> S]
  /\ run[0] = x
  /\ \A m \in Nat : run[m + 1] = sink(run[m], n)

\* The states it goes through.
LEMMA DownRun ==
  ASSUME NEW Elem, NEW Ids, Ordering(Elem, Ids), NEW h, NEW n \in Nat, n <= Len(h.queue),
         Len(h.queue) \in Nat, NEW i \in 1 .. n, NEW x, x = [heap |-> h, pos |-> i],
         x \in DownStates(Elem, Ids, h, i, n)
  PROVE  Sinking(DownStates(Elem, Ids, h, i, n), x, n, downRun(h, i, n))
<1> DEFINE S == DownStates(Elem, Ids, h, i, n)
           f == [s \in S |-> sink(s, n)]
<1>1. x \in S
  OBVIOUS
<1>2. \A s \in S : sink(s, n) \in S
  BY SinkStep
<1>3. f \in [S -> S] /\ \A s \in S : f[s] = sink(s, n)
  BY <1>2
<1> HIDE DEF S, f
<1>4. PICK g : Iterates(S, x, f, g)
  BY <1>1, <1>3, Iteration
<1>5. g \in [Nat -> S] /\ g[0] = x /\ \A m \in Nat : g[m + 1] = sink(g[m], n)
  BY <1>3, <1>4 DEF Iterates
<1>6. \A m \in Nat : m # 0 => g[m] = sink(g[m - 1], n)
  <2> SUFFICES ASSUME NEW m \in Nat, m # 0 PROVE g[m] = sink(g[m - 1], n)
    OBVIOUS
  <2>1. m - 1 \in Nat /\ (m - 1) + 1 = m
    OBVIOUS
  <2> QED BY <1>5, <2>1
<1>7. g = [m \in Nat |-> IF m = 0 THEN x ELSE sink(g[m - 1], n)]
  BY <1>5, <1>6
<1> DEFINE run == downRun(h, i, n)
<1>8. run = [m \in Nat |-> IF m = 0 THEN x ELSE sink(run[m - 1], n)]
  BY <1>7 DEF downRun
<1> HIDE DEF run
<1>9. DOMAIN run = Nat /\ run = [m \in Nat |-> run[m]] /\ run[0] = x
  BY <1>8
<1>10. \A m \in Nat : run[m + 1] = sink(run[m], n)
  BY <1>8
<1>11. \A m \in Nat : run[m] \in S => run[m + 1] \in S
  BY <1>2, <1>10
<1>12. \A m \in Nat : run[m] \in S
  BY <1>1, <1>9, <1>11, RunStays
<1>13. run \in [Nat -> S]
  BY <1>9, <1>12
<1> QED BY <1>9, <1>10, <1>13 DEF run, S, Sinking

\* down brings a heap with one misplaced element in order, or leaves it alone
\* when that element can only go up.
LEMMA DownFacts ==
  ASSUME NEW Elem, NEW Ids, Ordering(Elem, Ids), NEW h \in Heaps(Elem, Ids), Indexed(h),
         NEW n \in 0 .. Len(h.queue), NEW i \in 1 .. n, DownReady(h.queue, n, i, i)
  PROVE  /\ Rearranged(Elem, Ids, h, n, down(h, i, n).heap)
         /\ down(h, i, n).pos > i => Ordered(down(h, i, n).heap.queue, n)
         /\ ~(down(h, i, n).pos > i) => UpReady(h.queue, n, i)
<1> DEFINE S == DownStates(Elem, Ids, h, i, n)
           x == [heap |-> h, pos |-> i]
           run == downRun(h, i, n)
           Done == {s \in S : ~Sinks(s, n)}
           measure == [s \in S |-> n - s.pos]
<1>1. Len(h.queue) \in Nat /\ n \in Nat /\ n <= Len(h.queue) /\ i \in Nat /\ i >= 1 /\ i \in i .. n
  BY DEF Heaps
<1>2. Rearranged(Elem, Ids, h, n, h)
  BY DEF Rearranged
<1>3. x \in S
  BY <1>1, <1>2 DEF DownStates
<1>4. run \in [Nat -> S] /\ run[0] = x /\ \A m \in Nat : run[m + 1] = sink(run[m], n)
  <2>1. Sinking(S, x, n, run)
    BY <1>1, <1>3, DownRun
  <2> QED BY <2>1 DEF Sinking
<1>5. \A s \in S : /\ sink(s, n) \in S /\ (Sinks(s, n) => sink(s, n).pos > s.pos)
                   /\ (~Sinks(s, n) => sink(s, n) = s)
  BY <1>1, SinkStep
<1>6. \A s \in S : s.pos \in i .. n
  BY DEF DownStates
<1>7. \A s \in S : s.pos \in Nat /\ n - s.pos \in Nat
  BY <1>1, <1>6
<1>8. measure \in [S -> Nat] /\ \A s \in S : measure[s] = n - s.pos
  BY <1>7
<1>9. \A s \in S : s \in Done <=> ~Sinks(s, n)
  OBVIOUS
<1>10. down(h, i, n) = run[n]
  BY DEF down, downRun
<1> HIDE DEF S, x, run, Done, measure
<1>11. measure[run[0]] <= n
  BY <1>1, <1>3, <1>4, <1>8 DEF x
<1>12. \A m \in Nat : run[m] \in Done => run[m + 1] \in Done
  BY <1>4, <1>5, <1>9
<1>13. ASSUME NEW m \in Nat, run[m] \notin Done PROVE measure[run[m + 1]] < measure[run[m]]
  <2>1. m + 1 \in Nat /\ run[m] \in S /\ run[m + 1] \in S
    <3>1. run \in [Nat -> S]
      BY <1>4
    <3> QED BY <3>1
  <2>2. run[m + 1].pos > run[m].pos
    BY <1>4, <1>5, <1>9, <1>13, <2>1
  <2> QED BY <1>1, <1>7, <1>8, <2>1, <2>2
<1>14. run[n] \in Done
  BY <1>1, <1>4, <1>8, <1>11, <1>12, <1>13, LoopEnds
<1>15. run[n] \in S /\ ~Sinks(run[n], n)
  BY <1>1, <1>4, <1>9, <1>14
<1> DEFINE s == run[n]
           q == s.heap.queue
<1> HIDE DEF s
<1>16. /\ Rearranged(Elem, Ids, h, n, s.heap) /\ DownReady(q, n, i, s.pos) /\ s.pos \in i .. n
       /\ (s.pos = i => s.heap = h) /\ ~Sinks(s, n)
  BY <1>15 DEF S, DownStates, s
<1>17. q \in Seq(Elem) /\ Len(q) = Len(h.queue)
  BY <1>16 DEF Rearranged, Heaps
<1>18. s.pos \in 1 .. n /\ n \in 0 .. Len(q)
  BY <1>1, <1>16, <1>17
<1>19. \A k \in 2 .. n : k \div 2 = s.pos => ~Precedes(q[k], q[s.pos])
  <2> SUFFICES ASSUME NEW k \in 2 .. n, k \div 2 = s.pos PROVE ~Precedes(q[k], q[s.pos])
    OBVIOUS
  <2> DEFINE j == smallerChild(s, n)
  <2>1. /\ j \in Nat /\ j >= 2
        /\ j > n => \A l \in 2 .. n : l \div 2 # s.pos
        /\ \A l \in 2 .. n : l \div 2 = s.pos => ~Precedes(q[l], q[j])
    <3>1. IsSmallerChild(q, n, s.pos, j)
      BY <1>1, <1>17, <1>18, SmallerChild
    <3> QED BY <3>1 DEF IsSmallerChild
  <2>2. ~(j > n) /\ ~Precedes(q[k], q[j])
    BY <2>1
  <2> HIDE DEF j
  <2>3. j <= n /\ j \in 1 .. Len(q) /\ k \in 1 .. Len(q) /\ s.pos \in 1 .. Len(q)
    BY <1>1, <1>17, <1>18, <2>1, <2>2
  <2>4. ~Precedes(q[j], q[s.pos])
    BY <1>16, <2>3 DEF Sinks, j
  <2>5. q[j] \in Elem /\ q[k] \in Elem /\ q[s.pos] \in Elem
    BY <1>17, <2>3
  <2> HIDE DEF q
  <2> QED BY <2>2, <2>4, <2>5, NotBefore
<1>20. (s.pos > i => Ordered(q, n)) /\ (s.pos = i => UpReady(q, n, i))
  <2> HIDE DEF q
  <2> QED BY <1>16, <1>17, <1>18, <1>19, SinkDone
<1>21. ~(s.pos > i) => s.pos = i
  BY <1>1, <1>16
<1> QED BY <1>10, <1>16, <1>20, <1>21 DEF s

----------------------------------------------------------------------------
(* The operations.                                                         *)

\* settle brings a heap with one misplaced element in order.
LEMMA SettleFacts ==
  ASSUME NEW Elem, NEW Ids, Ordering(Elem, Ids), NEW h \in Heaps(Elem, Ids), Indexed(h),
         NEW n \in 0 .. Len(h.queue), NEW i \in 1 .. n, DownReady(h.queue, n, i, i)
  PROVE  Rearranged(Elem, Ids, h, n, settle(h, i, n)) /\ Ordered(settle(h, i, n).queue, n)
<1> DEFINE s == down(h, i, n)
<1>1. /\ Rearranged(Elem, Ids, h, n, s.heap)
      /\ s.pos > i => Ordered(s.heap.queue, n)
      /\ ~(s.pos > i) => UpReady(h.queue, n, i)
  BY DownFacts
<1>2. settle(h, i, n) = IF s.pos > i THEN s.heap ELSE up(h, i)
  BY DEF settle
<1> HIDE DEF s
<1>3. CASE s.pos > i
  BY <1>1, <1>2, <1>3
<1>4. CASE ~(s.pos > i)
  <2>1. Rearranged(Elem, Ids, h, n, up(h, i)) /\ Ordered(up(h, i).queue, n)
    BY <1>1, <1>4, UpFacts
  <2> QED BY <1>2, <1>4, <2>1
<1> QED BY <1>3, <1>4

\* A heap of these elements in which one element has been replaced.
LEMMA ReplacedReady ==
  ASSUME NEW Elem, NEW Ids, Ordering(Elem, Ids), NEW q \in Seq(Elem), NEW n \in 0 .. Len(q),
         Ordered(q, n), NEW i \in 1 .. n, NEW r, \A k \in 1 .. n : k # i => r[k] = q[k]
  PROVE  DownReady(r, n, i, i)
<1>1. n \in Nat /\ Len(q) \in Nat /\ n <= Len(q) /\ i \in Nat /\ i >= 1 /\ i <= n
  OBVIOUS
<1>2. \A k \in 1 .. n : q[k] \in Elem
  BY <1>1
<1>3. \A k \in 2 .. n : k \in 1 .. n /\ k \div 2 \in 1 .. n /\ k \div 2 < k
  <2> SUFFICES ASSUME NEW k \in 2 .. n PROVE k \in 1 .. n /\ k \div 2 \in 1 .. n /\ k \div 2 < k
    OBVIOUS
  <2>1. k \in Nat /\ k >= 2 /\ k <= n
    BY <1>1
  <2> QED BY <1>1, <2>1, Half
<1>4. \A k \in 2 .. n : ~Precedes(q[k], q[k \div 2])
  BY DEF Ordered, InOrder
<1>5. ASSUME NEW k \in 2 .. n, k \div 2 # i, k # i PROVE ~Precedes(r[k], r[k \div 2])
  BY <1>3, <1>4, <1>5
<1>6. ASSUME i > 1, NEW k \in 2 .. n, k \div 2 = i PROVE ~Precedes(r[k], r[i \div 2])
  <2>1. i \in 2 .. n
    BY <1>1, <1>6
  <2>2. k \in 1 .. n /\ i < k /\ i \div 2 \in 1 .. n /\ i \div 2 < i
    BY <1>3, <1>6, <2>1
  <2>3. r[k] = q[k] /\ r[i \div 2] = q[i \div 2]
    BY <1>1, <2>2
  <2>4. ~Precedes(q[k], q[i]) /\ ~Precedes(q[i], q[i \div 2])
    BY <1>4, <1>6, <2>1
  <2>5. ~Precedes(q[k], q[i \div 2])
    BY <1>2, <2>2, <2>4, NotBefore
  <2> QED BY <2>3, <2>5
<1> QED BY <1>5, <1>6 DEF DownReady, InOrder

\* A queue as the code keeps it: in order, every element knowing its place.
IsHeap(Elem, Ids, h) ==
  /\ h \in Heaps(Elem, Ids)
  /\ Indexed(h)
  /\ Ordered(h.queue, Len(h.queue))

\* No element of the queue has the index field of e.
IsNew(h, e) == \A k \in 1 .. Len(h.queue) : Id(h.queue[k]) # Id(e)

\* What heap.Push does: a new element is added.
LEMMA PushFacts ==
  ASSUME NEW Elem, NEW Ids, Ordering(Elem, Ids), NEW h, IsHeap(Elem, Ids, h), NEW e \in Elem,
         IsNew(h, e)
  PROVE  /\ IsHeap(Elem, Ids, Push(h, e))
         /\ Content(Push(h, e).queue) = Content(h.queue) \cup {e}
         /\ Len(Push(h, e).queue) = Len(h.queue) + 1
<1> DEFINE h2 == PushLast(h, e)
           q == h.queue
           r == Append(q, e)
           w == [h.index EXCEPT ![Id(e)] = Len(q) + 1]
           n == Len(q) + 1
<1>1. /\ q \in Seq(Elem) /\ h.index \in [Ids -> Nat] /\ Len(q) \in Nat
      /\ \A k \in 1 .. Len(q) : h.index[Id(q[k])] = k
      /\ Ordered(q, Len(q)) /\ h2 = [queue |-> r, index |-> w]
  BY DEF IsHeap, Heaps, Indexed, PushLast
<1>2. Id(e) \in Ids /\ \A k \in 1 .. Len(q) : q[k] \in Elem /\ Id(q[k]) \in Ids
  BY <1>1 DEF Ordering
<1> HIDE DEF q, h2
<1>3. /\ r \in Seq(Elem) /\ Len(r) = n /\ r[n] = e /\ n \in Nat /\ n \in 1 .. n /\ n \in 0 .. Len(r)
      /\ \A k \in 1 .. Len(q) : r[k] = q[k]
  BY <1>1
<1>4. w \in [Ids -> Nat] /\ w[Id(e)] = n /\ \A id \in Ids : id # Id(e) => w[id] = h.index[id]
  BY <1>1, <1>2
<1> HIDE DEF r, w, n
<1>5. h2 \in Heaps(Elem, Ids)
  BY <1>1, <1>3, <1>4 DEF Heaps
<1>6. ASSUME NEW k \in 1 .. n PROVE w[Id(r[k])] = k
  <2>1. CASE k = n
    BY <1>3, <1>4, <2>1
  <2>2. CASE k # n
    <3>1. k \in 1 .. Len(q)
      BY <1>1, <2>2 DEF n
    <3>2. Id(q[k]) # Id(e)
      BY <3>1 DEF q, IsNew
    <3> QED BY <1>1, <1>2, <1>3, <1>4, <3>1, <3>2
  <2> QED BY <2>1, <2>2
<1>7. Indexed(h2)
  BY <1>1, <1>3, <1>6 DEF Indexed
<1>8. UpReady(r, n, n)
  <2>1. ASSUME NEW k \in 2 .. n, k # n PROVE InOrder(r, k)
    <3>1. k \in 2 .. Len(q) /\ k \in Nat /\ k >= 2
      BY <1>1, <2>1 DEF n
    <3>2. k \in 1 .. Len(q) /\ k \div 2 \in 1 .. Len(q)
      BY <1>1, <3>1, Half
    <3>3. ~Precedes(q[k], q[k \div 2])
      BY <1>1, <3>1 DEF Ordered, InOrder
    <3> QED BY <1>3, <3>2, <3>3 DEF InOrder
  <2>2. ASSUME NEW k \in 2 .. n PROVE k \div 2 # n
    <3>1. k \in Nat /\ k >= 2 /\ k <= n
      BY <1>3
    <3> QED BY <1>3, <3>1, Half
  <2> QED BY <2>1, <2>2 DEF UpReady
<1>9. h2.queue = r
  BY <1>1
<1>10. Rearranged(Elem, Ids, h2, n, up(h2, n)) /\ Ordered(up(h2, n).queue, n)
  BY <1>3, <1>5, <1>7, <1>8, <1>9, UpFacts
<1>11. Push(h, e) = up(h2, n)
  BY DEF Push, h2, n, q
<1>12. Content(r) = Content(q) \cup {e}
  <2>1. 1 .. Len(r) = (1 .. Len(q)) \cup {n}
    BY <1>1, <1>3 DEF n
  <2> QED BY <1>3, <2>1 DEF Content
<1> QED BY <1>3, <1>9, <1>10, <1>11, <1>12 DEF Rearranged, IsHeap, n, q

\* What heap.Fix does: an element that was replaced by another one with the
\* same index field gets its place.
LEMMA FixFacts ==
  ASSUME NEW Elem, NEW Ids, Ordering(Elem, Ids), NEW h, IsHeap(Elem, Ids, h),
         NEW h2 \in Heaps(Elem, Ids), Indexed(h2), Len(h2.queue) = Len(h.queue),
         NEW i \in 1 .. Len(h.queue), \A k \in 1 .. Len(h.queue) : k # i => h2.queue[k] = h.queue[k]
  PROVE  /\ IsHeap(Elem, Ids, Fix(h2, i))
         /\ Content(Fix(h2, i).queue) = Content(h2.queue)
         /\ Len(Fix(h2, i).queue) = Len(h2.queue)
<1> DEFINE n == Len(h.queue)
<1>1. n \in Nat /\ h.queue \in Seq(Elem) /\ Ordered(h.queue, n) /\ n \in 0 .. n
  BY DEF IsHeap, Heaps
<1>2. DownReady(h2.queue, n, i, i)
  BY <1>1, ReplacedReady
<1>3. Fix(h2, i) = settle(h2, i, n)
  BY DEF Fix
<1>4. Rearranged(Elem, Ids, h2, n, settle(h2, i, n)) /\ Ordered(settle(h2, i, n).queue, n)
  BY <1>1, <1>2, SettleFacts
<1> QED BY <1>3, <1>4 DEF Rearranged, IsHeap

\* The last element leaves the queue.
LEMMA PopFacts ==
  ASSUME NEW Elem, NEW Ids, Ordering(Elem, Ids), NEW h \in Heaps(Elem, Ids), Indexed(h),
         NEW n \in Nat, n = Len(h.queue), n > 0, Ordered(h.queue, n - 1)
  PROVE  /\ IsHeap(Elem, Ids, PopLast(h))
         /\ Content(PopLast(h).queue) = Content(h.queue) \ {h.queue[n]}
         /\ Len(PopLast(h).queue) = n - 1
<1> DEFINE q == h.queue
           r == SubSeq(q, 1, n - 1)
           w == [h.index EXCEPT ![Id(q[n])] = 0]
           h2 == PopLast(h)
<1>1. /\ q \in Seq(Elem) /\ h.index \in [Ids -> Nat] /\ Len(q) = n /\ n \in 1 .. n
      /\ \A k \in 1 .. n : h.index[Id(q[k])] = k
      /\ Ordered(q, n - 1) /\ h2 = [queue |-> r, index |-> w]
  BY DEF Heaps, Indexed, PopLast
<1> HIDE DEF q, h2
<1>2. \A k \in 1 .. n : q[k] \in Elem /\ Id(q[k]) \in Ids
  BY <1>1 DEF Ordering
<1>3. r \in Seq(Elem) /\ Len(r) = n - 1 /\ \A k \in 1 .. n - 1 : r[k] = q[k] /\ k \in 1 .. n /\ k # n
  BY <1>1
<1>4. w \in [Ids -> Nat] /\ \A id \in Ids : id # Id(q[n]) => w[id] = h.index[id]
  BY <1>1, <1>2
<1> HIDE DEF r, w
<1>5. h2 \in Heaps(Elem, Ids)
  BY <1>1, <1>3, <1>4 DEF Heaps
<1>6. ASSUME NEW k \in 1 .. n - 1 PROVE w[Id(r[k])] = k
  <2>1. k \in 1 .. n /\ k # n /\ r[k] = q[k]
    BY <1>3
  <2>2. Id(q[k]) # Id(q[n])
    BY <1>1, <2>1
  <2> QED BY <1>1, <1>2, <1>4, <2>1, <2>2
<1>7. Indexed(h2)
  BY <1>1, <1>3, <1>6 DEF Indexed
<1>8. Ordered(r, n - 1)
  <2> SUFFICES ASSUME NEW k \in 2 .. n - 1 PROVE ~Precedes(r[k], r[k \div 2])
    BY DEF Ordered, InOrder
  <2>1. k \in Nat /\ k >= 2 /\ k <= n - 1
    OBVIOUS
  <2>2. k \in 1 .. n - 1 /\ k \div 2 \in 1 .. n - 1
    BY <2>1, Half
  <2>3. ~Precedes(q[k], q[k \div 2])
    BY <1>1 DEF Ordered, InOrder
  <2> QED BY <1>3, <2>2, <2>3
<1>9. Content(r) = Content(q) \ {q[n]}
  <2>1. 1 .. n = (1 .. n - 1) \cup {n}
    OBVIOUS
  <2>2. \A k \in 1 .. n - 1 : q[k] # q[n]
    BY <1>1, <1>3
  <2>3. Content(r) = {q[k] : k \in 1 .. n - 1}
    BY <1>3 DEF Content
  <2>4. Content(q) = {q[k] : k \in 1 .. n}
    BY <1>1 DEF Content
  <2>5. \A e \in Content(q) : e # q[n] => e \in Content(r)
    BY <2>1, <2>3, <2>4
  <2>6. Content(r) \subseteq Content(q) /\ q[n] \notin Content(r)
    BY <2>1, <2>2, <2>3, <2>4
  <2> QED BY <2>5, <2>6
<1>10. h2.queue = r
  BY <1>1
<1> QED BY <1>3, <1>5, <1>7, <1>8, <1>9, <1>10 DEF IsHeap, h2, q

\* What heap.Remove does: the element at i, and no other, leaves the queue.
LEMMA RemoveFacts ==
  ASSUME NEW Elem, NEW Ids, Ordering(Elem, Ids), NEW h, IsHeap(Elem, Ids, h),
         NEW i \in 1 .. Len(h.queue)
  PROVE  /\ IsHeap(Elem, Ids, RemoveAt(h, i))
         /\ Content(RemoveAt(h, i).queue) = Content(h.queue) \ {h.queue[i]}
         /\ Len(RemoveAt(h, i).queue) = Len(h.queue) - 1
<1> DEFINE n == Len(h.queue)
           h2 == Swap(h, i, n)
           h3 == settle(h2, i, n - 1)
<1>1. /\ h \in Heaps(Elem, Ids) /\ Indexed(h) /\ h.queue \in Seq(Elem) /\ n \in Nat /\ Ordered(h.queue, n)
      /\ i \in Nat /\ i >= 1 /\ i <= n /\ n > 0 /\ n \in 1 .. n /\ n \in 0 .. n
  BY DEF IsHeap, Heaps
<1>2. Ordered(h.queue, n - 1)
  BY <1>1 DEF Ordered
<1>3. RemoveAt(h, i) = PopLast(IF i = n THEN h ELSE h3)
  BY DEF RemoveAt
<1>4. CASE i = n
  <2>1. /\ IsHeap(Elem, Ids, PopLast(h))
        /\ Content(PopLast(h).queue) = Content(h.queue) \ {h.queue[n]}
        /\ Len(PopLast(h).queue) = n - 1
    BY <1>1, <1>2, PopFacts
  <2> QED BY <1>3, <1>4, <2>1
<1>5. CASE i # n
  <2>1. n - 1 \in 0 .. n /\ i \in 1 .. n - 1 /\ n - 1 \in Nat
    BY <1>1, <1>5
  <2>2. Rearranged(Elem, Ids, h, n, h2)
    BY <1>1, SwapRearranges
  <2>3. IsSwap(h.queue, i, n, h2.queue)
    BY <1>1, SwapSlice
  <2>4. h2 \in Heaps(Elem, Ids) /\ Indexed(h2) /\ Len(h2.queue) = n /\ Content(h2.queue) = Content(h.queue)
    BY <2>2 DEF Rearranged
  <2> HIDE DEF h2
  <2>5. h2.queue[n] = h.queue[i] /\ \A k \in 1 .. n - 1 : k # i => h2.queue[k] = h.queue[k]
    BY <1>1, <2>3 DEF IsSwap
  <2>6. DownReady(h2.queue, n - 1, i, i)
    BY <1>1, <1>2, <2>1, <2>5, ReplacedReady
  <2>7. Rearranged(Elem, Ids, h2, n - 1, h3) /\ Ordered(h3.queue, n - 1)
    BY <2>1, <2>4, <2>6, SettleFacts
  <2> HIDE DEF h3
  <2>8. /\ h3 \in Heaps(Elem, Ids) /\ Indexed(h3) /\ Len(h3.queue) = n
        /\ Content(h3.queue) = Content(h.queue)
    BY <2>4, <2>7 DEF Rearranged
  <2>9. h3.queue[n] = h.queue[i]
    <3>1. n \in (n - 1) + 1 .. Len(h2.queue)
      BY <1>1, <2>4
    <3> QED BY <2>5, <2>7, <3>1 DEF Rearranged
  <2> HIDE DEF n
  <2>10. /\ IsHeap(Elem, Ids, PopLast(h3))
         /\ Content(PopLast(h3).queue) = Content(h3.queue) \ {h3.queue[n]}
         /\ Len(PopLast(h3).queue) = n - 1
    BY <1>1, <2>7, <2>8, PopFacts
  <2> QED BY <1>3, <1>5, <2>8, <2>9, <2>10 DEF n
<1> QED BY <1>4, <1>5
==============================================================================
