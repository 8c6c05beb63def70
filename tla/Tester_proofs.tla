----------------------------- MODULE Tester_proofs -----------------------------
(***************************************************************************)
(* Proofs about Tester for any number of servers, calls and commands.      *)
(***************************************************************************)
EXTENDS TesterInv, FiniteSetTheorems, SequenceTheorems, TLAPS

----------------------------------------------------------------------------
(* Sequences of operations.                                                *)

\* SetToSeq lists the elements of a finite set.
LEMMA SetToSeqFacts ==
  ASSUME NEW S, IsFiniteSet(S)
  PROVE  /\ SetToSeq(S) \in Seq(S) /\ ToSet(SetToSeq(S)) = S
         /\ \A m, n \in DOMAIN SetToSeq(S) : SetToSeq(S)[m] = SetToSeq(S)[n] => m = n
<1> DEFINE n == Cardinality(S)
<1>1. n \in Nat /\ ExistsBijection(1 .. n, S)
  BY FS_CardinalityType
<1>2. PICK b \in [1 .. n -> S] : IsInjective(b)
  BY <1>1, Zenon DEF ExistsBijection, Bijection, Injection
<1>3. SetToSeq(S) \in [1 .. n -> S] /\ IsInjective(SetToSeq(S))
  BY <1>2, Zenon DEF SetToSeq
<1> DEFINE f == SetToSeq(S)
<1>4. f \in Injection(1 .. n, S)
  BY <1>3, Zenon DEF Injection
<1>5. Cardinality(1 .. n) = n
  <2>1. Cardinality(1 .. n) = IF 1 > n THEN 0 ELSE n - 1 + 1
    BY <1>1, FS_Interval
  <2> QED BY <1>1, <2>1
<1>6. f \in Surjection(1 .. n, S)
  BY <1>4, <1>5, FS_Injection
<1>7. \A x \in S : \E k \in 1 .. n : f[k] = x
  BY <1>6 DEF Surjection
<1> HIDE DEF f
<1>8. ToSet(f) = S
  BY <1>3, <1>7 DEF ToSet, f
<1>9. f \in Seq(S)
  BY <1>1, <1>3 DEF f
<1>10. \A j, k \in DOMAIN f : f[j] = f[k] => j = k
  BY <1>3, Zenon DEF IsInjective, f
<1> QED BY <1>8, <1>9, <1>10 DEF f

\* The elements of a concatenation.
LEMMA ToSetConcat ==
  ASSUME NEW S, NEW s \in Seq(S), NEW t \in Seq(S)
  PROVE  s \o t \in Seq(S) /\ ToSet(s \o t) = ToSet(s) \cup ToSet(t)
<1>1. /\ s \o t \in Seq(S) /\ Len(s \o t) = Len(s) + Len(t)
      /\ \A k \in 1 .. Len(s) : (s \o t)[k] = s[k]
      /\ \A k \in 1 .. Len(t) : (s \o t)[Len(s) + k] = t[k]
  OBVIOUS
<1>2. /\ DOMAIN s = 1 .. Len(s) /\ DOMAIN t = 1 .. Len(t) /\ Len(s) \in Nat /\ Len(t) \in Nat
      /\ DOMAIN (s \o t) = 1 .. Len(s) + Len(t)
  BY <1>1
<1> DEFINE u == s \o t
<1> HIDE DEF u
<1>3. \A k \in 1 .. Len(s) : k \in DOMAIN u /\ u[k] = s[k]
  BY <1>1, <1>2 DEF u
<1>4. \A k \in 1 .. Len(t) : Len(s) + k \in DOMAIN u /\ u[Len(s) + k] = t[k]
  BY <1>1, <1>2 DEF u
<1>5. \A k \in DOMAIN u : k \in 1 .. Len(s) \/ (k - Len(s) \in 1 .. Len(t) /\ k = Len(s) + (k - Len(s)))
  BY <1>2 DEF u
<1>6. ToSet(u) \subseteq ToSet(s) \cup ToSet(t)
  <2> SUFFICES ASSUME NEW k \in DOMAIN u PROVE u[k] \in ToSet(s) \cup ToSet(t)
    BY DEF ToSet
  <2>1. CASE k \in 1 .. Len(s)
    BY <1>2, <1>3, <2>1 DEF ToSet
  <2>2. CASE k - Len(s) \in 1 .. Len(t) /\ k = Len(s) + (k - Len(s))
    <3>1. u[k] = t[k - Len(s)]
      BY <1>4, <2>2
    <3> QED BY <1>2, <2>2, <3>1 DEF ToSet
  <2> QED BY <1>5, <2>1, <2>2
<1>7. ToSet(s) \subseteq ToSet(u) /\ ToSet(t) \subseteq ToSet(u)
  BY <1>2, <1>3, <1>4 DEF ToSet
<1> QED BY <1>1, <1>6, <1>7 DEF u

\* Two ordered sequences in order are one.
LEMMA OrderedConcat ==
  ASSUME NEW S, NEW s \in Seq(S), NEW t \in Seq(S), IsOrdered(s), IsOrdered(t),
         \A o \in ToSet(s), p \in ToSet(t) : MayPrecede(o, p)
  PROVE  IsOrdered(s \o t)
<1>1. /\ \A k \in 1 .. Len(s) : (s \o t)[k] = s[k]
      /\ \A k \in 1 .. Len(t) : (s \o t)[Len(s) + k] = t[k]
  OBVIOUS
<1>2. /\ DOMAIN s = 1 .. Len(s) /\ DOMAIN t = 1 .. Len(t) /\ Len(s) \in Nat /\ Len(t) \in Nat
      /\ DOMAIN (s \o t) = 1 .. Len(s) + Len(t)
  OBVIOUS
<1> DEFINE u == s \o t
<1>3. SUFFICES ASSUME NEW m \in DOMAIN u, NEW n \in DOMAIN u, m < n PROVE MayPrecede(u[m], u[n])
  BY Zenon DEF IsOrdered
<1>4. m \in 1 .. Len(s) + Len(t) /\ n \in 1 .. Len(s) + Len(t)
  BY <1>2
<1>5. /\ \A k \in 1 .. Len(s) : u[k] = s[k]
      /\ \A k \in 1 .. Len(t) : u[Len(s) + k] = t[k]
  BY <1>1
<1> HIDE DEF u
<1>6. CASE n \in 1 .. Len(s)
  <2>1. m \in 1 .. Len(s)
    BY <1>2, <1>3, <1>4, <1>6
  <2> QED BY <1>2, <1>3, <1>5, <1>6, <2>1 DEF IsOrdered
<1>7. CASE n \notin 1 .. Len(s)
  <2>1. n - Len(s) \in 1 .. Len(t) /\ n = Len(s) + (n - Len(s))
    BY <1>2, <1>4, <1>7
  <2>2. u[n] = t[n - Len(s)]
    BY <1>5, <2>1
  <2>3. CASE m \in 1 .. Len(s)
    <3>1. s[m] \in ToSet(s) /\ t[n - Len(s)] \in ToSet(t)
      BY <1>2, <2>1, <2>3 DEF ToSet
    <3> QED BY <1>5, <2>2, <2>3, <3>1
  <2>4. CASE m \notin 1 .. Len(s)
    <3>1. m - Len(s) \in 1 .. Len(t) /\ m = Len(s) + (m - Len(s)) /\ m - Len(s) < n - Len(s)
      BY <1>2, <1>3, <1>4, <2>1, <2>4
    <3>2. u[m] = t[m - Len(s)]
      BY <1>5, <3>1
    <3> QED BY <1>2, <2>1, <2>2, <3>1, <3>2 DEF IsOrdered
  <2> QED BY <2>3, <2>4
<1> QED BY <1>6, <1>7

\* What is left after the first operation.
LEMMA TailFacts ==
  ASSUME NEW S, NEW s \in Seq(S), s # <<>>, IsOrdered(s)
  PROVE  /\ Tail(s) \in Seq(S) /\ Head(s) \in S /\ Head(s) \in ToSet(s)
         /\ \A p : p \in ToSet(s) <=> p = Head(s) \/ p \in ToSet(Tail(s))
         /\ IsOrdered(Tail(s))
         /\ \A p \in ToSet(Tail(s)) : p \in S /\ MayPrecede(Head(s), p)
<1>1. /\ Len(s) \in Nat /\ Len(s) > 0 /\ DOMAIN s = 1 .. Len(s) /\ Head(s) = s[1]
      /\ Tail(s) \in Seq(S) /\ Len(Tail(s)) = Len(s) - 1
      /\ \A k \in 1 .. Len(s) - 1 : Tail(s)[k] = s[k + 1]
  OBVIOUS
<1>2. DOMAIN Tail(s) = 1 .. Len(s) - 1
  BY <1>1
<1> DEFINE t == Tail(s)
           h == Head(s)
<1>3. /\ t \in Seq(S) /\ DOMAIN t = 1 .. Len(s) - 1 /\ h = s[1]
      /\ \A k \in DOMAIN t : k + 1 \in DOMAIN s /\ t[k] = s[k + 1]
  BY <1>1, <1>2
<1> HIDE DEF t, h
<1>4. h \in S /\ h \in ToSet(s)
  BY <1>1, <1>3 DEF ToSet
<1>5. ASSUME NEW p PROVE p \in ToSet(s) <=> p = h \/ p \in ToSet(t)
  <2>1. ASSUME NEW k \in DOMAIN s, p = s[k] PROVE p = h \/ p \in ToSet(t)
    <3>1. CASE k = 1
      BY <1>3, <2>1, <3>1
    <3>2. CASE k # 1
      <4>1. k - 1 \in DOMAIN t /\ (k - 1) + 1 = k
        BY <1>1, <1>3, <3>2
      <4>2. t[k - 1] = p
        BY <1>3, <2>1, <4>1
      <4> QED BY <4>1, <4>2 DEF ToSet
    <3> QED BY <3>1, <3>2
  <2>2. ASSUME p \in ToSet(t) PROVE p \in ToSet(s)
    BY <1>3, <2>2 DEF ToSet
  <2> QED BY <1>4, <2>1, <2>2 DEF ToSet
<1>6. IsOrdered(t)
  <2> SUFFICES ASSUME NEW m \in DOMAIN t, NEW n \in DOMAIN t, m < n PROVE MayPrecede(t[m], t[n])
    BY DEF IsOrdered
  <2>1. m + 1 \in DOMAIN s /\ n + 1 \in DOMAIN s /\ m + 1 < n + 1
    BY <1>3
  <2> QED BY <1>3, <2>1 DEF IsOrdered
<1>7. ASSUME NEW p \in ToSet(t) PROVE p \in S /\ MayPrecede(h, p)
  <2>1. PICK k \in DOMAIN t : p = t[k]
    BY <1>7 DEF ToSet
  <2>2. k + 1 \in DOMAIN s /\ 1 \in DOMAIN s /\ 1 < k + 1 /\ p = s[k + 1]
    BY <1>1, <1>3, <2>1
  <2> QED BY <1>1, <1>3, <2>2 DEF IsOrdered
<1> QED BY <1>3, <1>4, <1>5, <1>6, <1>7 DEF t, h

OpNames == {"DeleteServer", "Copy", "Make", "AddServer"}

\* The places of the operations in a command.
LEMMA Ranks ==
  /\ \A e : Rank(Toggle(e, FALSE)) = 0 /\ Rank(Toggle(e, TRUE)) = 5
  /\ \A i : /\ Rank(ServerOp("DeleteServer", i)) = 1 /\ Rank(ServerOp("Copy", i)) = 2
            /\ Rank(ServerOp("Make", i)) = 3 /\ Rank(ServerOp("AddServer", i)) = 4
<1>1. \A e : Rank(Toggle(e, FALSE)) = 0 /\ Rank(Toggle(e, TRUE)) = 5
  BY DEF Rank, Toggle
<1>2. \A i : Rank(ServerOp("DeleteServer", i)) = 1 /\ Rank(ServerOp("Copy", i)) = 2
  BY DEF Rank, ServerOp
<1>3. \A i : Rank(ServerOp("Make", i)) = 3 /\ Rank(ServerOp("AddServer", i)) = 4
  BY DEF Rank, ServerOp
<1> QED BY <1>1, <1>2, <1>3

\* The operations of one server come in their order; after them, ends are
\* only enabled.
LEMMA AfterServerOp ==
  ASSUME NEW i \in Server, NEW x \in OpNames
  PROVE  /\ \A y \in OpNames : MayPrecede(ServerOp(x, i), ServerOp(y, i)) =>
              Rank(ServerOp(x, i)) < Rank(ServerOp(y, i))
         /\ \A e : ~MayPrecede(ServerOp(x, i), Toggle(e, FALSE))
<1>1. ServerOp(x, i) \notin EnableOps
  BY DEF ServerOp, EnableOps, OpNames
<1>2. \A e, on : Toggle(e, on) \notin ServerOps
  BY DEF Toggle, ServerOps
<1>3. \A y : ServerOp(y, i).server = i
  BY DEF ServerOp
<1>4. Rank(ServerOp(x, i)) \in 1 .. 4
  BY Ranks DEF OpNames
<1>5. ASSUME NEW e PROVE ~(Rank(ServerOp(x, i)) < Rank(Toggle(e, FALSE)))
  <2> DEFINE r == Rank(ServerOp(x, i))
             z == Rank(Toggle(e, FALSE))
  <2>1. r \in 1 .. 4 /\ z = 0
    BY <1>4, Ranks, Zenon
  <2> HIDE DEF r, z
  <2>2. ~(r < z)
    BY <2>1
  <2> QED BY <2>2 DEF r, z
<1> QED BY <1>1, <1>2, <1>3, <1>5 DEF MayPrecede

\* After an end was enabled, ends are only enabled.
LEMMA AfterEnable ==
  ASSUME NEW e, NEW p \in EnableOps \cup ServerOps, MayPrecede(Toggle(e, TRUE), p)
  PROVE  p \in EnableOps /\ p.on = TRUE
<1>1. Toggle(e, TRUE) \notin ServerOps
  BY DEF Toggle, ServerOps
<1>2. CASE p \in ServerOps
  <2>1. p \notin EnableOps
    BY <1>2 DEF EnableOps, ServerOps
  <2>2. \E x \in OpNames : \E i \in Server : p = ServerOp(x, i)
    BY <1>2 DEF ServerOps, ServerOp, OpNames
  <2>3. Rank(p) \in 1 .. 4
    BY <2>2, Ranks DEF OpNames
  <2>4. ~(Rank(Toggle(e, TRUE)) < Rank(p))
    <3> DEFINE r == Rank(p)
               z == Rank(Toggle(e, TRUE))
    <3>1. r \in 1 .. 4 /\ z = 5
      BY <2>3, Ranks, Zenon
    <3> HIDE DEF r, z
    <3>2. ~(z < r)
      BY <3>1
    <3> QED BY <3>2 DEF r, z
  <2> QED BY <1>1, <2>1, <2>4, Zenon DEF MayPrecede
<1>3. CASE p \in EnableOps
  <2>1. PICK f \in End : p = Toggle(f, p.on)
    BY <1>3 DEF EnableOps, Toggle
  <2>2. CASE p.on = FALSE
    <3>1. Rank(p) = 0
      BY <2>1, <2>2, Ranks
    <3> DEFINE z == Rank(Toggle(e, TRUE))
    <3>2. z = 5
      BY Ranks, Zenon
    <3> HIDE DEF z
    <3>3. ~(z < Rank(p)) /\ z # Rank(p)
      BY <3>1, <3>2
    <3> QED BY <1>1, <3>3, Zenon DEF MayPrecede, z
  <2>3. p.on \in BOOLEAN
    BY <1>3 DEF EnableOps
  <2> QED BY <1>3, <2>2, <2>3
<1> QED BY <1>2, <1>3

\* Operations of the two kinds differ.
LEMMA Different ==
  /\ \A e, on, x, i : Toggle(e, on) # ServerOp(x, i)
  /\ \A e, f, on, off : Toggle(e, on) = Toggle(f, off) => e = f /\ on = off
  /\ \A x, y, i, j : ServerOp(x, i) = ServerOp(y, j) => x = y /\ i = j
  /\ \A e, x, i : Toggle(e, TRUE) # ServerOp(x, i) /\ Toggle(e, FALSE) # ServerOp(x, i)
<1>1. \A e, on, x, i : Toggle(e, on) # ServerOp(x, i)
  <2> SUFFICES ASSUME NEW e, NEW on, NEW x, NEW i, Toggle(e, on) = ServerOp(x, i) PROVE FALSE
    OBVIOUS
  <2>1. DOMAIN Toggle(e, on) = {"op", "end", "on"} /\ DOMAIN ServerOp(x, i) = {"op", "server"}
    BY DEF Toggle, ServerOp
  <2> QED BY <2>1
<1>2. \A e, f, on, off : Toggle(e, on) = Toggle(f, off) => e = f /\ on = off
  <2> SUFFICES ASSUME NEW e, NEW f, NEW on, NEW off, Toggle(e, on) = Toggle(f, off)
               PROVE  e = f /\ on = off
    OBVIOUS
  <2>1. /\ Toggle(e, on).end = e /\ Toggle(f, off).end = f
        /\ Toggle(e, on).on = on /\ Toggle(f, off).on = off
    BY DEF Toggle
  <2> QED BY <2>1
<1>3. \A x, y, i, j : ServerOp(x, i) = ServerOp(y, j) => x = y /\ i = j
  <2> SUFFICES ASSUME NEW x, NEW y, NEW i, NEW j, ServerOp(x, i) = ServerOp(y, j)
               PROVE  x = y /\ i = j
    OBVIOUS
  <2>1. /\ ServerOp(x, i).op = x /\ ServerOp(y, j).op = y
        /\ ServerOp(x, i).server = i /\ ServerOp(y, j).server = j
    BY DEF ServerOp
  <2> QED BY <2>1
<1>4. \A e, x, i : Toggle(e, TRUE) # ServerOp(x, i) /\ Toggle(e, FALSE) # ServerOp(x, i)
  <2> SUFFICES ASSUME NEW e, NEW x, NEW i
               PROVE  Toggle(e, TRUE) # ServerOp(x, i) /\ Toggle(e, FALSE) # ServerOp(x, i)
    OBVIOUS
  <2>1. /\ DOMAIN Toggle(e, TRUE) = {"op", "end", "on"} /\ DOMAIN ServerOp(x, i) = {"op", "server"}
        /\ DOMAIN Toggle(e, FALSE) = {"op", "end", "on"}
    BY DEF Toggle, ServerOp
  <2>2. {"op", "end", "on"} # {"op", "server"}
    OBVIOUS
  <2>3. Toggle(e, TRUE) # ServerOp(x, i)
    BY <2>1, <2>2, Zenon
  <2>4. Toggle(e, FALSE) # ServerOp(x, i)
    BY <2>1, <2>2, Zenon
  <2> QED BY <2>3, <2>4
<1> QED BY <1>1, <1>2, <1>3, <1>4

\* The part of it about one operation of each kind.
LEMMA DifferentKinds ==
  \A e, x, i : Toggle(e, TRUE) # ServerOp(x, i) /\ Toggle(e, FALSE) # ServerOp(x, i)
BY Different

----------------------------------------------------------------------------
(* Ends.                                                                   *)

\* The ends made for given numbers of instances.
LEMMA MadeFacts ==
  ASSUME NEW inc \in [Server -> Nat]
  PROVE  /\ \A e \in MadeOf(inc) : /\ e \in End /\ e[1] \in Server /\ e[3] \in Server
                                   /\ e[1] # e[3] /\ e[2] \in 1 .. inc[e[1]] /\ e[2] \in Nat
                                   /\ e = endname(e[1], e[2], e[3]) /\ e[3] \in others(e[1])
         /\ \A i \in Server : \A j \in others(i) : \A k \in Nat :
              endname(i, k, j) \in MadeOf(inc) <=> k \in 1 .. inc[i]
<1>1. \A e : e \in MadeOf(inc) <=>
        \E i \in Server : \E k \in 1 .. inc[i] : \E j \in others(i) : e = endname(i, k, j)
  BY DEF MadeOf
<1>2. ASSUME NEW e \in MadeOf(inc)
      PROVE  /\ e \in End /\ e[1] \in Server /\ e[3] \in Server
             /\ e[1] # e[3] /\ e[2] \in 1 .. inc[e[1]] /\ e[2] \in Nat
             /\ e = endname(e[1], e[2], e[3]) /\ e[3] \in others(e[1])
  <2>1. PICK i \in Server : \E k \in 1 .. inc[i] : \E j \in others(i) : e = endname(i, k, j)
    BY <1>1, <1>2
  <2>2. PICK k \in 1 .. inc[i] : \E j \in others(i) : e = endname(i, k, j)
    BY <2>1
  <2>3. PICK j \in others(i) : e = <<i, k, j>>
    BY <2>2 DEF endname
  <2>4. e[1] = i /\ e[2] = k /\ e[3] = j /\ k \in Nat /\ j \in Server /\ j # i
    BY <2>3 DEF others
  <2>5. e \in End
    BY <2>3, <2>4 DEF End
  <2> QED BY <2>3, <2>4, <2>5 DEF endname
<1>3. ASSUME NEW i \in Server, NEW j \in others(i), NEW k \in Nat, endname(i, k, j) \in MadeOf(inc)
      PROVE  k \in 1 .. inc[i]
  <2>1. endname(i, k, j)[1] = i /\ endname(i, k, j)[2] = k
    BY DEF endname
  <2> QED BY <1>2, <1>3, <2>1
<1> QED BY <1>1, <1>2, <1>3

----------------------------------------------------------------------------
(* The operations keep the tables.                                         *)

\* What the script is after its first operation.
LEMMA HeadFacts ==
  ASSUME Types, Tables, Operation
  PROVE  /\ Head(script) \in EnableOps \cup ServerOps
         /\ Head(script) \in Ops
         /\ script' \in Seq(EnableOps \cup ServerOps)
         /\ IsOrdered(script')
         /\ \A p : p \in Ops <=> p = Head(script) \/ p \in Ops'
         /\ \A p : p \in Ops' => p \in EnableOps \cup ServerOps /\ MayPrecede(Head(script), p)
<1>1. script \in Seq(EnableOps \cup ServerOps) /\ IsOrdered(script)
  BY DEF Types, TableTypes, Tables
<1>2. script # <<>> /\ script' = Tail(script)
  BY DEF Operation
<1> DEFINE S == EnableOps \cup ServerOps
<1> HIDE DEF S
<1>3. script \in Seq(S)
  BY <1>1 DEF S
<1>4. /\ Tail(script) \in Seq(S) /\ Head(script) \in S /\ Head(script) \in ToSet(script)
      /\ \A p : p \in ToSet(script) <=> p = Head(script) \/ p \in ToSet(Tail(script))
      /\ IsOrdered(Tail(script))
      /\ \A p \in ToSet(Tail(script)) : p \in S /\ MayPrecede(Head(script), p)
  BY <1>1, <1>2, <1>3, TailFacts
<1> QED BY <1>2, <1>4 DEF Ops, S

\* What the script is after its first operation is one on a server.
LEMMA ServerHeadFacts ==
  ASSUME Types, Tables, Operation, NEW x \in OpNames, NEW i \in Server,
         Head(script) = ServerOp(x, i)
  PROVE  /\ \A p : p \in Ops' <=> p \in Ops /\ p # ServerOp(x, i)
         /\ \A y \in OpNames : ServerOp(y, i) \in Ops =>
              y = x \/ Rank(ServerOp(x, i)) < Rank(ServerOp(y, i))
         /\ \A e : Toggle(e, FALSE) \notin Ops
<1> DEFINE o == ServerOp(x, i)
<1>1. /\ \A p : p \in Ops <=> p = o \/ p \in Ops'
      /\ \A p : p \in Ops' => MayPrecede(o, p)
  BY HeadFacts
<1>2. /\ \A y \in OpNames : MayPrecede(o, ServerOp(y, i)) => Rank(o) < Rank(ServerOp(y, i))
      /\ \A e : ~MayPrecede(o, Toggle(e, FALSE))
  BY AfterServerOp
<1>3. \A e : o # Toggle(e, FALSE)
  BY Different
<1>4. o \notin Ops'
  <2>1. Rank(o) \in 1 .. 4
    BY Ranks DEF OpNames
  <2> DEFINE r == Rank(o)
  <2> HIDE DEF r
  <2>2. ~(r < r)
    BY <2>1 DEF r
  <2>3. ~MayPrecede(o, ServerOp(x, i))
    BY <1>2, <2>2 DEF r
  <2> HIDE DEF o
  <2> QED BY <1>1, <2>3 DEF o
<1> HIDE DEF o
<1>5. \A p : p \in Ops' <=> p \in Ops /\ p # o
  BY <1>1, <1>4
<1>6. ASSUME NEW y \in OpNames, ServerOp(y, i) \in Ops PROVE y = x \/ Rank(o) < Rank(ServerOp(y, i))
  <2>1. CASE ServerOp(y, i) = o
    BY <2>1, Different DEF o
  <2>2. CASE ServerOp(y, i) # o
    BY <1>2, <1>5, <1>1, <1>6, <2>2
  <2> QED BY <2>1, <2>2
<1>7. \A e : Toggle(e, FALSE) \notin Ops
  BY <1>1, <1>2, <1>3
<1> QED BY <1>5, <1>6, <1>7 DEF o

\* Server operations of other servers, and whether a Make is pending, decide
\* nothing about i.
LEMMA RegisteredFrame ==
  ASSUME NEW i \in Server, Registered(i),
         servers'[i] = servers[i], attached'[i] = attached[i], incarnation'[i] = incarnation[i],
         connected'[i] = connected[i],
         \A x \in OpNames : ServerOp(x, i) \in Ops' <=> ServerOp(x, i) \in Ops
  PROVE  Registered(i)'
<1> DEFINE D == ServerOp("DeleteServer", i) \in Ops
           C == ServerOp("Copy", i) \in Ops
           M == ServerOp("Make", i) \in Ops
           A == ServerOp("AddServer", i) \in Ops
<1>1. (D' <=> D) /\ (C' <=> C) /\ (M' <=> M) /\ (A' <=> A)
  BY DEF OpNames
<1> HIDE DEF D, C, M, A
<1> QED BY <1>1 DEF Registered, D, C, M, A

\* The end that is disabled is not one between connected servers.
LEMMA DisableTables ==
  ASSUME Types, Tables, Operation, NEW e \in End, Head(script) = Toggle(e, FALSE),
         Enable(e, FALSE), UNCHANGED <<incarnation, attached, connected>>
  PROVE  Tables' /\ Made' = Made /\ enabled' \in [Made -> BOOLEAN]
<1>1. /\ enabled \in [Made -> BOOLEAN] /\ incarnation \in [Server -> Nat]
      /\ \A i \in Server : Registered(i)
      /\ OldEndsDisabled /\ Toggles /\ Settles /\ CutOff
  BY DEF Types, TableTypes, Tables
<1> DEFINE o == Toggle(e, FALSE)
<1>2. /\ o \in Ops /\ IsOrdered(script')
      /\ \A p : p \in Ops <=> p = o \/ p \in Ops'
  BY HeadFacts
<1>3. /\ \A x, i : ServerOp(x, i) \in Ops' <=> ServerOp(x, i) \in Ops
      /\ \A f : Toggle(f, TRUE) \in Ops' <=> Toggle(f, TRUE) \in Ops
      /\ \A f : f # e => (Toggle(f, FALSE) \in Ops' <=> Toggle(f, FALSE) \in Ops)
  BY <1>2, Different, Zenon
<1>4. e \in Made /\ ~(connected[e[1]] /\ connected[e[3]])
  <2>1. o.op = "Enable" /\ o.end = e /\ o.on = FALSE
    BY DEF Toggle
  <2>2. o \in Ops
    BY <1>2 DEF Ops
  <2> HIDE DEF o
  <2> QED BY <1>1, <2>1, <2>2 DEF Toggles
<1>5. /\ enabled' = [enabled EXCEPT ![e] = FALSE]
      /\ UNCHANGED <<servers, incarnation, attached, connected>>
  BY DEF Enable
<1>6. Made' = Made
  BY <1>5 DEF Made
<1>7. next' = next
  BY <1>3, <1>5 DEF next
<1>8. /\ enabled' \in [Made -> BOOLEAN] /\ ~enabled'[e]
      /\ \A f \in Made : f # e => enabled'[f] = enabled[f]
  BY <1>1, <1>4, <1>5
<1>9. ASSUME NEW i \in Server PROVE Registered(i)'
  BY <1>1, <1>3, <1>5, RegisteredFrame
<1>10. OldEndsDisabled'
  BY <1>1, <1>5, <1>6, <1>8 DEF OldEndsDisabled
<1>11. Toggles'
  <2> SUFFICES ASSUME NEW p \in Ops', p.op = "Enable"
               PROVE  LET f == p.end
                          both == connected'[f[1]] /\ connected'[f[3]]
                      IN  IF p.on
                            THEN f[1] # f[3] /\ f[2] = next'[f[1]] /\ both
                            ELSE f \in Made' /\ ~both
    BY DEF Toggles
  <2>1. p \in Ops /\ p \in EnableOps \cup ServerOps
    BY <1>2, HeadFacts DEF Ops
  <2>2. p.end \in End /\ p.end[1] \in Server
    BY <2>1 DEF EnableOps, ServerOps, End
  <2> QED BY <1>1, <1>5, <1>6, <1>7, <2>1, <2>2 DEF Toggles
<1>12. Settles'
  <2> SUFFICES ASSUME NEW i \in Server, NEW j \in others(i)
               PROVE  LET f == endname(i, next'[i], j)
                      IN  IF connected'[i] /\ connected'[j]
                            THEN Toggle(f, TRUE) \in Ops' \/ (f \in Made' /\ enabled'[f])
                            ELSE f \in Made' => ~enabled'[f] \/ Toggle(f, FALSE) \in Ops'
    BY DEF Settles, Ops
  <2> DEFINE f == endname(i, next[i], j)
  <2>1. endname(i, next'[i], j) = f
    BY <1>7 DEF endname
  <2>2. f[1] = i /\ f[3] = j
    BY DEF endname
  <2>3. IF connected[i] /\ connected[j]
          THEN Toggle(f, TRUE) \in Ops \/ (f \in Made /\ enabled[f])
          ELSE f \in Made => ~enabled[f] \/ Toggle(f, FALSE) \in Ops
    BY <1>1 DEF Settles
  <2> HIDE DEF f
  <2>4. CASE connected[i] /\ connected[j]
    <3>1. f # e
      BY <1>4, <2>2, <2>4
    <3>2. Toggle(f, TRUE) \in Ops' \/ (f \in Made' /\ enabled'[f])
      BY <1>3, <1>6, <1>8, <2>3, <2>4, <3>1
    <3> QED BY <1>5, <2>1, <2>4, <3>2
  <2>5. CASE ~(connected[i] /\ connected[j])
    <3>1. f \in Made' => ~enabled'[f] \/ Toggle(f, FALSE) \in Ops'
      BY <1>3, <1>6, <1>8, <2>3, <2>5
    <3> QED BY <1>5, <2>1, <2>5, <3>1
  <2> QED BY <2>4, <2>5
<1>13. CutOff'
  <2> SUFFICES ASSUME NEW i \in Server, NEW j \in others(i), ServerOp("Copy", i) \in Ops',
                      endname(i, incarnation'[i], j) \in Made'
               PROVE  \/ ~enabled'[endname(i, incarnation'[i], j)]
                      \/ Toggle(endname(i, incarnation'[i], j), FALSE) \in Ops'
    BY DEF CutOff, Ops
  <2> DEFINE f == endname(i, incarnation[i], j)
  <2>1. endname(i, incarnation'[i], j) = f
    BY <1>5 DEF endname
  <2>2. f \in Made => ~enabled[f] \/ Toggle(f, FALSE) \in Ops
    BY <1>1, <1>3 DEF CutOff
  <2> HIDE DEF f
  <2> QED BY <1>3, <1>6, <1>8, <2>1, <2>2
<1> QED BY <1>2, <1>6, <1>8, <1>9, <1>10, <1>11, <1>12, <1>13 DEF Tables

\* The operations are typed.
LEMMA OpsTyped == Types => Ops \subseteq EnableOps \cup ServerOps
  BY DEF Types, TableTypes, Ops, ToSet

\* What is still to be toggled may become less.
LEMMA TogglesFrame ==
  ASSUME Types, Toggles, Ops' \subseteq Ops, connected' = connected, next' = next,
         Made \subseteq Made'
  PROVE  Toggles'
<1> SUFFICES ASSUME NEW p \in Ops', p.op = "Enable"
             PROVE  LET f == p.end
                        both == connected'[f[1]] /\ connected'[f[3]]
                    IN  IF p.on
                          THEN f[1] # f[3] /\ f[2] = next'[f[1]] /\ both
                          ELSE f \in Made' /\ ~both
  BY DEF Toggles
<1>1. p \in Ops
  OBVIOUS
<1> QED BY <1>1 DEF Toggles

\* Operations on servers leave the ends alone; new ends are disabled.
LEMMA EndsFrame ==
  ASSUME Settles, CutOff, connected' = connected, next' = next, Made \subseteq Made',
         \A f : Toggle(f, TRUE) \in Ops' <=> Toggle(f, TRUE) \in Ops,
         \A f : Toggle(f, FALSE) \in Ops' <=> Toggle(f, FALSE) \in Ops,
         \A f \in Made : enabled'[f] = enabled[f],
         \A f \in Made' \ Made : ~enabled'[f],
         \A i \in Server : ServerOp("Copy", i) \in Ops' =>
           ServerOp("Copy", i) \in Ops /\ incarnation'[i] = incarnation[i]
  PROVE  Settles' /\ CutOff'
<1>1. Settles'
  <2> SUFFICES ASSUME NEW i \in Server, NEW j \in others(i)
               PROVE  LET f == endname(i, next'[i], j)
                      IN  IF connected'[i] /\ connected'[j]
                            THEN Toggle(f, TRUE) \in Ops' \/ (f \in Made' /\ enabled'[f])
                            ELSE f \in Made' => ~enabled'[f] \/ Toggle(f, FALSE) \in Ops'
    BY DEF Settles
  <2> DEFINE f == endname(i, next[i], j)
  <2>1. endname(i, next'[i], j) = f
    OBVIOUS
  <2>2. IF connected[i] /\ connected[j]
          THEN Toggle(f, TRUE) \in Ops \/ (f \in Made /\ enabled[f])
          ELSE f \in Made => ~enabled[f] \/ Toggle(f, FALSE) \in Ops
    BY DEF Settles
  <2> HIDE DEF f
  <2>3. CASE connected[i] /\ connected[j]
    <3>1. Toggle(f, TRUE) \in Ops' \/ (f \in Made' /\ enabled'[f])
      BY <2>2, <2>3
    <3> QED BY <2>1, <2>3, <3>1
  <2>4. CASE ~(connected[i] /\ connected[j])
    <3>1. f \in Made' => ~enabled'[f] \/ Toggle(f, FALSE) \in Ops'
      BY <2>2, <2>4
    <3> QED BY <2>1, <2>4, <3>1
  <2> QED BY <2>3, <2>4
<1>2. CutOff'
  <2> SUFFICES ASSUME NEW i \in Server, NEW j \in others(i), ServerOp("Copy", i) \in Ops',
                      endname(i, incarnation'[i], j) \in Made'
               PROVE  \/ ~enabled'[endname(i, incarnation'[i], j)]
                      \/ Toggle(endname(i, incarnation'[i], j), FALSE) \in Ops'
    BY DEF CutOff
  <2> DEFINE f == endname(i, incarnation[i], j)
  <2>1. endname(i, incarnation'[i], j) = f
    OBVIOUS
  <2>2. f \in Made => ~enabled[f] \/ Toggle(f, FALSE) \in Ops
    BY DEF CutOff
  <2> HIDE DEF f
  <2> QED BY <2>1, <2>2
<1> QED BY <1>1, <1>2

\* An end that is enabled is one of two instances that are there to stay.
LEMMA EnableTables ==
  ASSUME Types, Tables, Operation, NEW e \in End, Head(script) = Toggle(e, TRUE),
         Enable(e, TRUE), UNCHANGED <<incarnation, attached, connected>>
  PROVE  Tables' /\ Made' = Made /\ enabled' \in [Made -> BOOLEAN]
<1>1. /\ enabled \in [Made -> BOOLEAN] /\ incarnation \in [Server -> Nat]
      /\ \A i \in Server : Registered(i)
      /\ OldEndsDisabled /\ Toggles /\ Settles /\ CutOff
  BY DEF Types, TableTypes, Tables
<1> DEFINE o == Toggle(e, TRUE)
<1>2. /\ o \in Ops /\ IsOrdered(script')
      /\ \A p : p \in Ops <=> p = o \/ p \in Ops'
      /\ \A p \in Ops' : p \in EnableOps /\ p.on = TRUE
  <2>1. /\ o \in Ops /\ IsOrdered(script')
        /\ \A p : p \in Ops <=> p = o \/ p \in Ops'
        /\ \A p \in Ops' : p \in EnableOps \cup ServerOps /\ MayPrecede(o, p)
    BY HeadFacts
  <2> QED BY <2>1, AfterEnable
<1>3. /\ \A x, i : ServerOp(x, i) \notin Ops /\ ServerOp(x, i) \notin Ops'
      /\ \A f : Toggle(f, FALSE) \notin Ops /\ Toggle(f, FALSE) \notin Ops'
      /\ \A f : f # e => (Toggle(f, TRUE) \in Ops' <=> Toggle(f, TRUE) \in Ops)
  <2>1. \A p \in Ops' : \E f : p = Toggle(f, TRUE)
    <3> SUFFICES ASSUME NEW p \in Ops' PROVE p = Toggle(p.end, TRUE)
      OBVIOUS
    <3>1. p = Toggle(p.end, p.on) /\ p.on = TRUE
      BY <1>2 DEF EnableOps, Toggle
    <3> QED BY <3>1
  <2>2. \A p \in Ops : \E f : p = Toggle(f, TRUE)
    BY <1>2, <2>1, Zenon
  <2>3. ASSUME NEW x, NEW i PROVE ServerOp(x, i) \notin Ops /\ ServerOp(x, i) \notin Ops'
    <3>1. \A f : Toggle(f, TRUE) # ServerOp(x, i)
      BY Different
    <3> QED BY <2>1, <2>2, <3>1, Zenon
  <2>4. \A f, g : Toggle(f, FALSE) # Toggle(g, TRUE)
    <3>1. \A f : Toggle(f, FALSE).on = FALSE /\ Toggle(f, TRUE).on = TRUE
      BY DEF Toggle
    <3> QED BY <3>1
  <2>5. \A f : Toggle(f, FALSE) \notin Ops /\ Toggle(f, FALSE) \notin Ops'
    BY <2>1, <2>2, <2>4, Zenon
  <2>6. \A f : f # e => (Toggle(f, TRUE) \in Ops' <=> Toggle(f, TRUE) \in Ops)
    BY <1>2, Different, Zenon
  <2> QED BY <2>3, <2>5, <2>6
<1>4. /\ e[1] # e[3] /\ e[2] = next[e[1]] /\ connected[e[1]] /\ connected[e[3]]
      /\ e[1] \in Server /\ e[3] \in Server
  <2>1. o.op = "Enable" /\ o.end = e /\ o.on = TRUE
    BY DEF Toggle
  <2> HIDE DEF o
  <2>2. e[1] \in Server /\ e[3] \in Server
    BY DEF End
  <2> QED BY <1>1, <1>2, <2>1, <2>2 DEF Toggles
<1>5. /\ enabled' = [enabled EXCEPT ![e] = TRUE]
      /\ UNCHANGED <<servers, incarnation, attached, connected>>
  BY DEF Enable
<1>6. /\ incarnation[e[1]] > 0 /\ attached[e[1]] = incarnation[e[1]]
      /\ e[2] = incarnation[e[1]] /\ e[2] \in Nat
  <2>1. attached[e[1]] # nil
    BY <1>1, <1>3, <1>4 DEF Registered
  <2>2. attached[e[1]] = incarnation[e[1]] /\ incarnation[e[1]] > 0
    BY <1>1, <1>4, <2>1 DEF Registered
  <2>3. next[e[1]] = incarnation[e[1]]
    BY <1>3, <1>4 DEF next
  <2> QED BY <1>1, <1>4, <2>2, <2>3
<1>7. e \in Made
  <2>1. e = endname(e[1], e[2], e[3]) /\ e[3] \in others(e[1])
    BY <1>4 DEF End, endname, others
  <2>2. e[2] \in 1 .. incarnation[e[1]]
    BY <1>1, <1>4, <1>6
  <2> QED BY <1>1, <1>4, <1>6, <2>1, <2>2, MadeFacts DEF Made
<1>8. Made' = Made /\ next' = next
  BY <1>3, <1>5 DEF Made, next
<1>9. /\ enabled' \in [Made -> BOOLEAN] /\ enabled'[e]
      /\ \A f \in Made : f # e => enabled'[f] = enabled[f]
  BY <1>1, <1>5, <1>7
<1>10. ASSUME NEW i \in Server PROVE Registered(i)'
  BY <1>1, <1>3, <1>5, RegisteredFrame
<1>11. OldEndsDisabled'
  BY <1>1, <1>5, <1>6, <1>8, <1>9 DEF OldEndsDisabled
<1>12. Toggles'
  <2>1. Ops' \subseteq Ops
    BY <1>2
  <2> QED BY <1>1, <1>5, <1>8, <2>1, TogglesFrame
<1>13. Settles'
  <2> SUFFICES ASSUME NEW i \in Server, NEW j \in others(i)
               PROVE  LET f == endname(i, next'[i], j)
                      IN  IF connected'[i] /\ connected'[j]
                            THEN Toggle(f, TRUE) \in Ops' \/ (f \in Made' /\ enabled'[f])
                            ELSE f \in Made' => ~enabled'[f] \/ Toggle(f, FALSE) \in Ops'
    BY DEF Settles
  <2> DEFINE f == endname(i, next[i], j)
  <2>1. endname(i, next'[i], j) = f
    BY <1>8
  <2>2. f[1] = i /\ f[3] = j
    BY DEF endname
  <2>3. IF connected[i] /\ connected[j]
          THEN Toggle(f, TRUE) \in Ops \/ (f \in Made /\ enabled[f])
          ELSE f \in Made => ~enabled[f] \/ Toggle(f, FALSE) \in Ops
    BY <1>1 DEF Settles
  <2> HIDE DEF f
  <2>4. CASE connected[i] /\ connected[j]
    <3>1. Toggle(f, TRUE) \in Ops' \/ (f \in Made' /\ enabled'[f])
      <4>1. CASE f = e
        BY <1>7, <1>8, <1>9, <4>1
      <4>2. CASE f # e
        BY <1>3, <1>8, <1>9, <2>3, <2>4, <4>2
      <4> QED BY <4>1, <4>2
    <3> QED BY <1>5, <2>1, <2>4, <3>1
  <2>5. CASE ~(connected[i] /\ connected[j])
    <3>1. f # e
      BY <1>4, <2>2, <2>5
    <3>2. f \in Made' => ~enabled'[f] \/ Toggle(f, FALSE) \in Ops'
      BY <1>3, <1>8, <1>9, <2>3, <2>5, <3>1
    <3> QED BY <1>5, <2>1, <2>5, <3>2
  <2> QED BY <2>4, <2>5
<1>14. CutOff'
  BY <1>3 DEF CutOff
<1> QED BY <1>2, <1>8, <1>9, <1>10, <1>11, <1>12, <1>13, <1>14 DEF Tables

\* One operation on a server less.
LEMMA OneLess ==
  ASSUME Types, Tables, Operation, NEW x \in OpNames, NEW i \in Server,
         Head(script) = ServerOp(x, i)
  PROVE  /\ Ops' \subseteq Ops /\ ServerOp(x, i) \notin Ops'
         /\ \A f : Toggle(f, TRUE) \in Ops' <=> Toggle(f, TRUE) \in Ops
         /\ \A f : Toggle(f, FALSE) \in Ops' <=> Toggle(f, FALSE) \in Ops
         /\ \A y, j : y # x => (ServerOp(y, j) \in Ops' <=> ServerOp(y, j) \in Ops)
         /\ \A y, j : j # i => (ServerOp(y, j) \in Ops' <=> ServerOp(y, j) \in Ops)
<1>0. \A p : p \in Ops' <=> p \in Ops /\ p # ServerOp(x, i)
  BY ServerHeadFacts
<1>1. Ops' \subseteq Ops /\ ServerOp(x, i) \notin Ops'
  BY <1>0, Zenon
<1>2. /\ \A f : Toggle(f, TRUE) # ServerOp(x, i)
      /\ \A f : Toggle(f, FALSE) # ServerOp(x, i)
  <2> SUFFICES ASSUME NEW f PROVE Toggle(f, TRUE) # ServerOp(x, i) /\ Toggle(f, FALSE) # ServerOp(x, i)
    BY Zenon
  <2> QED BY DifferentKinds, Zenon
<1>3. /\ \A f : Toggle(f, TRUE) \in Ops' <=> Toggle(f, TRUE) \in Ops
      /\ \A f : Toggle(f, FALSE) \in Ops' <=> Toggle(f, FALSE) \in Ops
  BY <1>0, <1>2, Zenon
<1>4. \A y, j : y # x \/ j # i => ServerOp(y, j) # ServerOp(x, i)
  BY Different
<1>5. \A y, j : y # x \/ j # i => (ServerOp(y, j) \in Ops' <=> ServerOp(y, j) \in Ops)
  BY <1>0, <1>4, Zenon
<1> QED BY <1>1, <1>3, <1>5, Zenon

\* DeleteServer.
LEMMA DeleteTables ==
  ASSUME Types, Tables, Operation, NEW i \in Server,
         Head(script) = ServerOp("DeleteServer", i),
         SetServer(i, nil), UNCHANGED <<incarnation, attached, connected>>
  PROVE  Tables' /\ Made' = Made
<1>1. /\ servers \in [Server -> Nat \cup {nil}]
      /\ \A j \in Server : Registered(j)
      /\ OldEndsDisabled /\ Toggles /\ Settles /\ CutOff
  BY DEF Types, TableTypes, Tables
<1>2. /\ IsOrdered(script')
      /\ \A p : p \in Ops' <=> p \in Ops /\ p # ServerOp("DeleteServer", i)
  BY HeadFacts, ServerHeadFacts DEF OpNames
<1>3. /\ Ops' \subseteq Ops /\ ServerOp("DeleteServer", i) \notin Ops'
      /\ \A f : Toggle(f, TRUE) \in Ops' <=> Toggle(f, TRUE) \in Ops
      /\ \A f : Toggle(f, FALSE) \in Ops' <=> Toggle(f, FALSE) \in Ops
      /\ \A y, j : y # "DeleteServer" => (ServerOp(y, j) \in Ops' <=> ServerOp(y, j) \in Ops)
      /\ \A y, j : j # i => (ServerOp(y, j) \in Ops' <=> ServerOp(y, j) \in Ops)
  BY OneLess DEF OpNames
<1>0. ServerOp("DeleteServer", i) \in Ops
  BY HeadFacts
<1>4. /\ servers' = [servers EXCEPT ![i] = nil]
      /\ UNCHANGED <<enabled, incarnation, attached, connected>>
  BY DEF SetServer
<1>5. Made' = Made /\ next' = next
  BY <1>3, <1>4 DEF Made, next
<1>6. ASSUME NEW j \in Server PROVE Registered(j)'
  <2>1. CASE j # i
    <3>1. servers'[j] = servers[j]
      BY <1>1, <1>4, <2>1
    <3>2. \A x \in OpNames : ServerOp(x, j) \in Ops' <=> ServerOp(x, j) \in Ops
      BY <1>3, <2>1
    <3> QED BY <1>1, <1>4, <3>1, <3>2, RegisteredFrame
  <2>2. CASE j = i
    <3>1. servers'[i] = nil
      BY <1>1, <1>4
    <3>2. /\ ServerOp("Copy", i) \in Ops' <=> ServerOp("Copy", i) \in Ops
          /\ ServerOp("Make", i) \in Ops' <=> ServerOp("Make", i) \in Ops
          /\ ServerOp("AddServer", i) \in Ops' <=> ServerOp("AddServer", i) \in Ops
      BY <1>3
    <3> QED BY <1>0, <1>1, <1>3, <1>4, <2>2, <3>1, <3>2 DEF Registered
  <2> QED BY <2>1, <2>2
<1>7. OldEndsDisabled'
  BY <1>1, <1>4, <1>5 DEF OldEndsDisabled
<1>8. Toggles'
  BY <1>1, <1>3, <1>4, <1>5, TogglesFrame
<1>9. Settles' /\ CutOff'
  <2>1. \A j \in Server : ServerOp("Copy", j) \in Ops' => ServerOp("Copy", j) \in Ops
    BY <1>3
  <2> QED BY <1>1, <1>3, <1>4, <1>5, <2>1, EndsFrame
<1> QED BY <1>2, <1>5, <1>6, <1>7, <1>8, <1>9 DEF Tables

\* The copy of the persister.
LEMMA CopyTables ==
  ASSUME Types, Tables, Operation, NEW i \in Server, Head(script) = ServerOp("Copy", i),
         Copy(i), UNCHANGED <<tableVars, incarnation, connected>>
  PROVE  Tables' /\ Made' = Made
<1>1. /\ attached \in [Server -> Nat \cup {nil}] /\ incarnation \in [Server -> Nat]
      /\ \A j \in Server : Registered(j)
      /\ OldEndsDisabled /\ Toggles /\ Settles /\ CutOff
  BY DEF Types, TableTypes, Tables
<1>2. /\ IsOrdered(script') /\ ServerOp("Copy", i) \in Ops
      /\ \A p : p \in Ops' <=> p \in Ops /\ p # ServerOp("Copy", i)
      /\ \A e : Toggle(e, FALSE) \notin Ops
  BY HeadFacts, ServerHeadFacts DEF OpNames
<1>3. /\ Ops' \subseteq Ops /\ ServerOp("Copy", i) \notin Ops'
      /\ \A f : Toggle(f, TRUE) \in Ops' <=> Toggle(f, TRUE) \in Ops
      /\ \A f : Toggle(f, FALSE) \in Ops' <=> Toggle(f, FALSE) \in Ops
      /\ \A y, j : y # "Copy" => (ServerOp(y, j) \in Ops' <=> ServerOp(y, j) \in Ops)
      /\ \A y, j : j # i => (ServerOp(y, j) \in Ops' <=> ServerOp(y, j) \in Ops)
  BY OneLess DEF OpNames
<1>4. /\ attached' = [attached EXCEPT ![i] = nil]
      /\ UNCHANGED <<servers, enabled, incarnation, connected>>
  BY DEF Copy, tableVars
<1>5. Made' = Made /\ next' = next
  BY <1>3, <1>4 DEF Made, next
<1>6. ServerOp("DeleteServer", i) \notin Ops
  <2>1. ServerOp("DeleteServer", i) \in Ops =>
          Rank(ServerOp("Copy", i)) < Rank(ServerOp("DeleteServer", i))
    BY ServerHeadFacts DEF OpNames
  <2>2. Rank(ServerOp("Copy", i)) = 2 /\ Rank(ServerOp("DeleteServer", i)) = 1
    BY Ranks
  <2> QED BY <2>1, <2>2
<1>7. ASSUME NEW j \in Server PROVE Registered(j)'
  <2>1. CASE j # i
    <3>1. attached'[j] = attached[j]
      BY <1>1, <1>4, <2>1
    <3>2. \A x \in OpNames : ServerOp(x, j) \in Ops' <=> ServerOp(x, j) \in Ops
      BY <1>3, <2>1
    <3> QED BY <1>1, <1>4, <3>1, <3>2, RegisteredFrame
  <2>2. CASE j = i
    <3>1. attached'[i] = nil /\ servers'[i] = nil
      BY <1>1, <1>2, <1>4, <1>6 DEF Registered
    <3>2. /\ ServerOp("DeleteServer", i) \notin Ops'
          /\ ServerOp("Make", i) \in Ops' <=> ServerOp("Make", i) \in Ops
          /\ ServerOp("AddServer", i) \in Ops' <=> ServerOp("AddServer", i) \in Ops
      BY <1>3, <1>6
    <3> QED BY <1>1, <1>2, <1>3, <1>4, <2>2, <3>1, <3>2 DEF Registered
  <2> QED BY <2>1, <2>2
<1>8. OldEndsDisabled'
  <2> SUFFICES ASSUME NEW e \in Made, e[2] # attached'[e[1]] PROVE ~enabled[e]
    BY <1>4, <1>5 DEF OldEndsDisabled
  <2>1. /\ e[1] \in Server /\ e[3] \in others(e[1]) /\ e = endname(e[1], e[2], e[3])
    BY <1>1, MadeFacts DEF Made
  <2>2. CASE e[2] # attached[e[1]]
    BY <1>1, <2>2 DEF OldEndsDisabled
  <2>3. CASE e[2] = attached[e[1]]
    <3>1. e[1] = i
      BY <1>1, <1>4, <2>1, <2>3
    <3>2. attached[i] # nil => attached[i] = incarnation[i]
      BY <1>1 DEF Registered
    <3>3. e[2] # nil
      <4>1. e[2] \in Nat
        BY <1>1, MadeFacts DEF Made
      <4> QED BY <4>1, TesterAssumption
    <3>4. e = endname(i, incarnation[i], e[3])
      BY <2>1, <2>3, <3>1, <3>2, <3>3
    <3>5. ~enabled[e] \/ Toggle(e, FALSE) \in Ops
      BY <1>1, <1>2, <2>1, <3>1, <3>4 DEF CutOff
    <3> QED BY <1>2, <3>5
  <2> QED BY <2>2, <2>3
<1>9. Toggles'
  BY <1>1, <1>3, <1>4, <1>5, TogglesFrame
<1>10. Settles' /\ CutOff'
  <2>1. \A j \in Server : ServerOp("Copy", j) \in Ops' => ServerOp("Copy", j) \in Ops
    BY <1>3
  <2> QED BY <1>1, <1>3, <1>4, <1>5, <2>1, EndsFrame
<1> QED BY <1>2, <1>5, <1>7, <1>8, <1>9, <1>10 DEF Tables

\* AddServer: the instance that was made last is registered.
LEMMA AddTables ==
  ASSUME Types, Tables, Operation, NEW i \in Server, Head(script) = ServerOp("AddServer", i),
         SetServer(i, incarnation[i]), UNCHANGED <<incarnation, attached, connected>>
  PROVE  Tables' /\ Made' = Made /\ servers[i] = nil
<1>1. /\ servers \in [Server -> Nat \cup {nil}] /\ incarnation \in [Server -> Nat]
      /\ \A j \in Server : Registered(j)
      /\ OldEndsDisabled /\ Toggles /\ Settles /\ CutOff
  BY DEF Types, TableTypes, Tables
<1>2. /\ IsOrdered(script') /\ ServerOp("AddServer", i) \in Ops
      /\ \A p : p \in Ops' <=> p \in Ops /\ p # ServerOp("AddServer", i)
  BY HeadFacts, ServerHeadFacts DEF OpNames
<1>3. /\ Ops' \subseteq Ops /\ ServerOp("AddServer", i) \notin Ops'
      /\ \A f : Toggle(f, TRUE) \in Ops' <=> Toggle(f, TRUE) \in Ops
      /\ \A f : Toggle(f, FALSE) \in Ops' <=> Toggle(f, FALSE) \in Ops
      /\ \A y, j : y # "AddServer" => (ServerOp(y, j) \in Ops' <=> ServerOp(y, j) \in Ops)
      /\ \A y, j : j # i => (ServerOp(y, j) \in Ops' <=> ServerOp(y, j) \in Ops)
  BY OneLess DEF OpNames
<1>4. /\ servers' = [servers EXCEPT ![i] = incarnation[i]]
      /\ UNCHANGED <<enabled, incarnation, attached, connected>>
  BY DEF SetServer
<1>5. Made' = Made /\ next' = next
  BY <1>3, <1>4 DEF Made, next
<1>6. /\ ServerOp("DeleteServer", i) \notin Ops /\ ServerOp("Copy", i) \notin Ops
      /\ ServerOp("Make", i) \notin Ops
  <2>1. \A y \in {"DeleteServer", "Copy", "Make"} : ServerOp(y, i) \in Ops =>
          Rank(ServerOp("AddServer", i)) < Rank(ServerOp(y, i))
    BY ServerHeadFacts DEF OpNames
  <2>2. /\ Rank(ServerOp("AddServer", i)) = 4 /\ Rank(ServerOp("DeleteServer", i)) = 1
        /\ Rank(ServerOp("Copy", i)) = 2 /\ Rank(ServerOp("Make", i)) = 3
    BY Ranks
  <2> QED BY <2>1, <2>2
<1>7. servers[i] = nil /\ attached[i] # nil /\ attached[i] = incarnation[i]
  BY <1>1, <1>2, <1>6 DEF Registered
<1>8. ASSUME NEW j \in Server PROVE Registered(j)'
  <2>1. CASE j # i
    <3>1. servers'[j] = servers[j]
      BY <1>1, <1>4, <2>1
    <3>2. \A x \in OpNames : ServerOp(x, j) \in Ops' <=> ServerOp(x, j) \in Ops
      BY <1>3, <2>1
    <3> QED BY <1>1, <1>4, <3>1, <3>2, RegisteredFrame
  <2>2. CASE j = i
    <3>1. servers'[i] = attached[i]
      BY <1>1, <1>4, <1>7
    <3>2. /\ ServerOp("DeleteServer", i) \notin Ops' /\ ServerOp("Copy", i) \notin Ops'
          /\ ServerOp("Make", i) \notin Ops'
      BY <1>3, <1>6
    <3> QED BY <1>1, <1>3, <1>4, <1>6, <1>7, <2>2, <3>1, <3>2 DEF Registered
  <2> QED BY <2>1, <2>2
<1>9. OldEndsDisabled'
  BY <1>1, <1>4, <1>5 DEF OldEndsDisabled
<1>10. Toggles'
  BY <1>1, <1>3, <1>4, <1>5, TogglesFrame
<1>11. Settles' /\ CutOff'
  <2>1. \A j \in Server : ServerOp("Copy", j) \in Ops' => ServerOp("Copy", j) \in Ops
    BY <1>3
  <2> QED BY <1>1, <1>3, <1>4, <1>5, <2>1, EndsFrame
<1> QED BY <1>2, <1>5, <1>7, <1>8, <1>9, <1>10, <1>11 DEF Tables

\* Make: the ends of the new instance are new and disabled.
LEMMA NewEnds ==
  ASSUME Types, NEW i \in Server, Make(i)
  PROVE  /\ Made \subseteq Made'
         /\ enabled' \in [Made' -> BOOLEAN] /\ connections' = [e \in Made' |-> e[3]]
         /\ \A e \in Made : enabled'[e] = enabled[e]
         /\ \A e \in Made' \ Made : ~enabled'[e]
<1>1. /\ incarnation \in [Server -> Nat] /\ enabled \in [Made -> BOOLEAN]
      /\ connections = [e \in Made |-> e[3]]
  BY DEF Types, TableTypes
<1> DEFINE k == incarnation[i] + 1
           N == {endname(i, k, j) : j \in others(i)}
<1>2. /\ incarnation' = [incarnation EXCEPT ![i] = k] /\ k \in Nat
      /\ incarnation' \in [Server -> Nat]
  BY <1>1 DEF Make
<1>3. /\ enabled' = [e \in N \cup Made |-> e \notin N /\ enabled[e]]
      /\ connections' = [e \in N \cup Made |->
                           IF e \in N THEN [f \in N |-> f[3]][e] ELSE connections[e]]
  <2>1. DOMAIN [e \in N |-> e[3]] = N /\ DOMAIN enabled = Made
    BY <1>1
  <2>2. MakeEnds([e \in N |-> e[3]])
    BY DEF Make
  <2> HIDE DEF N
  <2> QED BY <2>1, <2>2 DEF MakeEnds
<1>4. \A e \in N : e \in MadeOf(incarnation') /\ e \notin Made
  <2> SUFFICES ASSUME NEW j \in others(i)
               PROVE  endname(i, k, j) \in MadeOf(incarnation') /\ endname(i, k, j) \notin MadeOf(incarnation)
    BY DEF Made
  <2>1. k \in 1 .. incarnation'[i] /\ k \notin 1 .. incarnation[i]
    BY <1>1, <1>2
  <2> HIDE DEF k
  <2> QED BY <1>1, <1>2, <2>1, MadeFacts
<1>5. Made \subseteq MadeOf(incarnation')
  <2> SUFFICES ASSUME NEW e \in MadeOf(incarnation) PROVE e \in MadeOf(incarnation')
    BY DEF Made
  <2>1. /\ e[1] \in Server /\ e[2] \in 1 .. incarnation[e[1]] /\ e[2] \in Nat
        /\ e = endname(e[1], e[2], e[3]) /\ e[3] \in others(e[1])
    BY <1>1, MadeFacts
  <2>2. e[2] \in 1 .. incarnation'[e[1]]
    BY <1>1, <1>2, <2>1
  <2>3. endname(e[1], e[2], e[3]) \in MadeOf(incarnation')
    BY <1>2, <2>1, <2>2, MadeFacts
  <2> QED BY <2>1, <2>3
<1>6. MadeOf(incarnation') \subseteq N \cup Made
  <2> SUFFICES ASSUME NEW e \in MadeOf(incarnation'), e \notin MadeOf(incarnation) PROVE e \in N
    BY DEF Made
  <2>1. /\ e[1] \in Server /\ e[2] \in 1 .. incarnation'[e[1]] /\ e[2] \in Nat
        /\ e = endname(e[1], e[2], e[3]) /\ e[3] \in others(e[1])
    BY <1>2, MadeFacts
  <2>2. e[2] \notin 1 .. incarnation[e[1]]
    BY <1>1, <2>1, MadeFacts
  <2>3. e[1] = i /\ e[2] = k
    BY <1>1, <1>2, <2>1, <2>2
  <2> HIDE DEF k
  <2> QED BY <2>1, <2>3
<1>7. Made' = N \cup Made
  <2>1. Made' = MadeOf(incarnation')
    BY DEF Made
  <2> HIDE DEF N
  <2> QED BY <1>4, <1>5, <1>6, <2>1
<1>8. \A e \in N : e[3] = [f \in N |-> f[3]][e]
  BY Zenon
<1> HIDE DEF N, k
<1>9. connections' = [e \in Made' |-> e[3]]
  BY <1>1, <1>3, <1>7, <1>8
<1>10. enabled' \in [Made' -> BOOLEAN]
  BY <1>1, <1>3, <1>7
<1>11. \A e \in Made : enabled'[e] = enabled[e]
  BY <1>1, <1>3, <1>4
<1> QED BY <1>3, <1>7, <1>9, <1>10, <1>11

\* A new instance is made when the old one has no persister any more.
LEMMA MakeTables ==
  ASSUME Types, Tables, Operation, NEW i \in Server, Head(script) = ServerOp("Make", i),
         Make(i), UNCHANGED connected
  PROVE  Tables' /\ attached[i] = nil /\ servers[i] = nil
<1>1. /\ attached \in [Server -> Nat \cup {nil}] /\ incarnation \in [Server -> Nat]
      /\ \A j \in Server : Registered(j)
      /\ OldEndsDisabled /\ Toggles /\ Settles /\ CutOff
  BY DEF Types, TableTypes, Tables
<1>2. /\ IsOrdered(script') /\ ServerOp("Make", i) \in Ops
  BY HeadFacts
<1>3. /\ Ops' \subseteq Ops /\ ServerOp("Make", i) \notin Ops'
      /\ \A f : Toggle(f, TRUE) \in Ops' <=> Toggle(f, TRUE) \in Ops
      /\ \A f : Toggle(f, FALSE) \in Ops' <=> Toggle(f, FALSE) \in Ops
      /\ \A y, j : y # "Make" => (ServerOp(y, j) \in Ops' <=> ServerOp(y, j) \in Ops)
      /\ \A y, j : j # i => (ServerOp(y, j) \in Ops' <=> ServerOp(y, j) \in Ops)
  BY OneLess DEF OpNames
<1> DEFINE k == incarnation[i] + 1
<1>4. /\ incarnation' = [incarnation EXCEPT ![i] = k] /\ attached' = [attached EXCEPT ![i] = k]
      /\ servers' = servers /\ k \in Nat /\ k > 0 /\ k # nil
  <2>1. k \in Nat /\ k > 0
    BY <1>1
  <2>2. k # nil
    BY <2>1, TesterAssumption
  <2> QED BY <2>1, <2>2 DEF Make, MakeEnds
<1>5. /\ Made \subseteq Made'
      /\ \A e \in Made : enabled'[e] = enabled[e]
      /\ \A e \in Made' \ Made : ~enabled'[e]
  BY NewEnds
<1>6. ServerOp("DeleteServer", i) \notin Ops /\ ServerOp("Copy", i) \notin Ops
  <2>1. \A y \in {"DeleteServer", "Copy"} : ServerOp(y, i) \in Ops =>
          Rank(ServerOp("Make", i)) < Rank(ServerOp(y, i))
    BY ServerHeadFacts DEF OpNames
  <2>2. /\ Rank(ServerOp("Make", i)) = 3 /\ Rank(ServerOp("DeleteServer", i)) = 1
        /\ Rank(ServerOp("Copy", i)) = 2
    BY Ranks
  <2> QED BY <2>1, <2>2
<1>7. servers[i] = nil /\ attached[i] = nil
  BY <1>1, <1>2, <1>6 DEF Registered
<1>8. incarnation'[i] = k /\ attached'[i] = k
  BY <1>1, <1>4
<1>9. next' = next
  <2>1. \A j \in Server : j # i => incarnation'[j] = incarnation[j]
    BY <1>1, <1>4
  <2>2. \A j \in Server :
          (IF ServerOp("Make", j) \in Ops' THEN incarnation'[j] + 1 ELSE incarnation'[j]) =
          (IF ServerOp("Make", j) \in Ops THEN incarnation[j] + 1 ELSE incarnation[j])
    BY <1>2, <1>3, <1>8, <2>1
  <2> QED BY <2>2, Zenon DEF next
<1> HIDE DEF k
<1>10. ASSUME NEW j \in Server PROVE Registered(j)'
  <2>1. CASE j # i
    <3>1. attached'[j] = attached[j] /\ incarnation'[j] = incarnation[j] /\ servers'[j] = servers[j]
      BY <1>1, <1>4, <2>1
    <3>2. \A x \in OpNames : ServerOp(x, j) \in Ops' <=> ServerOp(x, j) \in Ops
      BY <1>3, <2>1
    <3>3. connected'[j] = connected[j]
      OBVIOUS
    <3> QED BY <1>1, <3>1, <3>2, <3>3, RegisteredFrame
  <2>2. CASE j = i
    <3>1. /\ ServerOp("DeleteServer", i) \notin Ops' /\ ServerOp("Copy", i) \notin Ops'
          /\ ServerOp("Make", i) \notin Ops'
      BY <1>3, <1>6
    <3>2. servers'[i] = nil /\ attached'[i] = incarnation'[i] /\ incarnation'[i] > 0
          /\ attached'[i] # nil /\ incarnation'[i] # 0
      BY <1>4, <1>7, <1>8
    <3> QED BY <2>2, <3>1, <3>2 DEF Registered
  <2> QED BY <2>1, <2>2
<1>11. OldEndsDisabled'
  <2> SUFFICES ASSUME NEW e \in Made', e[2] # attached'[e[1]] PROVE ~enabled'[e]
    BY DEF OldEndsDisabled
  <2>1. CASE e \notin Made
    BY <1>5, <2>1
  <2>2. CASE e \in Made
    <3>1. e[1] \in Server /\ e[2] \in Nat
      BY <1>1, <2>2, MadeFacts DEF Made
    <3>2. e[2] # attached[e[1]]
      <4>1. CASE e[1] = i
        <5>1. e[2] # nil
          BY <3>1, TesterAssumption
        <5> QED BY <1>7, <4>1, <5>1
      <4>2. CASE e[1] # i
        BY <1>1, <1>4, <3>1, <4>2
      <4> QED BY <4>1, <4>2
    <3> QED BY <1>1, <1>5, <2>2, <3>2 DEF OldEndsDisabled
  <2> QED BY <2>1, <2>2
<1>12. Toggles'
  BY <1>1, <1>3, <1>5, <1>9, TogglesFrame
<1>13. Settles' /\ CutOff'
  <2>1. ASSUME NEW j \in Server, ServerOp("Copy", j) \in Ops'
        PROVE  ServerOp("Copy", j) \in Ops /\ incarnation'[j] = incarnation[j]
    <3>1. ServerOp("Copy", j) \in Ops
      BY <1>3, <2>1
    <3>2. j # i
      BY <1>6, <3>1
    <3> QED BY <1>1, <1>4, <3>1, <3>2
  <2> QED BY <1>1, <1>3, <1>5, <1>9, <2>1, EndsFrame
<1> QED BY <1>2, <1>7, <1>10, <1>11, <1>12, <1>13 DEF Tables

\* How the tables may change: ends stay; a persister is taken from an
\* instance and given to a newer one; a name is freed before it is used again.
TablesEvolve ==
  /\ Made \subseteq Made'
  /\ \A i \in Server :
       /\ incarnation[i] <= incarnation'[i]
       /\ attached'[i] \in {attached[i], nil, incarnation[i] + 1}
       /\ servers'[i] \in {servers[i], nil} \/ servers[i] = nil

\* What the first operation of a script is.
LEMMA HeadCases ==
  ASSUME NEW o \in EnableOps \cup ServerOps
  PROVE  /\ o.op = "Enable" => /\ o.end \in End
                               /\ \/ o = Toggle(o.end, TRUE) /\ o.on = TRUE
                                  \/ o = Toggle(o.end, FALSE) /\ o.on = FALSE
         /\ o.op # "Enable" => /\ o.op \in OpNames /\ o.server \in Server
                               /\ o = ServerOp(o.op, o.server)
<1>1. CASE o \in EnableOps
  <2>1. o.op = "Enable" /\ o.end \in End /\ o.on \in BOOLEAN
    BY <1>1 DEF EnableOps
  <2>2. o = Toggle(o.end, o.on)
    BY <1>1 DEF EnableOps, Toggle
  <2>3. CASE o.on = TRUE
    <3>1. o = Toggle(o.end, TRUE)
      BY <2>2, <2>3
    <3> QED BY <2>1, <2>3, <3>1
  <2>4. CASE o.on = FALSE
    <3>1. o = Toggle(o.end, FALSE)
      BY <2>2, <2>4
    <3> QED BY <2>1, <2>4, <3>1
  <2> QED BY <2>1, <2>3, <2>4
<1>2. CASE o \in ServerOps
  <2>1. o.op # "Enable" /\ o.op \in OpNames /\ o.server \in Server
    BY <1>2 DEF ServerOps, OpNames
  <2>2. o = ServerOp(o.op, o.server)
    BY <1>2 DEF ServerOps, ServerOp
  <2> QED BY <2>1, <2>2
<1> QED BY <1>1, <1>2

\* Every operation of a script keeps the tables.
LEMMA OperationTables ==
  ASSUME Types, Tables, Operation
  PROVE  TableTypes' /\ Tables' /\ TablesEvolve
<1>1. /\ incarnation \in [Server -> Nat] /\ attached \in [Server -> Nat \cup {nil}]
      /\ servers \in [Server -> Nat \cup {nil}] /\ connected \in [Server -> BOOLEAN]
      /\ reliable \in BOOLEAN /\ done \in BOOLEAN /\ enabled \in [Made -> BOOLEAN]
      /\ connections = [e \in Made |-> e[3]]
  BY DEF Types, TableTypes
<1>2. /\ Head(script) \in EnableOps \cup ServerOps
      /\ script' \in Seq(EnableOps \cup ServerOps)
  BY HeadFacts
<1>3. done' = done /\ connected' = connected
  BY DEF Operation
<1> DEFINE o == Head(script)
<1>4. CASE o.op = "Enable" /\ Enable(o.end, o.on) /\ UNCHANGED <<incarnation, attached>>
  <2>1. Tables' /\ Made' = Made /\ enabled' \in [Made -> BOOLEAN]
    <3>1. /\ o.end \in End
          /\ \/ o = Toggle(o.end, TRUE) /\ o.on = TRUE
             \/ o = Toggle(o.end, FALSE) /\ o.on = FALSE
      BY <1>2, <1>4, HeadCases
    <3>2. CASE o = Toggle(o.end, TRUE) /\ o.on = TRUE
      <4>1. Enable(o.end, TRUE)
        BY <1>4, <3>2
      <4> QED BY <1>3, <1>4, <3>1, <3>2, <4>1, EnableTables
    <3>3. CASE o = Toggle(o.end, FALSE) /\ o.on = FALSE
      <4>1. Enable(o.end, FALSE)
        BY <1>4, <3>3
      <4> QED BY <1>3, <1>4, <3>1, <3>3, <4>1, DisableTables
    <3> QED BY <3>1, <3>2, <3>3
  <2>2. connections' = connections /\ servers' = servers /\ reliable' = reliable
    BY <1>4 DEF Enable
  <2>3. TableTypes'
    BY <1>1, <1>2, <1>3, <1>4, <2>1, <2>2 DEF TableTypes
  <2>4. TablesEvolve
    BY <1>1, <1>4, <2>1, <2>2 DEF TablesEvolve
  <2> QED BY <2>1, <2>3, <2>4
<1>5. CASE o.op = "DeleteServer" /\ SetServer(o.server, nil) /\ UNCHANGED <<incarnation, attached>>
  <2>1. o.server \in Server /\ o = ServerOp("DeleteServer", o.server)
    BY <1>2, <1>5, HeadCases
  <2>2. Tables' /\ Made' = Made
    BY <1>3, <1>5, <2>1, DeleteTables
  <2>3. /\ servers' = [servers EXCEPT ![o.server] = nil]
        /\ connections' = connections /\ enabled' = enabled /\ reliable' = reliable
    BY <1>5 DEF SetServer
  <2>4. TableTypes'
    BY <1>1, <1>2, <1>3, <1>5, <2>1, <2>2, <2>3 DEF TableTypes
  <2>5. TablesEvolve
    BY <1>1, <1>5, <2>1, <2>2, <2>3 DEF TablesEvolve
  <2> QED BY <2>2, <2>4, <2>5
<1>6. CASE o.op = "Copy" /\ Copy(o.server) /\ UNCHANGED <<tableVars, incarnation>>
  <2>1. o.server \in Server /\ o = ServerOp("Copy", o.server)
    BY <1>2, <1>6, HeadCases
  <2>2. Tables' /\ Made' = Made
    BY <1>3, <1>6, <2>1, CopyTables
  <2>3. /\ attached' = [attached EXCEPT ![o.server] = nil] /\ servers' = servers
        /\ connections' = connections /\ enabled' = enabled /\ reliable' = reliable
    BY <1>6 DEF Copy, tableVars
  <2>4. TableTypes'
    BY <1>1, <1>2, <1>3, <1>6, <2>1, <2>2, <2>3 DEF TableTypes
  <2>5. TablesEvolve
    BY <1>1, <1>6, <2>1, <2>2, <2>3 DEF TablesEvolve
  <2> QED BY <2>2, <2>4, <2>5
<1>7. CASE o.op = "Make" /\ Make(o.server)
  <2>1. o.server \in Server /\ o = ServerOp("Make", o.server)
    BY <1>2, <1>7, HeadCases
  <2>2. Tables'
    BY <1>3, <1>7, <2>1, MakeTables
  <2>3. /\ Made \subseteq Made'
        /\ enabled' \in [Made' -> BOOLEAN] /\ connections' = [e \in Made' |-> e[3]]
    BY <1>7, <2>1, NewEnds
  <2>4. /\ incarnation' = [incarnation EXCEPT ![o.server] = incarnation[o.server] + 1]
        /\ attached' = [attached EXCEPT ![o.server] = incarnation[o.server] + 1]
        /\ servers' = servers /\ reliable' = reliable
    BY <1>7 DEF Make, MakeEnds
  <2>5. TableTypes'
    BY <1>1, <1>2, <1>3, <2>1, <2>3, <2>4 DEF TableTypes
  <2>6. TablesEvolve
    BY <1>1, <2>1, <2>3, <2>4 DEF TablesEvolve
  <2> QED BY <2>2, <2>5, <2>6
<1>8. CASE o.op = "AddServer" /\ SetServer(o.server, incarnation[o.server])
             /\ UNCHANGED <<incarnation, attached>>
  <2>1. o.server \in Server /\ o = ServerOp("AddServer", o.server)
    BY <1>2, <1>8, HeadCases
  <2>2. Tables' /\ Made' = Made /\ servers[o.server] = nil
    BY <1>3, <1>8, <2>1, AddTables
  <2>3. /\ servers' = [servers EXCEPT ![o.server] = incarnation[o.server]]
        /\ connections' = connections /\ enabled' = enabled /\ reliable' = reliable
    BY <1>8 DEF SetServer
  <2>4. TableTypes'
    BY <1>1, <1>2, <1>3, <1>8, <2>1, <2>2, <2>3 DEF TableTypes
  <2>5. TablesEvolve
    BY <1>1, <1>8, <2>1, <2>2, <2>3 DEF TablesEvolve
  <2> QED BY <2>2, <2>4, <2>5
<1> QED BY <1>4, <1>5, <1>6, <1>7, <1>8 DEF Operation

----------------------------------------------------------------------------
(* The commands keep the tables.                                           *)

AllOps == EnableOps \cup ServerOps

\* The operations of setEnable, in any order.
LEMMA SetEnableFacts ==
  ASSUME NEW E \in SUBSET End, IsFiniteSet(E), NEW on \in BOOLEAN
  PROVE  /\ setEnable(E, on) \in Seq(AllOps)
         /\ ToSet(setEnable(E, on)) = {Toggle(e, on) : e \in E}
         /\ IsOrdered(setEnable(E, on))
<1> DEFINE T == {Toggle(e, on) : e \in E}
           s == SetToSeq(T)
<1>1. setEnable(E, on) = s
  BY Zenon DEF setEnable, Toggle
<1>2. IsFiniteSet(T)
  <2> DEFINE f == [e \in E |-> Toggle(e, on)]
  <2>1. f \in Surjection(E, T)
    BY DEF Surjection
  <2> QED BY <2>1, FS_Surjection
<1>3. s \in Seq(T) /\ ToSet(s) = T
  BY <1>2, SetToSeqFacts
<1>4. T \subseteq EnableOps
  <2> SUFFICES ASSUME NEW e \in E PROVE Toggle(e, on) \in EnableOps
    OBVIOUS
  <2> QED BY DEF Toggle, EnableOps
<1>5. \A e, f : Rank(Toggle(e, on)) = Rank(Toggle(f, on))
  <2>1. CASE on = TRUE
    BY <2>1, Ranks
  <2>2. CASE on = FALSE
    BY <2>2, Ranks
  <2> QED BY <2>1, <2>2
<1>6. \A o, p \in T : MayPrecede(o, p)
  BY <1>4, <1>5 DEF MayPrecede
<1> HIDE DEF T
<1>7. \A n \in DOMAIN s : s[n] \in T
  BY <1>3 DEF ToSet
<1> HIDE DEF s
<1>8. IsOrdered(s)
  BY <1>6, <1>7 DEF IsOrdered
<1>9. s \in Seq(AllOps)
  BY <1>3, <1>4 DEF AllOps
<1> QED BY <1>1, <1>3, <1>8, <1>9 DEF T

\* One operation on a server after others.
LEMMA DoFacts ==
  ASSUME NEW s \in Seq(AllOps), IsOrdered(s), NEW x \in OpNames, NEW i \in Server,
         \A o \in ToSet(s) : MayPrecede(o, ServerOp(x, i))
  PROVE  /\ s \o do(x, i) \in Seq(AllOps)
         /\ ToSet(s \o do(x, i)) = ToSet(s) \cup {ServerOp(x, i)}
         /\ IsOrdered(s \o do(x, i))
<1> DEFINE o == ServerOp(x, i)
           t == do(x, i)
<1>1. o \in AllOps
  BY DEF ServerOp, AllOps, ServerOps, OpNames
<1>2. t = <<o>>
  BY DEF do, ServerOp
<1> HIDE DEF o, t
<1>3. t \in Seq(AllOps) /\ DOMAIN t = {1} /\ t[1] = o
  BY <1>1, <1>2
<1>4. ToSet(t) = {o}
  BY <1>3 DEF ToSet
<1>5. IsOrdered(t)
  BY <1>3 DEF IsOrdered
<1>6. s \o t \in Seq(AllOps) /\ ToSet(s \o t) = ToSet(s) \cup ToSet(t)
  BY <1>3, ToSetConcat
<1>7. \A p \in ToSet(s), q \in ToSet(t) : MayPrecede(p, q)
  BY <1>4 DEF o
<1>8. IsOrdered(s \o t)
  BY <1>3, <1>5, <1>7, OrderedConcat
<1> QED BY <1>4, <1>6, <1>8 DEF o, t

\* The ends that disconnect disables.
Cuts(i) == (outgoing(i) \cup incoming(i)) \cap Made

\* outgoing and incoming are finite sets of ends.
LEMMA EndsOfServer ==
  ASSUME incarnation \in [Server -> Nat], NEW i \in Server
  PROVE  /\ IsFiniteSet(outgoing(i)) /\ outgoing(i) \in SUBSET End
         /\ IsFiniteSet(incoming(i)) /\ incoming(i) \in SUBSET End
         /\ \A e \in outgoing(i) : e[1] = i /\ e[3] # i
         /\ \A e \in incoming(i) : e[3] = i /\ e[1] # i
<1>1. IsFiniteSet(others(i)) /\ others(i) \subseteq Server
  BY TesterAssumption, FS_Difference DEF others
<1>2. IsFiniteSet(outgoing(i))
  <2> DEFINE f == [j \in others(i) |-> endname(i, incarnation[i], j)]
  <2>1. f \in Surjection(others(i), outgoing(i))
    BY DEF Surjection, outgoing
  <2> QED BY <1>1, <2>1, FS_Surjection
<1>3. IsFiniteSet(incoming(i))
  <2> DEFINE f == [j \in others(i) |-> endname(j, incarnation[j], i)]
  <2>1. f \in Surjection(others(i), incoming(i))
    BY DEF Surjection, incoming
  <2> QED BY <1>1, <2>1, FS_Surjection
<1>4. outgoing(i) \in SUBSET End /\ \A e \in outgoing(i) : e[1] = i /\ e[3] # i
  <2> SUFFICES ASSUME NEW j \in others(i)
               PROVE  /\ endname(i, incarnation[i], j) \in End
                      /\ endname(i, incarnation[i], j)[1] = i /\ endname(i, incarnation[i], j)[3] # i
    BY DEF outgoing
  <2> QED BY DEF endname, End, others
<1>5. incoming(i) \in SUBSET End /\ \A e \in incoming(i) : e[3] = i /\ e[1] # i
  <2> SUFFICES ASSUME NEW j \in others(i)
               PROVE  /\ endname(j, incarnation[j], i) \in End
                      /\ endname(j, incarnation[j], i)[3] = i /\ endname(j, incarnation[j], i)[1] # i
    BY DEF incoming
  <2> QED BY DEF endname, End, others
<1> QED BY <1>2, <1>3, <1>4, <1>5

\* The operations of disconnect.
LEMMA DisableFacts ==
  ASSUME Types, NEW i \in Server
  PROVE  /\ disable(i) \in Seq(AllOps)
         /\ ToSet(disable(i)) = {Toggle(e, FALSE) : e \in Cuts(i)}
         /\ IsOrdered(disable(i))
<1>1. incarnation \in [Server -> Nat] /\ DOMAIN enabled = Made
  BY DEF Types, TableTypes
<1> DEFINE A == outgoing(i) \cap Made
           B == incoming(i) \cap Made
           s == setEnable(A, FALSE)
           t == setEnable(B, FALSE)
<1>2. disable(i) = s \o t
  BY <1>1, Zenon DEF disable
<1>3. IsFiniteSet(A) /\ A \in SUBSET End /\ IsFiniteSet(B) /\ B \in SUBSET End
  BY <1>1, EndsOfServer, FS_Intersection
<1> HIDE DEF A, B
<1>4. s \in Seq(AllOps) /\ ToSet(s) = {Toggle(e, FALSE) : e \in A} /\ IsOrdered(s)
  BY <1>3, SetEnableFacts
<1>5. t \in Seq(AllOps) /\ ToSet(t) = {Toggle(e, FALSE) : e \in B} /\ IsOrdered(t)
  BY <1>3, SetEnableFacts
<1> HIDE DEF s, t
<1>6. \A o \in ToSet(s), p \in ToSet(t) : MayPrecede(o, p)
  <2> SUFFICES ASSUME NEW e \in A, NEW f \in B PROVE MayPrecede(Toggle(e, FALSE), Toggle(f, FALSE))
    BY <1>4, <1>5
  <2>1. Toggle(e, FALSE) \in EnableOps /\ Toggle(f, FALSE) \in EnableOps
    BY <1>3 DEF Toggle, EnableOps
  <2>2. Rank(Toggle(e, FALSE)) = Rank(Toggle(f, FALSE))
    BY Ranks
  <2> QED BY <2>1, <2>2 DEF MayPrecede
<1>7. s \o t \in Seq(AllOps) /\ ToSet(s \o t) = ToSet(s) \cup ToSet(t)
  BY <1>4, <1>5, ToSetConcat
<1>8. IsOrdered(s \o t)
  BY <1>4, <1>5, <1>6, OrderedConcat
<1>9. ToSet(s) \cup ToSet(t) = {Toggle(e, FALSE) : e \in Cuts(i)}
  <2>1. Cuts(i) = A \cup B
    BY DEF Cuts, A, B
  <2> QED BY <1>4, <1>5, <2>1
<1> QED BY <1>2, <1>7, <1>8, <1>9

\* The operations of crash1.
LEMMA CrashFacts ==
  ASSUME Types, NEW i \in Server
  PROVE  /\ crash(i) \in Seq(AllOps)
         /\ ToSet(crash(i)) = {Toggle(e, FALSE) : e \in Cuts(i)}
                                \cup {ServerOp(x, i) : x \in {"DeleteServer", "Copy"}}
         /\ IsOrdered(crash(i))
<1> DEFINE s == disable(i)
           t == s \o do("DeleteServer", i)
<1>1. s \in Seq(AllOps) /\ ToSet(s) = {Toggle(e, FALSE) : e \in Cuts(i)} /\ IsOrdered(s)
  BY DisableFacts
<1>2. \A o \in ToSet(s) : Rank(o) = 0
  BY <1>1, Ranks
<1>3. Rank(ServerOp("DeleteServer", i)) = 1 /\ Rank(ServerOp("Copy", i)) = 2
  BY Ranks
<1> HIDE DEF s
<1>4. \A o \in ToSet(s) : MayPrecede(o, ServerOp("DeleteServer", i))
  BY <1>2, <1>3 DEF MayPrecede
<1>5. /\ t \in Seq(AllOps) /\ IsOrdered(t)
      /\ ToSet(t) = ToSet(s) \cup {ServerOp("DeleteServer", i)}
  BY <1>1, <1>4, DoFacts DEF OpNames
<1> HIDE DEF t
<1>6. \A o \in ToSet(t) : Rank(o) \in 0 .. 1
  BY <1>2, <1>3, <1>5
<1>7. \A o \in ToSet(t) : MayPrecede(o, ServerOp("Copy", i))
  BY <1>3, <1>6 DEF MayPrecede
<1>8. /\ t \o do("Copy", i) \in Seq(AllOps) /\ IsOrdered(t \o do("Copy", i))
      /\ ToSet(t \o do("Copy", i)) = ToSet(t) \cup {ServerOp("Copy", i)}
  BY <1>5, <1>7, DoFacts DEF OpNames
<1>9. crash(i) = t \o do("Copy", i)
  BY DEF crash, t, s
<1>10. {ServerOp(x, i) : x \in {"DeleteServer", "Copy"}} =
         {ServerOp("DeleteServer", i)} \cup {ServerOp("Copy", i)}
  OBVIOUS
<1> QED BY <1>1, <1>5, <1>8, <1>9, <1>10

\* The operations of start1.
LEMMA StartFacts ==
  ASSUME Types, NEW i \in Server
  PROVE  /\ start(i) \in Seq(AllOps)
         /\ ToSet(start(i)) = {Toggle(e, FALSE) : e \in Cuts(i)} \cup {ServerOp(x, i) : x \in OpNames}
         /\ IsOrdered(start(i))
<1> DEFINE s == crash(i)
           t == s \o do("Make", i)
<1>1. /\ s \in Seq(AllOps) /\ IsOrdered(s)
      /\ ToSet(s) = {Toggle(e, FALSE) : e \in Cuts(i)}
                      \cup {ServerOp(x, i) : x \in {"DeleteServer", "Copy"}}
  BY CrashFacts
<1>2. \A o \in ToSet(s) : Rank(o) \in 0 .. 2
  <2>1. ASSUME NEW e PROVE Rank(Toggle(e, FALSE)) \in 0 .. 2
    <3>1. Rank(Toggle(e, FALSE)) = 0
      BY Ranks, Zenon
    <3>2. 0 \in 0 .. 2
      OBVIOUS
    <3> QED BY <3>1, <3>2, Zenon
  <2>2. \A x \in {"DeleteServer", "Copy"} : Rank(ServerOp(x, i)) \in 0 .. 2
    BY Ranks
  <2> HIDE DEF s
  <2> QED BY <1>1, <2>1, <2>2
<1>3. Rank(ServerOp("Make", i)) = 3 /\ Rank(ServerOp("AddServer", i)) = 4
  BY Ranks
<1> HIDE DEF s
<1>4. \A o \in ToSet(s) : MayPrecede(o, ServerOp("Make", i))
  BY <1>2, <1>3 DEF MayPrecede
<1>5. /\ t \in Seq(AllOps) /\ IsOrdered(t)
      /\ ToSet(t) = ToSet(s) \cup {ServerOp("Make", i)}
  BY <1>1, <1>4, DoFacts DEF OpNames
<1> HIDE DEF t
<1>6. \A o \in ToSet(t) : Rank(o) \in 0 .. 3
  BY <1>2, <1>3, <1>5
<1>7. \A o \in ToSet(t) : MayPrecede(o, ServerOp("AddServer", i))
  BY <1>3, <1>6 DEF MayPrecede
<1>8. /\ t \o do("AddServer", i) \in Seq(AllOps) /\ IsOrdered(t \o do("AddServer", i))
      /\ ToSet(t \o do("AddServer", i)) = ToSet(t) \cup {ServerOp("AddServer", i)}
  BY <1>5, <1>7, DoFacts DEF OpNames
<1>9. start(i) = t \o do("AddServer", i)
  BY DEF start, t, s
<1>10. {ServerOp(x, i) : x \in OpNames} =
         {ServerOp(x, i) : x \in {"DeleteServer", "Copy"}}
           \cup {ServerOp("Make", i)} \cup {ServerOp("AddServer", i)}
  BY DEF OpNames
<1> QED BY <1>1, <1>5, <1>8, <1>9, <1>10

\* Between two commands nothing is left to do.
LEMMA Between ==
  ASSUME Types, Tables, script = <<>>
  PROVE  /\ Ops = {} /\ next = incarnation
         /\ \A i \in Server : incarnation[i] > 0
         /\ \A i \in Server : connected[i] => attached[i] # nil
         /\ \A i \in Server : \A j \in others(i) :
              LET e == endname(i, incarnation[i], j)
              IN  e \in Made /\ (enabled[e] <=> connected[i] /\ connected[j])
<1>1. incarnation \in [Server -> Nat] /\ enabled \in [Made -> BOOLEAN]
  BY DEF Types, TableTypes
<1>2. Ops = {}
  BY DEF Ops, ToSet
<1>3. next = incarnation
  BY <1>1, <1>2 DEF next
<1>4. ASSUME NEW i \in Server
      PROVE  incarnation[i] > 0 /\ (connected[i] => attached[i] # nil)
  <2>1. Registered(i)
    BY DEF Tables
  <2> QED BY <1>1, <1>2, <2>1 DEF Registered
<1>5. ASSUME NEW i \in Server, NEW j \in others(i)
      PROVE  LET e == endname(i, incarnation[i], j)
             IN  e \in Made /\ (enabled[e] <=> connected[i] /\ connected[j])
  <2> DEFINE e == endname(i, incarnation[i], j)
  <2>1. e \in Made
    BY <1>1, <1>4, MadeFacts DEF Made
  <2>2. IF connected[i] /\ connected[j]
          THEN Toggle(e, TRUE) \in Ops \/ (e \in Made /\ enabled[e])
          ELSE e \in Made => ~enabled[e] \/ Toggle(e, FALSE) \in Ops
    BY <1>3 DEF Tables, Settles
  <2> HIDE DEF e
  <2>3. e \in Made /\ (enabled[e] <=> connected[i] /\ connected[j])
    BY <1>2, <2>1, <2>2
  <2> QED BY <2>3 DEF e
<1> QED BY <1>2, <1>3, <1>4, <1>5

\* What the operations of such a command are: X on the server.
IsCut(i, X, S) ==
  \A p : p \in S <=> \/ \E e \in Cuts(i) : p = Toggle(e, FALSE)
                     \/ \E x \in X : p = ServerOp(x, i)

\* Which operations such a command has, and which not.
LEMMA CutOps ==
  ASSUME NEW i \in Server, NEW X \in SUBSET OpNames, NEW S, IsCut(i, X, S)
  PROVE  /\ \A e \in Cuts(i) : Toggle(e, FALSE) \in S
         /\ \A x \in X : ServerOp(x, i) \in S
         /\ \A x, j : ServerOp(x, j) \in S => x \in X /\ j = i
         /\ \A p \in S : p.op = "Enable" => \E e \in Cuts(i) : p.end = e /\ p.on = FALSE
<1>1. /\ \A e \in Cuts(i) : Toggle(e, FALSE) \in S
      /\ \A x \in X : ServerOp(x, i) \in S
  BY DEF IsCut
<1>2. ASSUME NEW x, NEW j, ServerOp(x, j) \in S PROVE x \in X /\ j = i
  <2>1. \A e : ServerOp(x, j) # Toggle(e, FALSE)
    BY Different
  <2>2. PICK y \in X : ServerOp(x, j) = ServerOp(y, i)
    BY <1>2, <2>1 DEF IsCut
  <2>3. x = y /\ j = i
    BY <2>2, Different
  <2> QED BY <2>3
<1>3. ASSUME NEW p \in S, p.op = "Enable" PROVE \E e \in Cuts(i) : p.end = e /\ p.on = FALSE
  <2>1. \A x : ServerOp(x, i).op = x
    BY DEF ServerOp
  <2>2. "Enable" \notin X
    BY DEF OpNames
  <2>3. PICK e \in Cuts(i) : p = Toggle(e, FALSE)
    BY <1>3, <2>1, <2>2 DEF IsCut
  <2>4. p.end = e /\ p.on = FALSE
    BY <2>3 DEF Toggle
  <2> QED BY <2>4
<1> QED BY <1>1, <1>2, <1>3

\* A command that disconnects a server, whatever follows on the server.
LEMMA CutTables ==
  ASSUME Types, Tables, script = <<>>, NEW i \in Server,
         NEW X \in {{}, {"DeleteServer", "Copy"}, OpNames},
         \A e \in Cuts(i) : Toggle(e, FALSE) \in Ops',
         \A x \in X : ServerOp(x, i) \in Ops',
         \A x, j : ServerOp(x, j) \in Ops' => x \in X /\ j = i,
         \A p \in Ops' : p.op = "Enable" => \E e \in Cuts(i) : p.end = e /\ p.on = FALSE,
         IsOrdered(script'), connected' = [connected EXCEPT ![i] = FALSE],
         UNCHANGED <<enabled, servers, incarnation, attached>>
  PROVE  Tables'
<1>1. /\ incarnation \in [Server -> Nat] /\ enabled \in [Made -> BOOLEAN]
      /\ connected \in [Server -> BOOLEAN] /\ OldEndsDisabled /\ \A j \in Server : Registered(j)
  BY DEF Types, TableTypes, Tables
<1>2. /\ Ops = {} /\ next = incarnation
      /\ \A j \in Server : incarnation[j] > 0
      /\ \A j \in Server : connected[j] => attached[j] # nil
      /\ \A j \in Server : \A k \in others(j) :
           LET e == endname(j, incarnation[j], k)
           IN  e \in Made /\ (enabled[e] <=> connected[j] /\ connected[k])
  BY Between
<1>4. Made' = Made
  BY DEF Made
<1>5. /\ \A j \in Server : j # i => next'[j] = incarnation[j]
      /\ next'[i] \in {incarnation[i], incarnation[i] + 1}
  BY DEF next
<1>6. ~connected'[i] /\ \A j \in Server : j # i => connected'[j] = connected[j]
  BY <1>1
<1>7. \A e \in Cuts(i) : e \in Made /\ (e[1] = i \/ e[3] = i)
  BY <1>1, EndsOfServer DEF Cuts
<1>8. ASSUME NEW j \in Server PROVE Registered(j)'
  <2>1. CASE j # i
    <3>1. \A x : ServerOp(x, j) \notin Ops' /\ ServerOp(x, j) \notin Ops
      BY <1>2, <2>1
    <3>2. \A x \in OpNames : ServerOp(x, j) \in Ops' <=> ServerOp(x, j) \in Ops
      BY <3>1
    <3>3. connected'[j] = connected[j]
      BY <1>6, <2>1
    <3> QED BY <1>1, <3>2, <3>3, RegisteredFrame
  <2>2. CASE j = i
    <3>1. /\ servers'[i] # nil => servers'[i] = attached'[i]
          /\ attached'[i] # nil => attached'[i] = incarnation'[i] /\ incarnation'[i] > 0
          /\ incarnation'[i] # 0
      BY <1>1, <1>2 DEF Registered
    <3>2. \A x : ServerOp(x, i) \in Ops' <=> x \in X
      OBVIOUS
    <3>3. CASE X = {}
      BY <1>6, <2>2, <3>1, <3>2, <3>3 DEF Registered
    <3>4. CASE X = {"DeleteServer", "Copy"}
      BY <1>6, <2>2, <3>1, <3>2, <3>4 DEF Registered
    <3>5. CASE X = OpNames
      BY <1>6, <2>2, <3>1, <3>2, <3>5 DEF Registered, OpNames
    <3> QED BY <3>3, <3>4, <3>5
  <2> QED BY <2>1, <2>2
<1>9. OldEndsDisabled'
  BY <1>1, <1>4 DEF OldEndsDisabled
<1>10. Toggles'
  <2> SUFFICES ASSUME NEW p \in Ops', p.op = "Enable"
               PROVE  LET f == p.end
                          both == connected'[f[1]] /\ connected'[f[3]]
                      IN  IF p.on
                            THEN f[1] # f[3] /\ f[2] = next'[f[1]] /\ both
                            ELSE f \in Made' /\ ~both
    BY DEF Toggles
  <2>1. PICK e \in Cuts(i) : p.end = e /\ p.on = FALSE
    OBVIOUS
  <2>2. e \in Made /\ ~(connected'[e[1]] /\ connected'[e[3]])
    BY <1>6, <1>7
  <2> QED BY <1>4, <2>1, <2>2
<1>11. ASSUME NEW j \in Server, NEW k \in others(j), j = i \/ k = i,
              endname(j, incarnation[j], k) \in Made
       PROVE  endname(j, incarnation[j], k) \in Cuts(i)
  <2>1. CASE j = i
    <3>1. endname(j, incarnation[j], k) \in outgoing(i)
      BY <2>1 DEF outgoing
    <3> QED BY <1>11, <3>1 DEF Cuts
  <2>2. CASE k = i
    <3>1. j \in others(i)
      BY <2>2 DEF others
    <3>2. endname(j, incarnation[j], k) \in incoming(i)
      BY <2>2, <3>1 DEF incoming
    <3> QED BY <1>11, <3>2 DEF Cuts
  <2> QED BY <1>11, <2>1, <2>2
<1>12. Settles'
  <2> SUFFICES ASSUME NEW j \in Server, NEW k \in others(j)
               PROVE  LET f == endname(j, next'[j], k)
                      IN  IF connected'[j] /\ connected'[k]
                            THEN Toggle(f, TRUE) \in Ops' \/ (f \in Made' /\ enabled'[f])
                            ELSE f \in Made' => ~enabled'[f] \/ Toggle(f, FALSE) \in Ops'
    BY DEF Settles
  <2>0. k \in Server /\ k # j
    BY DEF others
  <2>1. CASE next'[j] = incarnation[j]
    <3> DEFINE f == endname(j, incarnation[j], k)
    <3>1. f \in Made /\ (enabled[f] <=> connected[j] /\ connected[k])
      BY <1>2
    <3>2. CASE j = i \/ k = i
      <4>1. Toggle(f, FALSE) \in Ops' /\ ~(connected'[j] /\ connected'[k])
        BY <1>6, <1>11, <3>1, <3>2
      <4> HIDE DEF f
      <4> QED BY <2>1, <4>1 DEF f
    <3>3. CASE j # i /\ k # i
      <4>1. connected'[j] = connected[j] /\ connected'[k] = connected[k] /\ enabled' = enabled
        BY <1>6, <2>0, <3>3
      <4> HIDE DEF f
      <4>2. IF connected'[j] /\ connected'[k]
              THEN f \in Made' /\ enabled'[f]
              ELSE ~enabled'[f]
        BY <1>4, <3>1, <4>1
      <4> QED BY <2>1, <4>2 DEF f
    <3> QED BY <3>2, <3>3
  <2>2. CASE next'[j] # incarnation[j]
    <3>1. j = i /\ next'[j] = incarnation[j] + 1
      BY <1>5, <2>2
    <3>2. endname(j, next'[j], k) \notin Made
      <4>1. next'[j] \in Nat /\ next'[j] \notin 1 .. incarnation[j]
        BY <1>1, <3>1
      <4> QED BY <1>1, <4>1, MadeFacts DEF Made
    <3>3. ~connected'[j]
      BY <1>6, <3>1
    <3> QED BY <1>4, <3>2, <3>3
  <2> QED BY <2>1, <2>2
<1>13. CutOff'
  <2> SUFFICES ASSUME NEW j \in Server, NEW k \in others(j), ServerOp("Copy", j) \in Ops',
                      endname(j, incarnation[j], k) \in Made
               PROVE  Toggle(endname(j, incarnation[j], k), FALSE) \in Ops'
    BY <1>4 DEF CutOff
  <2>1. j = i
    OBVIOUS
  <2> QED BY <1>11, <2>1
<1> QED BY <1>8, <1>9, <1>10, <1>12, <1>13 DEF Tables

\* The ends that connect enables.
Joins(i) ==
  LET on == {j \in others(i) : connected[j]}
  IN  {endname(i, incarnation[i], j) : j \in on} \cup {endname(j, incarnation[j], i) : j \in on}

\* The operations of connect.
LEMMA EnableFacts ==
  ASSUME Types, NEW i \in Server
  PROVE  /\ enable(i) \in Seq(AllOps)
         /\ ToSet(enable(i)) = {Toggle(e, TRUE) : e \in Joins(i)}
         /\ IsOrdered(enable(i))
<1>1. incarnation \in [Server -> Nat]
  BY DEF Types, TableTypes
<1> DEFINE on == {j \in others(i) : connected[j]}
           A == {endname(i, incarnation[i], j) : j \in on}
           B == {endname(j, incarnation[j], i) : j \in on}
           s == setEnable(A, TRUE)
           t == setEnable(B, TRUE)
<1>2. enable(i) = s \o t
  BY Zenon DEF enable
<1>3. A \subseteq outgoing(i) /\ B \subseteq incoming(i)
  BY DEF outgoing, incoming
<1>4. IsFiniteSet(A) /\ A \in SUBSET End /\ IsFiniteSet(B) /\ B \in SUBSET End
  <2>1. /\ IsFiniteSet(outgoing(i)) /\ outgoing(i) \in SUBSET End
        /\ IsFiniteSet(incoming(i)) /\ incoming(i) \in SUBSET End
    BY <1>1, EndsOfServer
  <2> HIDE DEF A, B
  <2> QED BY <1>3, <2>1, FS_Subset
<1>5. Joins(i) = A \cup B
  BY Zenon DEF Joins
<1> HIDE DEF A, B
<1>6. s \in Seq(AllOps) /\ ToSet(s) = {Toggle(e, TRUE) : e \in A} /\ IsOrdered(s)
  BY <1>4, SetEnableFacts
<1>7. t \in Seq(AllOps) /\ ToSet(t) = {Toggle(e, TRUE) : e \in B} /\ IsOrdered(t)
  BY <1>4, SetEnableFacts
<1> HIDE DEF s, t
<1>8. \A o \in ToSet(s), p \in ToSet(t) : MayPrecede(o, p)
  <2> SUFFICES ASSUME NEW e \in A, NEW f \in B PROVE MayPrecede(Toggle(e, TRUE), Toggle(f, TRUE))
    BY <1>6, <1>7
  <2>1. Toggle(e, TRUE) \in EnableOps /\ Toggle(f, TRUE) \in EnableOps
    BY <1>4 DEF Toggle, EnableOps
  <2>2. Rank(Toggle(e, TRUE)) = Rank(Toggle(f, TRUE))
    BY Ranks
  <2> QED BY <2>1, <2>2 DEF MayPrecede
<1>9. s \o t \in Seq(AllOps) /\ ToSet(s \o t) = ToSet(s) \cup ToSet(t)
  BY <1>6, <1>7, ToSetConcat
<1>10. IsOrdered(s \o t)
  BY <1>6, <1>7, <1>8, OrderedConcat
<1>11. ToSet(s) \cup ToSet(t) = {Toggle(e, TRUE) : e \in Joins(i)}
  BY <1>5, <1>6, <1>7
<1> QED BY <1>2, <1>9, <1>10, <1>11

\* What the operations of connect are.
LEMMA JoinOps ==
  ASSUME NEW i \in Server, NEW S, S = {Toggle(e, TRUE) : e \in Joins(i)}
  PROVE  /\ \A e \in Joins(i) : Toggle(e, TRUE) \in S
         /\ \A x, j : ServerOp(x, j) \notin S
         /\ \A p \in S : \E e \in Joins(i) : p.end = e /\ p.on = TRUE
<1>1. ASSUME NEW x, NEW j, ServerOp(x, j) \in S PROVE FALSE
  <2>1. \A e : ServerOp(x, j) # Toggle(e, TRUE)
    BY Different
  <2> QED BY <1>1, <2>1
<1>2. ASSUME NEW p \in S PROVE \E e \in Joins(i) : p.end = e /\ p.on = TRUE
  <2>1. PICK e \in Joins(i) : p = Toggle(e, TRUE)
    OBVIOUS
  <2>2. p.end = e /\ p.on = TRUE
    BY <2>1 DEF Toggle
  <2> QED BY <2>2
<1>3. \A e \in Joins(i) : Toggle(e, TRUE) \in S
  OBVIOUS
<1> QED BY <1>1, <1>2, <1>3

\* connect.
LEMMA JoinTables ==
  ASSUME Types, Tables, script = <<>>, NEW i \in Server, attached[i] # nil,
         \A e \in Joins(i) : Toggle(e, TRUE) \in Ops',
         \A x, j : ServerOp(x, j) \notin Ops',
         \A p \in Ops' : \E e \in Joins(i) : p.end = e /\ p.on = TRUE,
         IsOrdered(script'), connected' = [connected EXCEPT ![i] = TRUE],
         UNCHANGED <<enabled, servers, incarnation, attached>>
  PROVE  Tables'
<1>1. /\ incarnation \in [Server -> Nat] /\ enabled \in [Made -> BOOLEAN]
      /\ connected \in [Server -> BOOLEAN] /\ OldEndsDisabled /\ \A j \in Server : Registered(j)
  BY DEF Types, TableTypes, Tables
<1>2. /\ Ops = {} /\ next = incarnation
      /\ \A j \in Server : \A k \in others(j) :
           LET e == endname(j, incarnation[j], k)
           IN  e \in Made /\ (enabled[e] <=> connected[j] /\ connected[k])
  BY Between
<1>3. Made' = Made
  BY DEF Made
<1>4. next' = incarnation
  BY <1>1 DEF next
<1>5. connected'[i] /\ \A j \in Server : j # i => connected'[j] = connected[j]
  BY <1>1
<1>6. \A e \in Joins(i) :
        /\ e[1] # e[3] /\ e[2] = incarnation[e[1]] /\ connected'[e[1]] /\ connected'[e[3]]
  <2>1. ASSUME NEW j \in others(i), connected[j]
        PROVE  connected'[j] /\ connected'[i] /\ j # i
    BY <1>5, <2>1 DEF others
  <2>2. \A j : /\ endname(i, incarnation[i], j)[1] = i /\ endname(i, incarnation[i], j)[3] = j
               /\ endname(i, incarnation[i], j)[2] = incarnation[i]
               /\ endname(j, incarnation[j], i)[1] = j /\ endname(j, incarnation[j], i)[3] = i
               /\ endname(j, incarnation[j], i)[2] = incarnation[j]
    BY DEF endname
  <2>3. ASSUME NEW e \in Joins(i)
        PROVE  \E j \in others(i) :
                 connected[j] /\ e \in {endname(i, incarnation[i], j), endname(j, incarnation[j], i)}
    BY <2>3 DEF Joins
  <2> SUFFICES ASSUME NEW e \in Joins(i)
               PROVE  e[1] # e[3] /\ e[2] = incarnation[e[1]] /\ connected'[e[1]] /\ connected'[e[3]]
    OBVIOUS
  <2>4. PICK j \in others(i) :
          connected[j] /\ e \in {endname(i, incarnation[i], j), endname(j, incarnation[j], i)}
    BY <2>3
  <2>5. connected'[j] /\ connected'[i] /\ j # i
    BY <2>1, <2>4
  <2>6. CASE e = endname(i, incarnation[i], j)
    <3>1. e[1] = i /\ e[3] = j /\ e[2] = incarnation[i]
      BY <2>2, <2>6
    <3> QED BY <2>5, <3>1
  <2>7. CASE e = endname(j, incarnation[j], i)
    <3>1. e[1] = j /\ e[3] = i /\ e[2] = incarnation[j]
      BY <2>2, <2>7
    <3> QED BY <2>5, <3>1
  <2> QED BY <2>4, <2>6, <2>7
<1>7. ASSUME NEW j \in Server PROVE Registered(j)'
  <2>1. Registered(j)
    BY <1>1
  <2>2. connected'[j] => attached'[j] # nil
    <3>1. connected[j] => attached[j] # nil
      BY <1>2, <2>1 DEF Registered
    <3> QED BY <1>5, <3>1
  <2> QED BY <1>2, <2>1, <2>2 DEF Registered
<1>8. OldEndsDisabled'
  BY <1>1, <1>3 DEF OldEndsDisabled
<1>9. Toggles'
  <2> SUFFICES ASSUME NEW p \in Ops', p.op = "Enable"
               PROVE  LET f == p.end
                          both == connected'[f[1]] /\ connected'[f[3]]
                      IN  IF p.on
                            THEN f[1] # f[3] /\ f[2] = next'[f[1]] /\ both
                            ELSE f \in Made' /\ ~both
    BY DEF Toggles
  <2>1. PICK e \in Joins(i) : p.end = e /\ p.on = TRUE
    OBVIOUS
  <2> QED BY <1>4, <1>6, <2>1
<1>10. ASSUME NEW j \in Server, NEW k \in others(j), j = i \/ k = i, connected'[j], connected'[k]
       PROVE  endname(j, incarnation[j], k) \in Joins(i)
  <2>0. k \in Server /\ k # j
    BY DEF others
  <2>1. CASE j = i
    <3>1. connected[k]
      BY <1>5, <1>10, <2>0, <2>1
    <3> QED BY <2>1, <3>1 DEF Joins
  <2>2. CASE k = i
    <3>1. connected[j] /\ j \in others(i)
      BY <1>5, <1>10, <2>0, <2>2 DEF others
    <3> QED BY <2>2, <3>1 DEF Joins
  <2> QED BY <1>10, <2>1, <2>2
<1>11. Settles'
  <2> SUFFICES ASSUME NEW j \in Server, NEW k \in others(j)
               PROVE  LET f == endname(j, next'[j], k)
                      IN  IF connected'[j] /\ connected'[k]
                            THEN Toggle(f, TRUE) \in Ops' \/ (f \in Made' /\ enabled'[f])
                            ELSE f \in Made' => ~enabled'[f] \/ Toggle(f, FALSE) \in Ops'
    BY DEF Settles
  <2>0. k \in Server /\ k # j
    BY DEF others
  <2> DEFINE f == endname(j, incarnation[j], k)
  <2>1. f \in Made /\ (enabled[f] <=> connected[j] /\ connected[k])
    BY <1>2
  <2>2. CASE connected'[j] /\ connected'[k]
    <3>1. CASE j = i \/ k = i
      <4>1. Toggle(f, TRUE) \in Ops'
        BY <1>10, <2>2, <3>1
      <4> HIDE DEF f
      <4> QED BY <1>4, <2>2, <4>1 DEF f
    <3>2. CASE j # i /\ k # i
      <4>1. f \in Made' /\ enabled'[f]
        BY <1>3, <1>5, <2>0, <2>1, <2>2, <3>2
      <4> HIDE DEF f
      <4> QED BY <1>4, <2>2, <4>1 DEF f
    <3> QED BY <3>1, <3>2
  <2>3. CASE ~(connected'[j] /\ connected'[k])
    <3>1. ~(connected[j] /\ connected[k])
      BY <1>5, <2>0, <2>3
    <3>2. ~enabled'[f]
      BY <2>1, <3>1
    <3> HIDE DEF f
    <3> QED BY <1>4, <2>3, <3>2 DEF f
  <2> QED BY <2>2, <2>3
<1>12. CutOff'
  BY DEF CutOff
<1> QED BY <1>7, <1>8, <1>9, <1>11, <1>12 DEF Tables

\* A new command promises what the tables need.
LEMMA CommandTables ==
  ASSUME Types, Tables, NEW i \in Server, crash1(i) \/ start1(i) \/ connect(i) \/ disconnect(i)
  PROVE  TableTypes' /\ Tables' /\ TablesEvolve
<1>1. /\ incarnation \in [Server -> Nat] /\ attached \in [Server -> Nat \cup {nil}]
      /\ servers \in [Server -> Nat \cup {nil}] /\ connected \in [Server -> BOOLEAN]
      /\ reliable \in BOOLEAN /\ done \in BOOLEAN /\ enabled \in [Made -> BOOLEAN]
      /\ connections = [e \in Made |-> e[3]]
  BY DEF Types, TableTypes
<1>2. ASSUME NEW ops \in Seq(AllOps), NEW conn \in [Server -> BOOLEAN], Command(ops, conn)
      PROVE  /\ TableTypes' /\ TablesEvolve /\ script = <<>> /\ script' = ops /\ connected' = conn
             /\ Ops' = ToSet(ops) /\ UNCHANGED <<enabled, servers, incarnation, attached>>
  <2>1. /\ script = <<>> /\ script' = ops /\ connected' = conn
        /\ UNCHANGED <<enabled, connections, servers, reliable, done, incarnation, attached>>
    BY <1>2 DEF Command, networkVars, tableVars
  <2>2. Made' = Made
    BY <2>1 DEF Made
  <2>3. TableTypes'
    BY <1>1, <2>1, <2>2 DEF TableTypes, AllOps
  <2>4. TablesEvolve
    BY <1>1, <2>1, <2>2 DEF TablesEvolve
  <2>5. Ops' = ToSet(ops)
    BY <2>1 DEF Ops
  <2> QED BY <2>1, <2>3, <2>4, <2>5
<1>3. /\ [connected EXCEPT ![i] = FALSE] \in [Server -> BOOLEAN]
      /\ [connected EXCEPT ![i] = TRUE] \in [Server -> BOOLEAN]
  BY <1>1
<1>4. CASE crash1(i)
  <2> DEFINE X == {"DeleteServer", "Copy"}
  <2>1. /\ crash(i) \in Seq(AllOps) /\ IsOrdered(crash(i))
        /\ ToSet(crash(i)) = {Toggle(e, FALSE) : e \in Cuts(i)} \cup {ServerOp(x, i) : x \in X}
    BY CrashFacts
  <2> HIDE DEF X
  <2>2. /\ TableTypes' /\ TablesEvolve /\ script = <<>> /\ IsOrdered(script')
        /\ connected' = [connected EXCEPT ![i] = FALSE]
        /\ Ops' = {Toggle(e, FALSE) : e \in Cuts(i)} \cup {ServerOp(x, i) : x \in X}
        /\ UNCHANGED <<enabled, servers, incarnation, attached>>
    BY <1>2, <1>3, <1>4, <2>1 DEF crash1
  <2>3. X \in {{}, {"DeleteServer", "Copy"}, OpNames}
    BY DEF X
  <2>4. /\ \A e \in Cuts(i) : Toggle(e, FALSE) \in Ops'
        /\ \A x \in X : ServerOp(x, i) \in Ops'
        /\ \A x, j : ServerOp(x, j) \in Ops' => x \in X /\ j = i
        /\ \A p \in Ops' : p.op = "Enable" => \E e \in Cuts(i) : p.end = e /\ p.on = FALSE
    <3>1. IsCut(i, X, Ops')
      BY <2>2, Zenon DEF IsCut
    <3>2. X \in SUBSET OpNames
      BY DEF X, OpNames
    <3> QED BY <3>1, <3>2, CutOps
  <2> QED BY <2>2, <2>3, <2>4, CutTables
<1>5. CASE start1(i)
  <2>1. /\ start(i) \in Seq(AllOps) /\ IsOrdered(start(i))
        /\ ToSet(start(i)) = {Toggle(e, FALSE) : e \in Cuts(i)} \cup {ServerOp(x, i) : x \in OpNames}
    BY StartFacts
  <2>2. /\ TableTypes' /\ TablesEvolve /\ script = <<>> /\ IsOrdered(script')
        /\ connected' = [connected EXCEPT ![i] = FALSE]
        /\ Ops' = {Toggle(e, FALSE) : e \in Cuts(i)} \cup {ServerOp(x, i) : x \in OpNames}
        /\ UNCHANGED <<enabled, servers, incarnation, attached>>
    BY <1>2, <1>3, <1>5, <2>1 DEF start1
  <2>3. /\ \A e \in Cuts(i) : Toggle(e, FALSE) \in Ops'
        /\ \A x \in OpNames : ServerOp(x, i) \in Ops'
        /\ \A x, j : ServerOp(x, j) \in Ops' => x \in OpNames /\ j = i
        /\ \A p \in Ops' : p.op = "Enable" => \E e \in Cuts(i) : p.end = e /\ p.on = FALSE
    <3>1. IsCut(i, OpNames, Ops')
      BY <2>2, Zenon DEF IsCut
    <3> QED BY <3>1, CutOps
  <2> QED BY <2>2, <2>3, CutTables
<1>6. CASE disconnect(i)
  <2> DEFINE X == {}
  <2>1. /\ disable(i) \in Seq(AllOps) /\ IsOrdered(disable(i))
        /\ ToSet(disable(i)) = {Toggle(e, FALSE) : e \in Cuts(i)} \cup {ServerOp(x, i) : x \in X}
    BY DisableFacts
  <2> HIDE DEF X
  <2>2. /\ TableTypes' /\ TablesEvolve /\ script = <<>> /\ IsOrdered(script')
        /\ connected' = [connected EXCEPT ![i] = FALSE]
        /\ Ops' = {Toggle(e, FALSE) : e \in Cuts(i)} \cup {ServerOp(x, i) : x \in X}
        /\ UNCHANGED <<enabled, servers, incarnation, attached>>
    BY <1>2, <1>3, <1>6, <2>1 DEF disconnect
  <2>3. X \in {{}, {"DeleteServer", "Copy"}, OpNames}
    BY DEF X
  <2>4. /\ \A e \in Cuts(i) : Toggle(e, FALSE) \in Ops'
        /\ \A x \in X : ServerOp(x, i) \in Ops'
        /\ \A x, j : ServerOp(x, j) \in Ops' => x \in X /\ j = i
        /\ \A p \in Ops' : p.op = "Enable" => \E e \in Cuts(i) : p.end = e /\ p.on = FALSE
    <3>1. IsCut(i, X, Ops')
      BY <2>2, Zenon DEF IsCut
    <3>2. X \in SUBSET OpNames
      BY DEF X, OpNames
    <3> QED BY <3>1, <3>2, CutOps
  <2> QED BY <2>2, <2>3, <2>4, CutTables
<1>7. CASE connect(i)
  <2>1. /\ enable(i) \in Seq(AllOps) /\ IsOrdered(enable(i))
        /\ ToSet(enable(i)) = {Toggle(e, TRUE) : e \in Joins(i)}
    BY EnableFacts
  <2>2. /\ TableTypes' /\ TablesEvolve /\ script = <<>> /\ IsOrdered(script')
        /\ connected' = [connected EXCEPT ![i] = TRUE]
        /\ Ops' = {Toggle(e, TRUE) : e \in Joins(i)}
        /\ UNCHANGED <<enabled, servers, incarnation, attached>> /\ attached[i] # nil
    BY <1>2, <1>3, <1>7, <2>1 DEF connect
  <2>3. /\ \A e \in Joins(i) : Toggle(e, TRUE) \in Ops'
        /\ \A x, j : ServerOp(x, j) \notin Ops'
        /\ \A p \in Ops' : \E e \in Joins(i) : p.end = e /\ p.on = TRUE
    BY <2>2, JoinOps
  <2> QED BY <2>2, <2>3, JoinTables
<1> QED BY <1>4, <1>5, <1>6, <1>7

\* Odd and even places.
LEMMA Halves ==
  ASSUME NEW l \in Nat, NEW n \in 1 .. 2 * l
  PROVE  /\ (n + 1) \div 2 \in 1 .. l
         /\ n % 2 = 1 => n = 2 * ((n + 1) \div 2) - 1
         /\ n % 2 # 1 => n = 2 * ((n + 1) \div 2)
<1>1. (n + 1) \div 2 \in 1 .. l
  OBVIOUS
<1>2. n % 2 = 1 => n = 2 * ((n + 1) \div 2) - 1
  OBVIOUS
<1>3. n % 2 # 1 => n = 2 * ((n + 1) \div 2)
  OBVIOUS
<1> QED BY <1>1, <1>2, <1>3

\* The operations of makeConfig on the servers.
LEMMA StartAllFacts ==
  /\ startAll \in Seq(AllOps) /\ IsOrdered(startAll)
  /\ \A p : p \in ToSet(startAll) <=>
       \E x \in {"Make", "AddServer"} : \E i \in Server : p = ServerOp(x, i)
<1> DEFINE all == SetToSeq(Server)
           s == startAll
<1>1. /\ all \in Seq(Server) /\ ToSet(all) = Server
      /\ \A m, n \in DOMAIN all : all[m] = all[n] => m = n
  BY TesterAssumption, SetToSeqFacts
<1> DEFINE l == Len(all)
<1>0. s = [n \in 1 .. 2 * l |->
             [op |-> IF n % 2 = 1 THEN "Make" ELSE "AddServer", server |-> all[(n + 1) \div 2]]]
  BY Zenon DEF startAll
<1> HIDE DEF all, s
<1>2. l \in Nat /\ DOMAIN all = 1 .. l /\ \A m \in 1 .. l : all[m] \in Server
  BY <1>1
<1>3. /\ DOMAIN s = 1 .. 2 * l
      /\ \A n \in 1 .. 2 * l :
           s[n] = ServerOp(IF n % 2 = 1 THEN "Make" ELSE "AddServer", all[(n + 1) \div 2])
  BY <1>0, Zenon DEF ServerOp
<1> HIDE DEF l
<1>4. ASSUME NEW n \in 1 .. 2 * l
      PROVE  /\ (n + 1) \div 2 \in 1 .. l
             /\ n % 2 = 1 => n = 2 * ((n + 1) \div 2) - 1
             /\ n % 2 # 1 => n = 2 * ((n + 1) \div 2)
  BY <1>2, Halves
<1>5. ASSUME NEW n \in 1 .. 2 * l
      PROVE  \E x \in {"Make", "AddServer"}, i \in Server : s[n] = ServerOp(x, i) /\ s[n] \in ServerOps
  <2>1. all[(n + 1) \div 2] \in Server
    BY <1>2, <1>4
  <2>2. \A x \in {"Make", "AddServer"}, i \in Server : ServerOp(x, i) \in ServerOps
    BY DEF ServerOp, ServerOps
  <2> QED BY <1>3, <2>1, <2>2
<1>6. s \in Seq(AllOps)
  <2>1. \A n \in 1 .. 2 * l : s[n] \in AllOps
    BY <1>5 DEF AllOps
  <2>2. s \in [1 .. 2 * l -> AllOps]
    BY <1>0, <2>1
  <2>3. 2 * l \in Nat
    BY <1>2
  <2> QED BY <2>2, <2>3
<1>7. IsOrdered(s)
  <2> SUFFICES ASSUME NEW m \in 1 .. 2 * l, NEW n \in 1 .. 2 * l, m < n
               PROVE  MayPrecede(s[m], s[n])
    BY <1>3 DEF IsOrdered
  <2> DEFINE i == all[(m + 1) \div 2]
             j == all[(n + 1) \div 2]
  <2>1. s[m] \in ServerOps /\ s[n] \in ServerOps
    BY <1>5
  <2>2. s[m].server = i /\ s[n].server = j
    BY <1>3 DEF ServerOp
  <2>3. CASE i # j
    BY <2>1, <2>2, <2>3 DEF MayPrecede
  <2>4. CASE i = j
    <3>1. (m + 1) \div 2 = (n + 1) \div 2
      BY <1>1, <1>2, <1>4, <2>4
    <3>2. m % 2 = 1 /\ n % 2 # 1
      <4> DEFINE h == (m + 1) \div 2
      <4>1. h \in 1 .. l
        BY <1>4
      <4>2. /\ m % 2 = 1 => m = 2 * h - 1
            /\ m % 2 # 1 => m = 2 * h
        BY <1>4
      <4>3. /\ n % 2 = 1 => n = 2 * h - 1
            /\ n % 2 # 1 => n = 2 * h
        BY <1>4, <3>1
      <4> HIDE DEF h
      <4> QED BY <1>2, <4>1, <4>2, <4>3
    <3>3. s[m] = ServerOp("Make", i) /\ s[n] = ServerOp("AddServer", j)
      BY <1>3, <3>2
    <3>4. Rank(s[m]) = 3 /\ Rank(s[n]) = 4
      BY <3>3, Ranks
    <3> QED BY <3>4 DEF MayPrecede
  <2> QED BY <2>3, <2>4
<1>8. \A p : p \in ToSet(s) <=>
        \E x \in {"Make", "AddServer"} : \E i \in Server : p = ServerOp(x, i)
  <2>1. ASSUME NEW n \in DOMAIN s
        PROVE  \E x \in {"Make", "AddServer"} : \E i \in Server : s[n] = ServerOp(x, i)
    BY <1>3, <1>5
  <2>2. ASSUME NEW i \in Server
        PROVE  \E n \in DOMAIN s : \E m \in DOMAIN s :
                 s[n] = ServerOp("Make", i) /\ s[m] = ServerOp("AddServer", i)
    <3>1. PICK h \in 1 .. l : all[h] = i
      BY <1>1, <1>2 DEF ToSet
    <3> DEFINE n == 2 * h - 1
               m == 2 * h
    <3>2. /\ n \in 1 .. 2 * l /\ n % 2 = 1 /\ (n + 1) \div 2 = h
          /\ m \in 1 .. 2 * l /\ m % 2 # 1 /\ (m + 1) \div 2 = h
      BY <1>2
    <3> HIDE DEF n, m
    <3>3. s[n] = ServerOp("Make", i) /\ s[m] = ServerOp("AddServer", i)
      BY <1>3, <3>1, <3>2
    <3> QED BY <1>3, <3>2, <3>3
  <2>3. ASSUME NEW x \in {"Make", "AddServer"}, NEW i \in Server PROVE ServerOp(x, i) \in ToSet(s)
    BY <2>2 DEF ToSet
  <2> QED BY <2>1, <2>3 DEF ToSet
<1> QED BY <1>6, <1>7, <1>8 DEF s

\* Initially everything is still to be done.
LEMMA InitTables == Init => TableTypes /\ Tables
<1> SUFFICES ASSUME Init PROVE TableTypes /\ Tables
  OBVIOUS
<1> DEFINE starts == startAll
           enables == connectAll
           E == UNION {{endname(i, 1, j) : j \in others(i)} : i \in Server}
<1>0. enables = setEnable(E, TRUE)
  BY Zenon DEF connectAll
<1>1. /\ script = starts \o enables /\ incarnation = [i \in Server |-> 0]
      /\ connected = [i \in Server |-> TRUE] /\ attached = [i \in Server |-> nil]
      /\ enabled = <<>> /\ connections = <<>> /\ servers = [i \in Server |-> nil]
      /\ reliable \in BOOLEAN /\ done = FALSE
  <2> HIDE DEF E
  <2> QED BY DEF Init, NetworkInit
<1>2. /\ starts \in Seq(AllOps) /\ IsOrdered(starts)
      /\ \A p : p \in ToSet(starts) <=>
           \E x \in {"Make", "AddServer"} : \E i \in Server : p = ServerOp(x, i)
  BY StartAllFacts
<1>3. \A e : e \in E <=> \E i \in Server : \E j \in others(i) : e = endname(i, 1, j)
  OBVIOUS
<1>4. IsFiniteSet(E) /\ E \in SUBSET End
  <2>1. E \in SUBSET End
    <3>1. \A i \in Server : \A j \in others(i) : endname(i, 1, j) \in End
      BY DEF endname, End, others
    <3> QED BY <1>3, <3>1
  <2>2. IsFiniteSet(Server \X Server)
    BY TesterAssumption, FS_Product
  <2> DEFINE D == {q \in Server \X Server : q[1] # q[2]}
             f == [q \in D |-> endname(q[1], 1, q[2])]
  <2>3. IsFiniteSet(D)
    BY <2>2, FS_Subset
  <2>4. f \in Surjection(D, E)
    <3>1. \A q \in D : q[1] \in Server /\ q[2] \in others(q[1])
      BY DEF others
    <3>2. \A q \in D : f[q] \in E
      BY <1>3, <3>1
    <3>3. ASSUME NEW i \in Server, NEW j \in others(i)
          PROVE  \E q \in D : f[q] = endname(i, 1, j)
      <4>1. <<i, j>> \in D /\ <<i, j>>[1] = i /\ <<i, j>>[2] = j
        BY DEF others
      <4> QED BY <4>1
    <3>4. \A e \in E : \E q \in D : f[q] = e
      BY <1>3, <3>3
    <3> HIDE DEF E
    <3>5. f \in [D -> E]
      BY <3>2
    <3> HIDE DEF f, D
    <3> QED BY <3>4, <3>5 DEF Surjection
  <2> HIDE DEF f, D, E
  <2> QED BY <2>1, <2>3, <2>4, FS_Surjection
<1> HIDE DEF starts, E
<1>5. /\ enables \in Seq(AllOps) /\ IsOrdered(enables)
      /\ ToSet(enables) = {Toggle(e, TRUE) : e \in E}
  BY <1>0, <1>4, SetEnableFacts
<1> HIDE DEF enables
<1>6. script \in Seq(AllOps) /\ ToSet(script) = ToSet(starts) \cup ToSet(enables)
  BY <1>1, <1>2, <1>5, ToSetConcat
<1>7. IsOrdered(script)
  <2>1. \A o \in ToSet(starts) : Rank(o) \in 3 .. 4
    <3>1. \A x \in {"Make", "AddServer"} : \A i \in Server : Rank(ServerOp(x, i)) \in 3 .. 4
      BY Ranks
    <3> QED BY <1>2, <3>1
  <2>2. \A p \in ToSet(enables) : Rank(p) = 5
    BY <1>5, Ranks
  <2>3. \A o \in ToSet(starts), p \in ToSet(enables) : MayPrecede(o, p)
    BY <2>1, <2>2 DEF MayPrecede
  <2> QED BY <1>1, <1>2, <1>5, <2>3, OrderedConcat
<1>8. /\ \A i \in Server : ServerOp("Make", i) \in Ops /\ ServerOp("AddServer", i) \in Ops
      /\ \A i : ServerOp("DeleteServer", i) \notin Ops /\ ServerOp("Copy", i) \notin Ops
      /\ \A i \in Server : \A j \in others(i) : Toggle(endname(i, 1, j), TRUE) \in Ops
      /\ \A p \in Ops : p.op = "Enable" =>
           \E i \in Server : \E j \in others(i) : p.end = endname(i, 1, j) /\ p.on = TRUE
  <2>1. \A p : p \in Ops <=> \/ \E x \in {"Make", "AddServer"} : \E i \in Server : p = ServerOp(x, i)
                             \/ \E e \in E : p = Toggle(e, TRUE)
    BY <1>2, <1>5, <1>6, Zenon DEF Ops
  <2>2. \A i \in Server : ServerOp("Make", i) \in Ops /\ ServerOp("AddServer", i) \in Ops
    BY <2>1
  <2>3. ASSUME NEW i, NEW y \in {"DeleteServer", "Copy"} PROVE ServerOp(y, i) \notin Ops
    <3>1. \A e : ServerOp(y, i) # Toggle(e, TRUE)
      BY Different
    <3>2. \A x \in {"Make", "AddServer"}, j \in Server : ServerOp(y, i) # ServerOp(x, j)
      BY Different
    <3> QED BY <2>1, <3>1, <3>2
  <2>4. \A e \in E : Toggle(e, TRUE) \in Ops
    BY <2>1
  <2>5. ASSUME NEW p \in Ops, p.op = "Enable" PROVE \E e \in E : p.end = e /\ p.on = TRUE
    <3>1. \A x, i : ServerOp(x, i).op = x
      BY DEF ServerOp
    <3>2. PICK e \in E : p = Toggle(e, TRUE)
      BY <2>1, <2>5, <3>1
    <3>3. p.end = e /\ p.on = TRUE
      BY <3>2 DEF Toggle
    <3> QED BY <3>3
  <2>6. \A i \in Server : \A j \in others(i) : Toggle(endname(i, 1, j), TRUE) \in Ops
    BY <1>3, <2>4
  <2>7. ASSUME NEW p \in Ops, p.op = "Enable"
        PROVE  \E i \in Server : \E j \in others(i) : p.end = endname(i, 1, j) /\ p.on = TRUE
    BY <1>3, <2>5, <2>7
  <2> QED BY <2>2, <2>3, <2>6, <2>7
<1>9. Made = {}
  <2>1. incarnation \in [Server -> Nat] /\ \A i \in Server : incarnation[i] = 0
    BY <1>1
  <2>2. ASSUME NEW e \in MadeOf(incarnation) PROVE FALSE
    <3>1. e[1] \in Server /\ e[2] \in 1 .. incarnation[e[1]]
      BY <2>1, MadeFacts
    <3> QED BY <2>1, <3>1
  <2> QED BY <2>2 DEF Made
<1>10. TableTypes
  <2>1. enabled \in [Made -> BOOLEAN] /\ connections = [e \in Made |-> e[3]]
    BY <1>1, <1>9
  <2> QED BY <1>1, <1>6, <2>1 DEF TableTypes, AllOps
<1>11. ASSUME NEW i \in Server PROVE next[i] = 1
  <2>1. incarnation[i] = 0
    BY <1>1
  <2>2. next[i] = incarnation[i] + 1
    BY <1>8 DEF next
  <2> QED BY <2>1, <2>2
<1>12. ASSUME NEW i \in Server PROVE Registered(i)
  BY <1>1, <1>8 DEF Registered
<1>13. OldEndsDisabled
  BY <1>9 DEF OldEndsDisabled
<1>14. Toggles
  <2> SUFFICES ASSUME NEW p \in Ops, p.op = "Enable"
               PROVE  LET f == p.end
                          both == connected[f[1]] /\ connected[f[3]]
                      IN  IF p.on
                            THEN f[1] # f[3] /\ f[2] = next[f[1]] /\ both
                            ELSE f \in Made /\ ~both
    BY DEF Toggles
  <2>0. PICK i \in Server : \E j \in others(i) : p.end = endname(i, 1, j) /\ p.on = TRUE
    BY <1>8
  <2>1. PICK j \in others(i) : p.end = endname(i, 1, j) /\ p.on = TRUE
    BY <2>0
  <2>2. p.end[1] = i /\ p.end[2] = 1 /\ p.end[3] = j /\ j \in Server /\ i # j
    BY <2>1 DEF endname, others
  <2>3. connected[i] /\ connected[j]
    BY <1>1, <2>2
  <2> QED BY <1>11, <2>1, <2>2, <2>3
<1>15. Settles
  <2> SUFFICES ASSUME NEW i \in Server, NEW j \in others(i)
               PROVE  LET f == endname(i, next[i], j)
                      IN  IF connected[i] /\ connected[j]
                            THEN Toggle(f, TRUE) \in Ops \/ (f \in Made /\ enabled[f])
                            ELSE f \in Made => ~enabled[f] \/ Toggle(f, FALSE) \in Ops
    BY DEF Settles
  <2>1. connected[i] /\ connected[j]
    BY <1>1 DEF others
  <2>2. Toggle(endname(i, next[i], j), TRUE) \in Ops
    BY <1>8, <1>11
  <2> QED BY <2>1, <2>2
<1>16. CutOff
  BY <1>9 DEF CutOff
<1> QED BY <1>7, <1>10, <1>12, <1>13, <1>14, <1>15, <1>16 DEF Tables
================================================================================
