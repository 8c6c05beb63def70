------------------------------ MODULE Raft_proofs ------------------------------
(***************************************************************************)
(* What holds of Raft for every number of servers and every bound: types,  *)
(* persistence, terms, votes and the commit index.  Elections and logs are *)
(* in RaftElection_proofs and RaftLog_proofs, which build on this module.  *)
(***************************************************************************)
EXTENDS RaftInv, WellFoundedInduction, FiniteSetTheorems, SequenceTheorems, TLAPS

----------------------------------------------------------------------------
(* Numbers.                                                                *)

\* A nonempty set of natural numbers has a least element.
LEMMA LeastNat ==
  ASSUME NEW S \in SUBSET Nat, S # {}
  PROVE  \E n \in S : \A m \in S : n <= m
<1>1. \E x \in S : \A y \in S : ~ (<<y, x>> \in OpToRel(<, Nat))
  BY NatLessThanWellFounded, WFMin
<1>2. \E x \in S : \A y \in S : ~(y < x)
  BY <1>1 DEF OpToRel
<1> QED BY <1>2

\* Max of a nonempty set of natural numbers up to a bound is its greatest
\* element.
LEMMA MaxBounded ==
  ASSUME NEW n \in Nat, NEW S \in SUBSET (0 .. n), S # {}
  PROVE  Max(S) \in S /\ \A m \in S : m <= Max(S)
<1> DEFINE T == {n - m : m \in S}
<1>1. PICK k \in T : \A m \in T : k <= m
  <2>1. \A m \in S : n - m \in Nat
    OBVIOUS
  <2>2. T \in SUBSET Nat /\ T # {}
    BY <2>1
  <2> HIDE DEF T
  <2> QED BY <2>2, LeastNat
<1>2. PICK x \in S : k = n - x
  BY <1>1
<1>3. \A m \in S : x >= m
  BY <1>1, <1>2
<1> QED BY <1>3, Zenon DEF Max

\* Min of two natural numbers.
LEMMA MinOfTwo ==
  ASSUME NEW a \in Nat, NEW b \in Nat
  PROVE  Min({a, b}) \in {a, b} /\ Min({a, b}) <= a /\ Min({a, b}) <= b
<1>1. \E x \in {a, b} : \A y \in {a, b} : x <= y
  OBVIOUS
<1>2. Min({a, b}) \in {a, b} /\ \A y \in {a, b} : Min({a, b}) <= y
  BY <1>1, Zenon DEF Min
<1> QED BY <1>2

\* Max of two natural numbers.
LEMMA MaxOfTwo ==
  ASSUME NEW a \in Nat, NEW b \in Nat
  PROVE  Max({a, b}) \in {a, b} /\ Max({a, b}) >= a /\ Max({a, b}) >= b
<1>1. \E x \in {a, b} : \A y \in {a, b} : x >= y
  OBVIOUS
<1>2. Max({a, b}) \in {a, b} /\ \A y \in {a, b} : Max({a, b}) >= y
  BY <1>1, Zenon DEF Max
<1> QED BY <1>2

----------------------------------------------------------------------------
(* Calls in flight.                                                        *)

\* The elements of a bag that was added to.
LEMMA BagPlus ==
  ASSUME NEW B, NEW C
  PROVE  BagToSet(B (+) C) = BagToSet(B) \cup BagToSet(C)
<1>1. DOMAIN (B (+) C) = DOMAIN B \cup DOMAIN C
  BY DEF (+)
<1> QED BY <1>1, Zenon DEF BagToSet

\* The elements of a bag that was taken from.
LEMMA BagMinus ==
  ASSUME NEW B, NEW C
  PROVE  BagToSet(B (-) C) \subseteq BagToSet(B)
BY DEF BagToSet, (-)

\* The elements of the bag made of a set.
LEMMA BagOfSet ==
  ASSUME NEW S
  PROVE  BagToSet(SetToBag(S)) = S
BY DEF BagToSet, SetToBag

\* Call puts nothing but its calls on the network.
LEMMA CallSends ==
  ASSUME NEW C, Call(C)
  PROVE  BagToSet(calls') \subseteq BagToSet(calls) \cup C
<1>1. PICK sent \in SUBSET C : calls' = calls (+) SetToBag(sent)
  BY DEF Call
<1>2. BagToSet(calls') = BagToSet(calls) \cup sent
  BY <1>1, BagPlus, BagOfSet, Zenon
<1> QED BY <1>2

\* Reply puts nothing but its reply on the network.
LEMMA ReplySends ==
  ASSUME NEW c, NEW r, Reply(c, r)
  PROVE  BagToSet(calls') \subseteq BagToSet(calls) \cup {[c EXCEPT !.reply = r]}
<1> DEFINE left == calls (-) SetToBag({c})
           d == [c EXCEPT !.reply = r]
<1>1. BagToSet(left) \subseteq BagToSet(calls)
  BY BagMinus, Zenon
<1>2. BagToSet(left (+) SetToBag({d})) = BagToSet(left) \cup {d}
  BY BagPlus, BagOfSet, Zenon
<1>3. calls' = left \/ calls' = left (+) SetToBag({d})
  BY DEF Reply
<1> HIDE DEF left, d
<1>4. BagToSet(calls') \subseteq BagToSet(calls) \cup {d}
  BY <1>1, <1>2, <1>3, Zenon
<1> QED BY <1>4 DEF d

\* Receive puts nothing on the network.
LEMMA ReceiveSends ==
  ASSUME NEW c, Receive(c)
  PROVE  BagToSet(calls') \subseteq BagToSet(calls)
BY BagMinus, Zenon DEF Receive

\* Neither does Restart.
LEMMA RestartSends ==
  ASSUME NEW s, Restart(s)
  PROVE  BagToSet(calls') \subseteq BagToSet(calls)
BY DEF Restart, BagToSet

----------------------------------------------------------------------------
(* Types.                                                                  *)

\* The first layer of the invariant: the types, and what they leave open.
TypeInv == TypeOK /\ Started /\ CallsTyped

\* The initial state has the types.
LEMMA TypeInit == Init => TypeInv
<1> SUFFICES ASSUME Init PROVE TypeInv
  OBVIOUS
<1> USE BoundAssumption
<1>1. BagToSet(EmptyBag) = {}
  BY DEF EmptyBag, SetToBag, BagToSet
<1>2. <<>> \in Log
  BY DEF Log
<1> HIDE BoundAssumption
<1>3. persisted \in [Server -> Saved]
  BY <1>2, BoundAssumption DEF Init, InitFrom, Saved
<1>4. logs \in [Server -> Log]
  BY <1>2 DEF Init, InitFrom
<1>5. ballots = [s \in Server |-> EmptyBag]
  BY DEF Init, InitFrom
<1>6. DOMAIN ballots = Server /\ \A s \in Server : BagToSet(ballots[s]) \subseteq VoteArgs
  BY <1>1, <1>5
<1>6a. currentTerm \in [Server -> 0 .. MaxTerm] /\ votedFor \in [Server -> Server \cup {NOBODY}]
  BY BoundAssumption DEF Init, InitFrom
<1>6b. commitIndex \in [Server -> 0 .. MaxLog] /\ lastApplied \in [Server -> 0 .. MaxLog]
  BY BoundAssumption DEF Init, InitFrom
<1>6c. /\ nextIndex \in [Server -> [Server -> 0 .. MaxLog + 1]]
       /\ matchIndex \in [Server -> [Server -> 0 .. MaxLog]]
  BY BoundAssumption DEF Init, InitFrom
<1>6d. chanCommit \in [Server -> 0 .. Cap] /\ chanHeartBeat \in [Server -> 0 .. Cap]
  BY BoundAssumption DEF Init, InitFrom
<1>6e. chanBeElected \in [Server -> Seq(1 .. MaxTerm)] /\ applied \in [Server -> Seq(Entry)]
  BY DEF Init, InitFrom
<1>6f. BagToSet(calls) \subseteq AppendCall \cup VoteCall
  BY <1>1 DEF Init, InitFrom
<1>6g. /\ voteCount \in [Server -> Nat] /\ broadcasting \in [Server -> Nat]
       /\ incarnation \in [Server -> Nat]
       /\ state \in [Server -> {"LEADER", "CANDIDATE", "FOLLOWER"}]
       /\ pc \in [Server -> {"switch", "newElection", "candidate", "newHeartBeat"}]
       /\ panicked \in BOOLEAN
  BY DEF Init, InitFrom
<1>6h. votes = {} /\ elected = {} /\ overwritten = {} /\ misread \in BOOLEAN
  BY DEF Init, InitFrom
<1>7. TypeOK
  BY <1>3, <1>4, <1>6, <1>6a, <1>6b, <1>6c, <1>6d, <1>6e, <1>6f, <1>6g, <1>6h DEF TypeOK
<1>8. Started
  BY DEF Init, InitFrom, Started
<1>9. CallsTyped
  BY <1>1 DEF Init, InitFrom, CallsTyped
<1> QED BY <1>7, <1>8, <1>9 DEF TypeInv

\* Steps of statesLoop that change neither terms nor logs.
LEMMA LoopType ==
  ASSUME TypeInv, NEW s \in Server,
         \/ SwitchState(s)
         \/ FollowerTimeout(s)
         \/ FollowerHeartBeat(s)
         \/ CandidateTimeout(s)
         \/ CandidateHeartBeat(s)
  PROVE  TypeInv'
<1> USE DEF persistentVars, leaderVars, loopVars, historyVars
<1>1. /\ chanHeartBeat \in [Server -> 0 .. Cap]
      /\ pc \in [Server -> {"switch", "newElection", "candidate", "newHeartBeat"}]
      /\ state \in [Server -> {"LEADER", "CANDIDATE", "FOLLOWER"}]
      /\ Started
  BY DEF TypeInv, TypeOK
<1>2. CASE SwitchState(s)
  <2>1. pc' \in [Server -> {"switch", "newElection", "candidate", "newHeartBeat"}]
    BY <1>1, <1>2 DEF SwitchState
  <2>2. TypeOK'
    BY <1>2, <2>1 DEF SwitchState, TypeInv, TypeOK
  <2>3. Started'
    BY <1>1, <1>2 DEF SwitchState, Started
  <2> QED BY <1>2, <2>2, <2>3 DEF SwitchState, TypeInv, CallsTyped
<1>3. CASE FollowerTimeout(s)
  <2>2. TypeOK'
    BY <1>3 DEF FollowerTimeout, TypeInv, TypeOK
  <2>3. Started'
    BY <1>1, <1>3 DEF FollowerTimeout, Started
  <2> QED BY <1>3, <2>2, <2>3 DEF FollowerTimeout, TypeInv, CallsTyped
<1>4. CASE FollowerHeartBeat(s)
  <2>1. chanHeartBeat' \in [Server -> 0 .. Cap]
    BY <1>1, <1>4, BoundAssumption DEF FollowerHeartBeat
  <2>2. TypeOK'
    BY <1>4, <2>1 DEF FollowerHeartBeat, TypeInv, TypeOK
  <2>3. Started'
    BY <1>1, <1>4 DEF FollowerHeartBeat, Started
  <2> QED BY <1>4, <2>2, <2>3 DEF FollowerHeartBeat, TypeInv, CallsTyped
<1>5. CASE CandidateTimeout(s)
  <2>2. TypeOK'
    BY <1>5 DEF CandidateTimeout, TypeInv, TypeOK
  <2>3. Started'
    BY <1>1, <1>5 DEF CandidateTimeout, Started
  <2> QED BY <1>5, <2>2, <2>3 DEF CandidateTimeout, TypeInv, CallsTyped
<1>6. CASE CandidateHeartBeat(s)
  <2>1. chanHeartBeat' \in [Server -> 0 .. Cap]
    BY <1>1, <1>6, BoundAssumption DEF CandidateHeartBeat
  <2>2. TypeOK'
    BY <1>6, <2>1 DEF CandidateHeartBeat, TypeInv, TypeOK
  <2>3. Started'
    BY <1>1, <1>6 DEF CandidateHeartBeat, Started
  <2> QED BY <1>6, <2>2, <2>3 DEF CandidateHeartBeat, TypeInv, CallsTyped
<1> QED BY <1>2, <1>3, <1>4, <1>5, <1>6

\* newElection raises the term within its bound.
LEMMA newElectionType ==
  ASSUME TypeInv, NEW s \in Server, newElection(s)
  PROVE  TypeInv'
<1> USE DEF newElection
<1>1. /\ currentTerm \in [Server -> 0 .. MaxTerm]
      /\ votedFor \in [Server -> Server \cup {NOBODY}]
      /\ persisted \in [Server -> Saved]
      /\ logs \in [Server -> Log]
      /\ voteCount \in [Server -> Nat]
      /\ broadcasting \in [Server -> Nat]
      /\ pc \in [Server -> {"switch", "newElection", "candidate", "newHeartBeat"}]
      /\ votes \subseteq Server \X (1 .. MaxTerm) \X Server
      /\ Started
  BY DEF TypeInv, TypeOK
<1>2. currentTerm' \in [Server -> 0 .. MaxTerm] /\ votedFor' \in [Server -> Server \cup {NOBODY}]
  BY <1>1, BoundAssumption
<1>3. persisted' \in [Server -> Saved]
  BY <1>1, <1>2 DEF Saved, persist
<1>4. votes' \subseteq Server \X (1 .. MaxTerm) \X Server
  BY <1>1, BoundAssumption
<1>5. voteCount' \in [Server -> Nat] /\ broadcasting' \in [Server -> Nat]
  BY <1>1
<1>6. pc' \in [Server -> {"switch", "newElection", "candidate", "newHeartBeat"}]
  BY <1>1
<1>7. TypeOK'
  BY <1>2, <1>3, <1>4, <1>5, <1>6
  DEF TypeOK, TypeInv, persistentVars, leaderVars, loopVars, historyVars
<1>8. Started'
  <2> SUFFICES ASSUME NEW t \in Server PROVE Started!(t)'
    BY DEF Started
  <2>1. currentTerm'[t] = IF t = s THEN currentTerm[t] + 1 ELSE currentTerm[t]
    BY <1>1
  <2>2. currentTerm[t] \in Nat /\ (currentTerm[t] > 0 => currentTerm'[t] > 0)
    BY <1>1, <2>1, BoundAssumption
  <2>3. t # s => broadcasting'[t] = broadcasting[t] /\ pc'[t] = pc[t]
    BY <1>1
  <2> QED BY <1>1, <2>1, <2>2, <2>3 DEF Started, leaderVars
<1> QED BY <1>7, <1>8 DEF TypeInv, CallsTyped

\* A server that comes to power is in a term.
LEMMA comeToPowerType ==
  ASSUME TypeInv, NEW s \in Server, comeToPower(s)
  PROVE  TypeInv'
<1> USE DEF comeToPower, getLastIndex
<1>1. /\ currentTerm \in [Server -> 0 .. MaxTerm]
      /\ logs \in [Server -> Log]
      /\ state \in [Server -> {"LEADER", "CANDIDATE", "FOLLOWER"}]
      /\ nextIndex \in [Server -> [Server -> 0 .. MaxLog + 1]]
      /\ matchIndex \in [Server -> [Server -> 0 .. MaxLog]]
      /\ chanBeElected \in [Server -> Seq(1 .. MaxTerm)]
      /\ elected \subseteq [leader : Server, term : 1 .. MaxTerm, token : 1 .. MaxTerm]
      /\ pc \in [Server -> {"switch", "newElection", "candidate", "newHeartBeat"}]
      /\ Started
  BY DEF TypeInv, TypeOK
<1>2. state' \in [Server -> {"LEADER", "CANDIDATE", "FOLLOWER"}]
  BY <1>1
<1>3. pc' \in [Server -> {"switch", "newElection", "candidate", "newHeartBeat"}]
  BY <1>1
<1>4. chanBeElected' \in [Server -> Seq(1 .. MaxTerm)] /\ Head(chanBeElected[s]) \in 1 .. MaxTerm
  <2>1. Tail(chanBeElected[s]) \in Seq(1 .. MaxTerm) /\ Head(chanBeElected[s]) \in 1 .. MaxTerm
    BY <1>1, HeadTailProperties
  <2> QED BY <1>1, <2>1
<1>5. Len(logs[s]) \in 0 .. MaxLog
  BY <1>1 DEF Log
<1>6. nextIndex' \in [Server -> [Server -> 0 .. MaxLog + 1]]
  BY <1>1, <1>5, BoundAssumption
<1>7. matchIndex' \in [Server -> [Server -> 0 .. MaxLog]]
  BY <1>1, BoundAssumption
<1>8. currentTerm[s] \in 1 .. MaxTerm
  BY <1>1, BoundAssumption DEF Started
<1>9. elected' \subseteq [leader : Server, term : 1 .. MaxTerm, token : 1 .. MaxTerm]
  BY <1>1, <1>4, <1>8
<1>10. TypeOK'
  BY <1>2, <1>3, <1>4, <1>6, <1>7, <1>9
  DEF TypeOK, TypeInv, persistentVars, leaderVars, loopVars, historyVars
<1>11. Started'
  <2> SUFFICES ASSUME NEW t \in Server PROVE Started!(t)'
    BY DEF Started
  <2>1. CASE t = s
    BY <2>1, <1>1, <1>5, <1>8 DEF Started, persistentVars
  <2>2. CASE t # s
    <3>1. UNCHANGED <<state[t], pc[t], nextIndex[t]>>
      BY <1>1, <2>2
    <3> QED BY <3>1, <1>1 DEF Started, persistentVars
  <2> QED BY <2>1, <2>2
<1> QED BY <1>10, <1>11 DEF TypeInv, CallsTyped

\* The record of the writes to the array of a log.
LEMMA overwriteFromType ==
  ASSUME TypeInv, NEW s \in Server, NEW first \in Nat \ {0}, logs'[s] \in Log,
         overwriteFrom(s, first)
  PROVE  overwritten' \subseteq Overwriting
<1> DEFINE new(c, i) == [from |-> s, incarnation |-> incarnation[s], args |-> c.args,
                         index |-> i, entry |-> logs'[s][i]]
<1>1. overwritten \subseteq Overwriting /\ incarnation[s] \in Nat
  BY DEF TypeInv, TypeOK
<1>2. ASSUME NEW c \in unencoded(s) PROVE c.args \in AppendArgs
  <2>1. c \in AppendCall \cup VoteCall /\ c.rpc = "AppendEntries"
    BY DEF TypeInv, TypeOK, unencoded
  <2> QED BY <2>1 DEF AppendCall, VoteCall
<1>3. ASSUME NEW i \in first .. Len(logs'[s])
      PROVE  i \in 1 .. MaxLog /\ logs'[s][i] \in Entry
  <2>1. logs'[s] \in Seq(Entry) /\ Len(logs'[s]) \in Nat /\ Len(logs'[s]) <= MaxLog
    BY DEF Log
  <2>2. i \in 1 .. Len(logs'[s])
    BY <2>1
  <2> QED BY <2>1, <2>2, BoundAssumption
<1>4. ASSUME NEW c \in unencoded(s), NEW i \in first .. Len(logs'[s])
      PROVE  new(c, i) \in Overwriting
  BY <1>1, <1>2, <1>3 DEF Overwriting
<1>5. ASSUME NEW w \in overwritten', w \notin overwritten
      PROVE  \E c \in unencoded(s) : \E i \in first .. Len(logs'[s]) : w = new(c, i)
  BY <1>5 DEF overwriteFrom
<1> HIDE DEF new
<1> QED BY <1>1, <1>4, <1>5

\* Start appends within the bound on logs.
LEMMA StartType ==
  ASSUME TypeInv, NEW s \in Server, Start(s)
  PROVE  TypeInv'
<1> USE DEF Start
<1>1. /\ currentTerm \in [Server -> 0 .. MaxTerm]
      /\ votedFor \in [Server -> Server \cup {NOBODY}]
      /\ logs \in [Server -> Log]
      /\ persisted \in [Server -> Saved]
      /\ Started
  BY DEF TypeInv, TypeOK
<1>2. [LogTerm |-> currentTerm[s], Command |-> s] \in Entry
  BY <1>1, BoundAssumption DEF Started, Entry
<1>3. Append(logs[s], [LogTerm |-> currentTerm[s], Command |-> s]) \in Log
  BY <1>1, <1>2, BoundAssumption DEF Log
<1>4. logs' \in [Server -> Log]
  BY <1>1, <1>3
<1>5. persisted' \in [Server -> Saved]
  BY <1>1, <1>4 DEF Saved, persist
<1>6. overwritten' \subseteq Overwriting
  <2> DEFINE log == Append(logs[s], [LogTerm |-> currentTerm[s], Command |-> s])
  <2>1. logs[s] \in Seq(Entry) /\ Len(logs[s]) \in Nat
    BY <1>1 DEF Log
  <2>2. Len(log) = Len(logs[s]) + 1
    BY <1>2, <2>1
  <2>3. logs'[s] = log
    BY <1>1
  <2> HIDE DEF log
  <2>4. Len(logs'[s]) \in Nat \ {0} /\ logs'[s] \in Log
    BY <1>4, <2>1, <2>2, <2>3
  <2> QED BY <2>4, overwriteFromType
<1>7. TypeOK'
  BY <1>4, <1>5, <1>6 DEF TypeOK, TypeInv, leaderVars, loopVars
<1>8. Started'
  BY <1>1 DEF Started, leaderVars, loopVars
<1> QED BY <1>7, <1>8 DEF TypeInv, CallsTyped

\* The term of an entry.
LEMMA LogTermType ==
  ASSUME NEW log \in Log, NEW i \in 0 .. Len(log)
  PROVE  LogTerm(log, i) \in 0 .. MaxTerm /\ (i > 0 => LogTerm(log, i) > 0)
<1>1. CASE i = 0
  BY <1>1, BoundAssumption DEF LogTerm
<1>2. CASE i > 0
  <2>1. log[i] \in Entry
    BY <1>2 DEF Log
  <2> QED BY <1>2, <2>1, BoundAssumption DEF LogTerm, Entry
<1> QED BY <1>1, <1>2

\* A call has the type of its rpc.
LEMMA CallType ==
  ASSUME TypeInv, NEW c \in BagToSet(calls)
  PROVE  /\ WellFormed(c)
         /\ c.rpc = "AppendEntries" => c \in AppendCall
         /\ c.rpc = "RequestVote" => c \in VoteCall
         /\ c.from \in Server /\ c.to \in Server /\ c.incarnation \in Nat
<1>1. c \in AppendCall \cup VoteCall /\ WellFormed(c)
  BY DEF TypeInv, TypeOK, CallsTyped
<1> QED BY <1>1 DEF AppendCall, VoteCall

\* The call a reply belongs to stays well formed.
LEMMA AppendReplyType ==
  ASSUME NEW c \in AppendCall, WellFormed(c), NEW r \in AppendReply,
         ~r.Success /\ r.Term <= c.args.Term => r.NextIndex \in 1 .. c.args.PrevLogIndex
  PROVE  [c EXCEPT !.reply = r] \in AppendCall /\ WellFormed([c EXCEPT !.reply = r])
<1> DEFINE d == [c EXCEPT !.reply = r]
<1>1. /\ d \in AppendCall /\ d.rpc = c.rpc /\ d.from = c.from /\ d.to = c.to
      /\ d.args = c.args /\ d.reply = r
  BY DEF AppendCall
<1> HIDE DEF d
<1>2. WellFormed(d)
  BY <1>1 DEF WellFormed, IsAppend
<1> QED BY <1>1, <1>2 DEF d

\* The same for a vote.
LEMMA VoteReplyType ==
  ASSUME NEW c \in VoteCall, WellFormed(c), NEW r \in VoteReply
  PROVE  [c EXCEPT !.reply = r] \in VoteCall /\ WellFormed([c EXCEPT !.reply = r])
<1> DEFINE d == [c EXCEPT !.reply = r]
<1>1. d \in VoteCall /\ d.rpc = c.rpc /\ d.from = c.from /\ d.to = c.to
  BY DEF VoteCall
<1>2. c.rpc = "RequestVote"
  BY DEF VoteCall
<1> HIDE DEF d
<1>3. WellFormed(d)
  BY <1>1, <1>2 DEF WellFormed, IsAppend
<1> QED BY <1>1, <1>3 DEF d

\* Calls that are typed and well formed may be added.
LEMMA MoreCalls ==
  ASSUME TypeInv, NEW C, \A c \in C : c \in AppendCall \cup VoteCall /\ WellFormed(c),
         BagToSet(calls') \subseteq BagToSet(calls) \cup C
  PROVE  BagToSet(calls') \subseteq AppendCall \cup VoteCall /\ CallsTyped'
<1>1. BagToSet(calls) \subseteq AppendCall \cup VoteCall /\ CallsTyped
  BY DEF TypeInv, TypeOK
<1> QED BY <1>1 DEF CallsTyped

\* So may one call.
LEMMA OneMoreCall ==
  ASSUME TypeInv, NEW d, d \in AppendCall \/ d \in VoteCall, WellFormed(d),
         BagToSet(calls') \subseteq BagToSet(calls) \cup {d}
  PROVE  BagToSet(calls') \subseteq AppendCall \cup VoteCall /\ CallsTyped'
<1>1. BagToSet(calls) \subseteq AppendCall \cup VoteCall /\ CallsTyped
  BY DEF TypeInv, TypeOK
<1> QED BY <1>1 DEF CallsTyped

\* Calls may be taken away.
LEMMA FewerCalls ==
  ASSUME TypeInv, BagToSet(calls') \subseteq BagToSet(calls)
  PROVE  BagToSet(calls') \subseteq AppendCall \cup VoteCall /\ CallsTyped'
<1>1. BagToSet(calls) \subseteq AppendCall \cup VoteCall /\ CallsTyped
  BY DEF TypeInv, TypeOK
<1> QED BY <1>1 DEF CallsTyped

\* The calls of an election.
LEMMA AskType ==
  ASSUME TypeInv, NEW s \in Server, NEW args \in VoteArgs, AskForVotes(s, args)
  PROVE  BagToSet(calls') \subseteq AppendCall \cup VoteCall /\ CallsTyped'
<1> DEFINE C == {newCall("RequestVote", s, i, args) : i \in Server \ {s}}
<1>1. incarnation[s] \in Nat
  BY DEF TypeInv, TypeOK
<1>2. \A i \in Server \ {s} : LET c == newCall("RequestVote", s, i, args)
                              IN  c \in VoteCall /\ WellFormed(c)
  BY <1>1 DEF newCall, VoteCall, WellFormed, IsAppend
<1>3. \A c \in C : c \in AppendCall \cup VoteCall /\ WellFormed(c)
  BY <1>2
<1>4. BagToSet(calls') \subseteq BagToSet(calls) \cup C
  BY CallSends DEF AskForVotes
<1> HIDE DEF C
<1> QED BY <1>3, <1>4, MoreCalls

\* broadcastRequestVote asks with the term and the end of the log.
LEMMA broadcastRequestVoteType ==
  ASSUME TypeInv, NEW s \in Server, broadcastRequestVote(s)
  PROVE  TypeInv'
<1> DEFINE args == [Term |-> currentTerm[s], LastLogTerm |-> getLastTerm(logs[s]),
                    LastLogIndex |-> getLastIndex(logs[s])]
<1>1. /\ currentTerm \in [Server -> 0 .. MaxTerm]
      /\ logs \in [Server -> Log]
      /\ broadcasting \in [Server -> Nat]
      /\ DOMAIN ballots = Server
      /\ \A t \in Server : BagToSet(ballots[t]) \subseteq VoteArgs
      /\ BagToSet(calls) \subseteq AppendCall \cup VoteCall
      /\ CallsTyped
      /\ Started
  BY DEF TypeInv, TypeOK
<1>2. args \in VoteArgs
  <2>1. currentTerm[s] \in 1 .. MaxTerm
    BY <1>1, BoundAssumption DEF Started, broadcastRequestVote
  <2>2. logs[s] \in Log /\ Len(logs[s]) \in 0 .. MaxLog
    BY <1>1 DEF Log
  <2>3. getLastTerm(logs[s]) \in 0 .. MaxTerm
    BY <2>2, LogTermType DEF getLastTerm
  <2> QED BY <2>1, <2>2, <2>3 DEF VoteArgs, getLastIndex
<1>3. broadcasting' \in [Server -> Nat] /\ \A t \in Server : broadcasting'[t] <= broadcasting[t]
  BY <1>1 DEF broadcastRequestVote
<1>4. /\ BagToSet(calls') \subseteq AppendCall \cup VoteCall
      /\ CallsTyped'
      /\ DOMAIN ballots' = Server
      /\ \A t \in Server : BagToSet(ballots'[t]) \subseteq VoteArgs
  <2>1. CASE state[s] = "CANDIDATE"
    <3>1. AskForVotes(s, args) /\ ballots' = ballots
      BY <2>1 DEF broadcastRequestVote
    <3> HIDE DEF args
    <3> QED BY <1>1, <1>2, <3>1, AskType
  <2>2. CASE state[s] # "CANDIDATE"
    <3>1. ballots' = [ballots EXCEPT ![s] = @ (+) SetToBag({args})] /\ calls' = calls
      BY <2>2 DEF broadcastRequestVote
    <3> HIDE DEF args
    <3>2. BagToSet(ballots[s] (+) SetToBag({args})) = BagToSet(ballots[s]) \cup {args}
      BY BagPlus, BagOfSet, Zenon
    <3>3. BagToSet(ballots[s] (+) SetToBag({args})) \subseteq VoteArgs
      BY <1>1, <1>2, <3>2
    <3>4. \A t \in Server : ballots'[t] = IF t = s THEN ballots[s] (+) SetToBag({args}) ELSE ballots[t]
      BY <1>1, <3>1
    <3>5. DOMAIN ballots' = Server
      BY <1>1, <3>1
    <3>6. \A t \in Server : BagToSet(ballots'[t]) \subseteq VoteArgs
      BY <1>1, <3>3, <3>4
    <3>7. CallsTyped'
      BY <1>1, <3>1 DEF CallsTyped
    <3> QED BY <1>1, <3>1, <3>5, <3>6, <3>7
  <2> QED BY <2>1, <2>2
<1> HIDE DEF args
<1>5. TypeOK'
  BY <1>3, <1>4 DEF broadcastRequestVote, TypeOK, TypeInv, persistentVars, leaderVars, loopVars, historyVars
<1>6. Started'
  BY <1>1, <1>3 DEF broadcastRequestVote, Started, persistentVars, leaderVars
<1> QED BY <1>4, <1>5, <1>6 DEF TypeInv

\* lateRequestVote asks with the arguments it kept.
LEMMA lateRequestVoteType ==
  ASSUME TypeInv, NEW s \in Server, lateRequestVote(s)
  PROVE  TypeInv'
<1>1. /\ DOMAIN ballots = Server
      /\ \A t \in Server : BagToSet(ballots[t]) \subseteq VoteArgs
      /\ Started
  BY DEF TypeInv, TypeOK
<1>2. PICK args \in BagToSet(ballots[s]) :
        /\ ballots' = [ballots EXCEPT ![s] = @ (-) SetToBag({args})]
        /\ AskForVotes(s, args)
  BY DEF lateRequestVote
<1>3. BagToSet(calls') \subseteq AppendCall \cup VoteCall /\ CallsTyped'
  BY <1>1, <1>2, AskType
<1>4. BagToSet(ballots[s] (-) SetToBag({args})) \subseteq BagToSet(ballots[s])
  BY BagMinus, Zenon
<1>5. /\ DOMAIN ballots' = Server
      /\ \A t \in Server : ballots'[t] = IF t = s THEN ballots[s] (-) SetToBag({args}) ELSE ballots[t]
  BY <1>1, <1>2
<1>6. \A t \in Server : BagToSet(ballots'[t]) \subseteq VoteArgs
  BY <1>1, <1>4, <1>5
<1>7. TypeOK'
  BY <1>3, <1>5, <1>6 DEF lateRequestVote, TypeOK, TypeInv, persistentVars, leaderVars, loopVars, historyVars
<1>8. Started'
  BY <1>1 DEF lateRequestVote, Started, persistentVars, leaderVars
<1> QED BY <1>3, <1>7, <1>8 DEF TypeInv

\* Calls that are refused because their term is old.
LEMMA RejectType ==
  ASSUME TypeInv, NEW s \in Server, NEW c \in BagToSet(calls),
         RejectVote(s, c) \/ RejectEntries(s, c)
  PROVE  TypeInv'
<1>1. currentTerm \in [Server -> 0 .. MaxTerm] /\ Started
  BY DEF TypeInv, TypeOK
<1>2. BagToSet(calls') \subseteq AppendCall \cup VoteCall /\ CallsTyped'
  <2>1. CASE RejectVote(s, c)
    <3> DEFINE r == [Term |-> currentTerm[s], VoteGranted |-> FALSE]
               d == [c EXCEPT !.reply = r]
    <3>1. r \in VoteReply
      BY <1>1 DEF VoteReply
    <3>2. c \in VoteCall /\ WellFormed(c)
      BY <2>1, CallType DEF RejectVote, IsRequest
    <3>3. Reply(c, r)
      BY <2>1 DEF RejectVote
    <3> HIDE DEF r
    <3>4. d \in VoteCall /\ WellFormed(d)
      BY <3>1, <3>2, VoteReplyType
    <3>5. BagToSet(calls') \subseteq BagToSet(calls) \cup {d}
      BY <3>3, ReplySends
    <3> HIDE DEF d
    <3> QED BY <3>4, <3>5, OneMoreCall
  <2>2. CASE RejectEntries(s, c)
    <3> DEFINE r == [Term |-> currentTerm[s], Success |-> FALSE, NextIndex |-> 0]
               d == [c EXCEPT !.reply = r]
    <3>1. c \in AppendCall /\ WellFormed(c) /\ c.args.Term < currentTerm[s]
      BY <2>2, CallType DEF RejectEntries, IsRequest, isStale
    <3>2. r \in AppendReply /\ r.Term = currentTerm[s]
      BY <1>1, BoundAssumption DEF AppendReply
    <3>3. Reply(c, r)
      BY <2>2 DEF RejectEntries
    <3> HIDE DEF r
    <3>4. ~(r.Term <= c.args.Term)
      <4>1. c.args.Term \in Nat /\ currentTerm[s] \in Nat
        BY <1>1, <3>1, BoundAssumption DEF AppendCall, AppendArgs
      <4> QED BY <3>1, <3>2, <4>1
    <3>5. d \in AppendCall /\ WellFormed(d)
      BY <3>1, <3>2, <3>4, AppendReplyType
    <3>6. BagToSet(calls') \subseteq BagToSet(calls) \cup {d}
      BY <3>3, ReplySends
    <3> HIDE DEF d
    <3> QED BY <3>5, <3>6, OneMoreCall
  <2> QED BY <2>1, <2>2
<1>3. UNCHANGED <<persistentVars, commitIndex, lastApplied, leaderVars, state, voteCount,
                  chanCommit, chanHeartBeat, chanBeElected, loopVars, incarnation, applied,
                  panicked, historyVars>>
  BY DEF RejectVote, RejectEntries
<1>4. TypeOK'
  BY <1>2, <1>3 DEF TypeOK, TypeInv, persistentVars, leaderVars, loopVars, historyVars
<1>5. Started'
  BY <1>1, <1>3 DEF Started, persistentVars, leaderVars, loopVars
<1> QED BY <1>2, <1>4, <1>5 DEF TypeInv

\* Terms that do not go back, of servers that do not come to power by the
\* step, keep Started.
LEMMA StartedKept ==
  ASSUME TypeInv,
         currentTerm' \in [Server -> 0 .. MaxTerm],
         \A t \in Server : currentTerm[t] <= currentTerm'[t],
         \A t \in Server : state'[t] = "LEADER" => state[t] = "LEADER",
         UNCHANGED <<nextIndex, broadcasting, pc, lastApplied, applied>>
  PROVE  Started'
<1>1. currentTerm \in [Server -> 0 .. MaxTerm] /\ Started
  BY DEF TypeInv, TypeOK
<1> SUFFICES ASSUME NEW t \in Server PROVE Started!(t)'
  BY DEF Started
<1>2. currentTerm[t] > 0 => currentTerm'[t] > 0
  BY <1>1, BoundAssumption
<1> QED BY <1>1, <1>2 DEF Started

\* RequestVote answers, and gives its vote.
LEMMA RequestVoteType ==
  ASSUME TypeInv, NEW s \in Server, NEW c \in BagToSet(calls), RequestVote(s, c)
  PROVE  TypeInv'
<1> DEFINE newer == c.args.Term > currentTerm[s]
           vote == IF newer THEN NOBODY ELSE votedFor[s]
           granted == isValidArgs(vote, logs[s], c.from, c.args)
           r == [Term |-> currentTerm'[s], VoteGranted |-> granted]
           d == [c EXCEPT !.reply = r]
<1>1. /\ currentTerm \in [Server -> 0 .. MaxTerm]
      /\ votedFor \in [Server -> Server \cup {NOBODY}]
      /\ persisted \in [Server -> Saved]
      /\ logs \in [Server -> Log]
      /\ state \in [Server -> {"LEADER", "CANDIDATE", "FOLLOWER"}]
      /\ chanHeartBeat \in [Server -> 0 .. Cap]
      /\ votes \subseteq Server \X (1 .. MaxTerm) \X Server
  BY DEF TypeInv, TypeOK
<1>2. c \in VoteCall /\ WellFormed(c) /\ c.from \in Server /\ c.args.Term \in 1 .. MaxTerm
  <2>1. c \in VoteCall /\ WellFormed(c) /\ c.from \in Server
    BY CallType DEF RequestVote, IsRequest
  <2> QED BY <2>1 DEF VoteCall, VoteArgs
<1>3. /\ granted => chanHeartBeat[s] < Cap
      /\ currentTerm' = [currentTerm EXCEPT ![s] = IF newer THEN c.args.Term ELSE @]
      /\ state' = [state EXCEPT ![s] = IF newer THEN "FOLLOWER" ELSE @]
      /\ votedFor' = [votedFor EXCEPT ![s] = IF granted THEN c.from ELSE vote]
      /\ chanHeartBeat' = [chanHeartBeat EXCEPT ![s] = IF granted THEN @ + 1 ELSE @]
      /\ logs' = logs
      /\ persist(s)
      /\ Reply(c, r)
      /\ votes' = IF granted THEN votes \cup {<<s, c.args.Term, c.from>>} ELSE votes
      /\ UNCHANGED <<commitIndex, lastApplied, leaderVars, voteCount, chanCommit, chanBeElected,
                     loopVars, incarnation, applied, panicked, elected, overwritten, misread>>
  BY DEF RequestVote
<1>4. granted \in BOOLEAN
  BY DEF isValidArgs
<1>5. newer \in BOOLEAN /\ (newer => c.args.Term > currentTerm[s])
  OBVIOUS
<1>6. vote \in Server \cup {NOBODY}
  BY <1>1
<1> HIDE DEF granted, newer, vote
<1>7. currentTerm' \in [Server -> 0 .. MaxTerm] /\ \A t \in Server : currentTerm[t] <= currentTerm'[t]
  BY <1>1, <1>2, <1>3, <1>5, BoundAssumption
<1>8. /\ state' \in [Server -> {"LEADER", "CANDIDATE", "FOLLOWER"}]
      /\ \A t \in Server : state'[t] = "LEADER" => state[t] = "LEADER"
  BY <1>1, <1>3
<1>9. votedFor' \in [Server -> Server \cup {NOBODY}]
  BY <1>1, <1>2, <1>3, <1>6
<1>10. chanHeartBeat' \in [Server -> 0 .. Cap]
  BY <1>1, <1>3, BoundAssumption
<1>11. persisted' \in [Server -> Saved]
  BY <1>1, <1>3, <1>7, <1>9 DEF persist, Saved
<1>12. votes' \subseteq Server \X (1 .. MaxTerm) \X Server
  BY <1>1, <1>2, <1>3
<1>13. BagToSet(calls') \subseteq AppendCall \cup VoteCall /\ CallsTyped'
  <2>1. r \in VoteReply
    BY <1>4, <1>7 DEF VoteReply
  <2> HIDE DEF r
  <2>2. d \in VoteCall /\ WellFormed(d)
    BY <1>2, <2>1, VoteReplyType
  <2>3. BagToSet(calls') \subseteq BagToSet(calls) \cup {d}
    BY <1>3, ReplySends
  <2> HIDE DEF d
  <2> QED BY <2>2, <2>3, OneMoreCall
<1> HIDE DEF r, d
<1>14. TypeOK'
  BY <1>3, <1>7, <1>8, <1>9, <1>10, <1>11, <1>12, <1>13
  DEF TypeOK, TypeInv, leaderVars, loopVars
<1>15. Started'
  BY <1>3, <1>7, <1>8, StartedKept DEF leaderVars, loopVars
<1> QED BY <1>13, <1>14, <1>15 DEF TypeInv

\* StepDown takes over the term of a reply.
LEMMA StepDownType ==
  ASSUME TypeInv, NEW s \in Server, NEW c \in BagToSet(calls), StepDown(s, c)
  PROVE  TypeInv'
<1> USE DEF StepDown, newTerm
<1>1. /\ currentTerm \in [Server -> 0 .. MaxTerm]
      /\ votedFor \in [Server -> Server \cup {NOBODY}]
      /\ persisted \in [Server -> Saved]
      /\ logs \in [Server -> Log]
      /\ state \in [Server -> {"LEADER", "CANDIDATE", "FOLLOWER"}]
  BY DEF TypeInv, TypeOK
<1>2. c.reply.Term \in 0 .. MaxTerm
  <2>1. c \in AppendCall \/ c \in VoteCall
    BY CallType DEF IsReply
  <2>2. c.reply # noReply
    BY DEF IsReply
  <2> QED BY <2>1, <2>2 DEF AppendCall, VoteCall, AppendReply, VoteReply
<1>3. currentTerm' \in [Server -> 0 .. MaxTerm] /\ \A t \in Server : currentTerm[t] <= currentTerm'[t]
  BY <1>1, <1>2, BoundAssumption
<1>4. /\ state' \in [Server -> {"LEADER", "CANDIDATE", "FOLLOWER"}]
      /\ \A t \in Server : state'[t] = "LEADER" => state[t] = "LEADER"
  BY <1>1
<1>5. votedFor' \in [Server -> Server \cup {NOBODY}]
  BY <1>1
<1>6. persisted' \in [Server -> Saved]
  BY <1>1, <1>3, <1>5 DEF persist, Saved
<1>7. BagToSet(calls') \subseteq AppendCall \cup VoteCall /\ CallsTyped'
  BY ReceiveSends, FewerCalls
<1>8. TypeOK'
  BY <1>3, <1>4, <1>5, <1>6, <1>7 DEF TypeOK, TypeInv, leaderVars, loopVars, historyVars
<1>9. Started'
  BY <1>3, <1>4, StartedKept DEF leaderVars, loopVars
<1> QED BY <1>7, <1>8, <1>9 DEF TypeInv

\* DealVoteReply counts a vote of the current term.
LEMMA DealVoteReplyType ==
  ASSUME TypeInv, NEW s \in Server, NEW c \in BagToSet(calls), DealVoteReply(s, c)
  PROVE  TypeInv'
<1> DEFINE count == IF Counts(s, c) THEN voteCount[s] + 1 ELSE voteCount[s]
           win == Counts(s, c) /\ isMajority(count) /\ state[s] = "CANDIDATE"
<1>1. /\ voteCount \in [Server -> Nat]
      /\ chanBeElected \in [Server -> Seq(1 .. MaxTerm)]
      /\ Started
  BY DEF TypeInv, TypeOK
<1>2. count \in Nat
  BY <1>1
<1>3. win => currentTerm[s] \in 1 .. MaxTerm
  <2>1. c \in VoteCall
    BY CallType DEF DealVoteReply, IsReply
  <2> QED BY <2>1 DEF VoteCall, VoteArgs, Counts
<1>4. /\ voteCount' = [voteCount EXCEPT ![s] = count]
      /\ chanBeElected' = [chanBeElected EXCEPT ![s] = IF win THEN Append(@, currentTerm[s]) ELSE @]
  BY DEF DealVoteReply
<1> HIDE DEF count, win
<1>5. voteCount' \in [Server -> Nat] /\ chanBeElected' \in [Server -> Seq(1 .. MaxTerm)]
  <2>1. voteCount' \in [Server -> Nat]
    BY <1>1, <1>2, <1>4
  <2>2. CASE win
    <3>1. Append(chanBeElected[s], currentTerm[s]) \in Seq(1 .. MaxTerm)
      BY <1>1, <1>3, <2>2
    <3> QED BY <1>1, <1>4, <2>1, <2>2, <3>1
  <2>3. CASE ~win
    BY <1>1, <1>4, <2>1, <2>3
  <2> QED BY <2>2, <2>3
<1>6. BagToSet(calls') \subseteq AppendCall \cup VoteCall /\ CallsTyped'
  BY ReceiveSends, FewerCalls DEF DealVoteReply
<1>7. TypeOK'
  BY <1>5, <1>6 DEF DealVoteReply, TypeOK, TypeInv, persistentVars, leaderVars, loopVars, historyVars
<1>8. Started'
  BY <1>1 DEF DealVoteReply, Started, persistentVars, leaderVars, loopVars
<1> QED BY <1>6, <1>7, <1>8 DEF TypeInv

\* The part of a log that follows an index.
LEMMA SuffixType ==
  ASSUME NEW log \in Log, NEW prev \in 0 .. Len(log)
  PROVE  LET entries == SubSeq(log, prev + 1, Len(log))
         IN  /\ entries \in Seq(Entry)
             /\ Len(entries) = Len(log) - prev
             /\ \A k \in 1 .. Len(entries) : entries[k] = log[prev + k]
<1>1. log \in Seq(Entry) /\ Len(log) \in Nat
  BY DEF Log
<1> DEFINE entries == SubSeq(log, prev + 1, Len(log))
<1>2. /\ entries \in Seq(Entry)
      /\ Len(entries) = IF prev + 1 <= Len(log) THEN Len(log) - (prev + 1) + 1 ELSE 0
      /\ \A k \in 1 .. Len(log) - (prev + 1) + 1 : entries[k] = log[prev + 1 + k - 1]
  BY <1>1, SubSeqProperties
<1>3. Len(entries) = Len(log) - prev
  BY <1>1, <1>2
<1>4. \A k \in 1 .. Len(entries) : entries[k] = log[prev + k]
  <2> TAKE k \in 1 .. Len(entries)
  <2>1. k \in 1 .. Len(log) - (prev + 1) + 1 /\ prev + 1 + k - 1 = prev + k
    BY <1>1, <1>3
  <2> QED BY <1>2, <2>1
<1> QED BY <1>2, <1>3, <1>4

\* newCommitIndex is 0 or the index of an entry that is not committed yet.
LEMMA newCommitIndexType ==
  ASSUME TypeInv, NEW s \in Server
  PROVE  /\ newCommitIndex(s) \in 0 .. Len(logs[s])
         /\ newCommitIndex(s) = 0 \/ newCommitIndex(s) > commitIndex[s]
<1>1. Len(logs[s]) \in Nat /\ commitIndex[s] \in Nat
  <2>1. logs \in [Server -> Log] /\ commitIndex \in [Server -> 0 .. MaxLog]
    BY DEF TypeInv, TypeOK
  <2> QED BY <2>1, BoundAssumption DEF Log
<1> DEFINE I == {idx \in commitIndex[s] + 1 .. getLastIndex(logs[s]) : isMajority(replicas(s, idx))}
<1>2. \A i \in I : i \in 0 .. Len(logs[s]) /\ i > commitIndex[s]
  BY <1>1 DEF getLastIndex
<1>3. newCommitIndex(s) = Max({0} \cup I)
  BY DEF newCommitIndex
<1> HIDE DEF I
<1>4. {0} \cup I \in SUBSET (0 .. Len(logs[s])) /\ {0} \cup I # {}
  BY <1>1, <1>2
<1>5. Max({0} \cup I) \in {0} \cup I
  BY <1>1, <1>4, MaxBounded
<1> QED BY <1>1, <1>2, <1>3, <1>5

\* The arguments of AppendEntries at a leader: an index of its log and all
\* that follows.
LEMMA newAppendEntriesArgsType ==
  ASSUME TypeInv, NEW s \in Server, NEW id \in Server, NEW commit \in 0 .. MaxLog,
         state[s] = "LEADER", nextIndex[s][id] - 1 <= getLastIndex(logs[s])
  PROVE  LET args == newAppendEntriesArgs(s, id, commit)
         IN  /\ args \in AppendArgs
             /\ args.Term = currentTerm[s]
             /\ args.PrevLogIndex \in 0 .. Len(logs[s])
             /\ args.PrevLogTerm = LogTerm(logs[s], args.PrevLogIndex)
             /\ args.PrevLogIndex + Len(args.Entries) = Len(logs[s])
             /\ args.PrevLogIndex = nextIndex[s][id] - 1
             /\ \A k \in 1 .. Len(args.Entries) : args.Entries[k] = logs[s][args.PrevLogIndex + k]
<1> DEFINE prev == nextIndex[s][id] - 1
           entries == SubSeq(logs[s], prev + 1, Len(logs[s]))
           args == newAppendEntriesArgs(s, id, commit)
<1>1. /\ currentTerm \in [Server -> 0 .. MaxTerm]
      /\ logs \in [Server -> Log]
      /\ nextIndex \in [Server -> [Server -> 0 .. MaxLog + 1]]
      /\ Started
  BY DEF TypeInv, TypeOK
<1>2. currentTerm[s] \in 1 .. MaxTerm
  BY <1>1, BoundAssumption DEF Started
<1>3. logs[s] \in Log /\ Len(logs[s]) \in 0 .. MaxLog
  BY <1>1 DEF Log
<1>4. prev \in 0 .. Len(logs[s]) /\ prev \in 0 .. MaxLog
  <2>1. nextIndex[s][id] \in 0 .. MaxLog + 1 /\ nextIndex[s][id] > 0
    BY <1>1 DEF Started
  <2> QED BY <1>3, <2>1, BoundAssumption DEF getLastIndex
<1>5. args = [Term |-> currentTerm[s], PrevLogIndex |-> prev, PrevLogTerm |-> LogTerm(logs[s], prev),
              LeaderCommit |-> commit, Entries |-> entries]
  BY DEF newAppendEntriesArgs
<1> HIDE DEF prev, args
<1>6. /\ entries \in Seq(Entry)
      /\ Len(entries) = Len(logs[s]) - prev
      /\ \A k \in 1 .. Len(entries) : entries[k] = logs[s][prev + k]
  BY <1>3, <1>4, SuffixType
<1>7. LogTerm(logs[s], prev) \in 0 .. MaxTerm
  BY <1>3, <1>4, LogTermType
<1> HIDE DEF entries
<1>8. /\ args.Term = currentTerm[s] /\ args.PrevLogIndex = prev /\ args.Entries = entries
      /\ args.PrevLogTerm = LogTerm(logs[s], prev)
  BY <1>5
<1>9. prev + Len(entries) = Len(logs[s])
  BY <1>3, <1>4, <1>6
<1>10. args \in AppendArgs
  BY <1>2, <1>3, <1>4, <1>5, <1>6, <1>7, <1>8, <1>9 DEF AppendArgs
<1> QED BY <1>4, <1>6, <1>8, <1>9, <1>10 DEF prev, args

\* broadcastAppendEntries commits within the log and sends parts of it.
LEMMA broadcastAppendEntriesType ==
  ASSUME TypeInv, NEW s \in Server, broadcastAppendEntries(s)
  PROVE  TypeInv'
<1> DEFINE new == newCommitIndex(s)
           advance == new > commitIndex[s]
           commit == IF advance THEN new ELSE commitIndex[s]
           outOfRange == \E id \in Server \ {s} : nextIndex[s][id] - 1 > getLastIndex(logs[s])
           C == {newCall("AppendEntries", s, id, newAppendEntriesArgs(s, id, commit))
                   : id \in Server \ {s}}
<1>1. /\ logs \in [Server -> Log]
      /\ commitIndex \in [Server -> 0 .. MaxLog]
      /\ chanCommit \in [Server -> 0 .. Cap]
      /\ nextIndex \in [Server -> [Server -> 0 .. MaxLog + 1]]
      /\ pc \in [Server -> {"switch", "newElection", "candidate", "newHeartBeat"}]
      /\ incarnation \in [Server -> Nat]
      /\ Started
      /\ CallsTyped
      /\ BagToSet(calls) \subseteq AppendCall \cup VoteCall
  BY DEF TypeInv, TypeOK
<1>2. /\ advance => chanCommit[s] < Cap
      /\ commitIndex' = [commitIndex EXCEPT ![s] = commit]
      /\ chanCommit' = [chanCommit EXCEPT ![s] = IF advance THEN @ + 1 ELSE @]
      /\ panicked' = (state[s] = "LEADER" /\ outOfRange)
      /\ IF state[s] = "LEADER" /\ ~outOfRange THEN Call(C) ELSE UNCHANGED calls
      /\ pc' = [pc EXCEPT ![s] = "switch"]
      /\ UNCHANGED <<persistentVars, lastApplied, leaderVars, state, voteCount, chanHeartBeat,
                     chanBeElected, broadcasting, ballots, incarnation, applied, historyVars>>
  BY DEF broadcastAppendEntries
<1>3. commit \in 0 .. MaxLog
  <2>1. new \in 0 .. Len(logs[s]) /\ Len(logs[s]) \in 0 .. MaxLog
    BY <1>1, newCommitIndexType DEF Log
  <2>2. new \in 0 .. MaxLog /\ commitIndex[s] \in 0 .. MaxLog
    BY <1>1, <2>1, BoundAssumption
  <2> QED BY <2>2
<1> HIDE DEF commit, advance
<1>4. commitIndex' \in [Server -> 0 .. MaxLog]
  BY <1>1, <1>2, <1>3
<1>5. chanCommit' \in [Server -> 0 .. Cap]
  BY <1>1, <1>2, BoundAssumption
<1>6. pc' \in [Server -> {"switch", "newElection", "candidate", "newHeartBeat"}]
  BY <1>1, <1>2
<1>7. panicked' \in BOOLEAN
  BY <1>2
<1>8. BagToSet(calls') \subseteq AppendCall \cup VoteCall /\ CallsTyped'
  <2>1. CASE state[s] = "LEADER" /\ ~outOfRange
    <3>1. Call(C)
      BY <1>2, <2>1
    <3>2. ASSUME NEW id \in Server \ {s}
          PROVE  LET c == newCall("AppendEntries", s, id, newAppendEntriesArgs(s, id, commit))
                 IN  c \in AppendCall /\ WellFormed(c)
      <4>1. nextIndex[s][id] - 1 <= getLastIndex(logs[s])
        <5>1. nextIndex[s][id] \in Int /\ getLastIndex(logs[s]) \in Int
          BY <1>1, BoundAssumption DEF getLastIndex, Log
        <5>2. ~(nextIndex[s][id] - 1 > getLastIndex(logs[s]))
          BY <2>1
        <5> QED BY <5>1, <5>2
      <4> DEFINE args == newAppendEntriesArgs(s, id, commit)
      <4>2. args \in AppendArgs /\ args.PrevLogTerm = LogTerm(logs[s], args.PrevLogIndex)
        BY <1>3, <2>1, <4>1, newAppendEntriesArgsType
      <4> HIDE DEF args
      <4>3. args.PrevLogIndex = 0 => args.PrevLogTerm = 0
        BY <4>2 DEF LogTerm
      <4>4. incarnation[s] \in Nat /\ s # id
        BY <1>1
      <4>5. newCall("AppendEntries", s, id, args) \in AppendCall
        BY <4>2, <4>4 DEF newCall, AppendCall
      <4>6. WellFormed(newCall("AppendEntries", s, id, args))
        BY <4>3, <4>4 DEF newCall, WellFormed, IsAppend
      <4> QED BY <4>5, <4>6 DEF args
    <3>3. \A c \in C : c \in AppendCall \cup VoteCall /\ WellFormed(c)
      BY <3>2
    <3> HIDE DEF C
    <3>4. BagToSet(calls') \subseteq BagToSet(calls) \cup C
      BY <3>1, CallSends
    <3> QED BY <3>3, <3>4, MoreCalls
  <2>2. CASE ~(state[s] = "LEADER" /\ ~outOfRange)
    BY <1>1, <1>2, <2>2 DEF CallsTyped
  <2> QED BY <2>1, <2>2
<1> HIDE DEF outOfRange, C, new
<1>9. TypeOK'
  BY <1>2, <1>4, <1>5, <1>6, <1>7, <1>8
  DEF TypeOK, TypeInv, persistentVars, leaderVars, historyVars
<1>10. Started'
  BY <1>1, <1>2 DEF Started, persistentVars, leaderVars
<1> QED BY <1>8, <1>9, <1>10 DEF TypeInv

\* The part of a log up to an index, and entries after it.
LEMMA replaceFromType ==
  ASSUME NEW log \in Seq(Entry), NEW prev \in 0 .. Len(log), NEW entries \in Seq(Entry)
  PROVE  LET new == replaceFrom(log, prev, entries)
         IN  /\ new \in Seq(Entry)
             /\ Len(new) = prev + Len(entries)
             /\ \A i \in 1 .. prev : new[i] = log[i]
             /\ \A k \in 1 .. Len(entries) : new[prev + k] = entries[k]
<1> DEFINE part == SubSeq(log, 1, prev)
           new == part \o entries
<1>1. Len(log) \in Nat /\ Len(entries) \in Nat
  OBVIOUS
<1>2. /\ part \in Seq(Entry)
      /\ Len(part) = IF 1 <= prev THEN prev - 1 + 1 ELSE 0
      /\ \A i \in 1 .. prev - 1 + 1 : part[i] = log[1 + i - 1]
  BY <1>1, SubSeqProperties
<1>3. Len(part) = prev /\ \A i \in 1 .. prev : part[i] = log[i]
  BY <1>1, <1>2
<1> HIDE DEF part
<1>4. /\ new \in Seq(Entry)
      /\ Len(new) = Len(part) + Len(entries)
      /\ \A i \in 1 .. Len(part) + Len(entries) : 
           new[i] = IF i <= Len(part) THEN part[i] ELSE entries[i - Len(part)]
  BY <1>2, ConcatProperties
<1> HIDE DEF new
<1>5. \A i \in 1 .. prev : new[i] = log[i]
  BY <1>1, <1>3, <1>4
<1>6. \A k \in 1 .. Len(entries) : new[prev + k] = entries[k]
  <2> TAKE k \in 1 .. Len(entries)
  <2>1. prev + k \in 1 .. Len(part) + Len(entries) /\ ~(prev + k <= Len(part)) /\ prev + k - Len(part) = k
    BY <1>1, <1>3
  <2> QED BY <1>4, <2>1
<1> QED BY <1>3, <1>4, <1>5, <1>6 DEF replaceFrom, new, part

\* Where the leader shall try next is not after the entry that did not match.
LEMMA conflictIndexType ==
  ASSUME NEW log \in Log, NEW args \in AppendArgs, ~Matches(log, args)
  PROVE  conflictIndex(log, args.PrevLogIndex) \in 1 .. args.PrevLogIndex
<1> DEFINE prev == args.PrevLogIndex
           I == {i \in 0 .. prev - 1 : LogTerm(log, i) # LogTerm(log, prev)}
<1>1. prev \in Nat /\ Len(log) \in Nat
  BY BoundAssumption DEF AppendArgs, Log
<1>2. CASE prev > Len(log)
  BY <1>1, <1>2 DEF conflictIndex, getLastIndex
<1>3. CASE ~(prev > Len(log))
  <2>1. prev > 0 /\ prev \in 0 .. Len(log)
    BY <1>1, <1>3 DEF Matches, getLastIndex
  <2>2. LogTerm(log, 0) = 0 /\ LogTerm(log, prev) > 0 /\ LogTerm(log, prev) \in Nat
    BY <2>1, LogTermType, BoundAssumption DEF LogTerm
  <2>3. I \in SUBSET (0 .. prev - 1) /\ I # {} /\ prev - 1 \in Nat
    <3>1. 0 \in 0 .. prev - 1 /\ prev - 1 \in Nat
      BY <1>1, <2>1
    <3> QED BY <2>2, <3>1
  <2>4. conflictIndex(log, prev) = 1 + Max(I)
    BY <1>3 DEF conflictIndex, getLastIndex
  <2> HIDE DEF I
  <2>5. Max(I) \in 0 .. prev - 1
    BY <2>3, MaxBounded
  <2> QED BY <1>1, <2>4, <2>5
<1> QED BY <1>2, <1>3

\* Terms, state and vote after AcceptTerm.
LEMMA AcceptTermType ==
  ASSUME TypeInv, NEW s \in Server, NEW c \in BagToSet(calls), AcceptTerm(s, c)
  PROVE  /\ currentTerm' \in [Server -> 0 .. MaxTerm]
         /\ \A t \in Server : currentTerm[t] <= currentTerm'[t]
         /\ currentTerm'[s] = c.args.Term
         /\ state' \in [Server -> {"LEADER", "CANDIDATE", "FOLLOWER"}]
         /\ \A t \in Server : state'[t] = "LEADER" => state[t] = "LEADER"
         /\ votedFor' \in [Server -> Server \cup {NOBODY}]
         /\ chanHeartBeat' \in [Server -> 0 .. Cap]
         /\ c \in AppendCall /\ WellFormed(c) /\ c.args \in AppendArgs
<1>1. /\ currentTerm \in [Server -> 0 .. MaxTerm]
      /\ votedFor \in [Server -> Server \cup {NOBODY}]
      /\ state \in [Server -> {"LEADER", "CANDIDATE", "FOLLOWER"}]
      /\ chanHeartBeat \in [Server -> 0 .. Cap]
  BY DEF TypeInv, TypeOK
<1>2. c \in AppendCall /\ WellFormed(c)
  BY CallType DEF AcceptTerm, IsRequest
<1>3. c.args \in AppendArgs /\ c.args.Term \in 1 .. MaxTerm
  BY <1>2 DEF AppendCall, AppendArgs
<1>4. chanHeartBeat' \in [Server -> 0 .. Cap]
  BY <1>1, BoundAssumption DEF AcceptTerm
<1>5. CASE c.args.Term > currentTerm[s]
  <2>1. newTerm(s, c.args.Term)
    BY <1>5 DEF AcceptTerm
  <2>2. /\ currentTerm' \in [Server -> 0 .. MaxTerm]
        /\ \A t \in Server : currentTerm[t] <= currentTerm'[t]
        /\ currentTerm'[s] = c.args.Term
    BY <1>1, <1>3, <1>5, <2>1, BoundAssumption DEF newTerm
  <2> QED BY <1>1, <1>2, <1>3, <1>4, <2>1, <2>2 DEF newTerm
<1>6. CASE ~(c.args.Term > currentTerm[s])
  <2>1. UNCHANGED <<currentTerm, state, votedFor>>
    BY <1>6 DEF AcceptTerm
  <2>2. c.args.Term = currentTerm[s]
    BY <1>1, <1>3, <1>6, BoundAssumption DEF AcceptTerm, isStale
  <2> QED BY <1>1, <1>2, <1>3, <1>4, <2>1, <2>2, BoundAssumption
<1> QED BY <1>5, <1>6

\* RefuseEntries answers with an index the leader has.
LEMMA RefuseEntriesType ==
  ASSUME TypeInv, NEW s \in Server, NEW c \in BagToSet(calls), RefuseEntries(s, c)
  PROVE  TypeInv'
<1> DEFINE r == [Term |-> currentTerm'[s], Success |-> FALSE,
                 NextIndex |-> conflictIndex(logs[s], c.args.PrevLogIndex)]
           d == [c EXCEPT !.reply = r]
<1>1. logs \in [Server -> Log] /\ persisted \in [Server -> Saved]
  BY DEF TypeInv, TypeOK
<1>2. AcceptTerm(s, c) /\ ~Matches(logs[s], c.args) /\ Reply(c, r) /\ persist(s)
  BY DEF RefuseEntries
<1>3. /\ currentTerm' \in [Server -> 0 .. MaxTerm]
      /\ \A t \in Server : currentTerm[t] <= currentTerm'[t]
      /\ state' \in [Server -> {"LEADER", "CANDIDATE", "FOLLOWER"}]
      /\ \A t \in Server : state'[t] = "LEADER" => state[t] = "LEADER"
      /\ votedFor' \in [Server -> Server \cup {NOBODY}]
      /\ chanHeartBeat' \in [Server -> 0 .. Cap]
      /\ c \in AppendCall /\ WellFormed(c) /\ c.args \in AppendArgs
  BY <1>2, AcceptTermType
<1>4. conflictIndex(logs[s], c.args.PrevLogIndex) \in 1 .. c.args.PrevLogIndex
  BY <1>1, <1>2, <1>3, conflictIndexType
<1>5. r \in AppendReply /\ r.NextIndex \in 1 .. c.args.PrevLogIndex
  BY <1>3, <1>4, BoundAssumption DEF AppendReply, AppendArgs
<1> HIDE DEF r
<1>6. d \in AppendCall /\ WellFormed(d)
  BY <1>3, <1>5, AppendReplyType
<1>7. BagToSet(calls') \subseteq BagToSet(calls) \cup {d}
  BY <1>2, ReplySends
<1> HIDE DEF d
<1>8. BagToSet(calls') \subseteq AppendCall \cup VoteCall /\ CallsTyped'
  BY <1>6, <1>7, OneMoreCall
<1>9. UNCHANGED <<logs, commitIndex, chanCommit, lastApplied, leaderVars, voteCount,
                  chanBeElected, loopVars, incarnation, applied, panicked, historyVars>>
  BY DEF RefuseEntries, AcceptTerm, historyVars
<1>10. persisted' \in [Server -> Saved]
  BY <1>1, <1>2, <1>3, <1>9 DEF persist, Saved
<1>11. TypeOK'
  BY <1>3, <1>8, <1>9, <1>10 DEF TypeOK, TypeInv, leaderVars, loopVars, historyVars
<1>12. Started'
  BY <1>3, <1>9, StartedKept DEF leaderVars, loopVars
<1> QED BY <1>8, <1>11, <1>12 DEF TypeInv

\* What a request brings has the type and the length of what was sent.
LEMMA encodedType ==
  ASSUME TypeInv, NEW c \in AppendCall, NEW entries \in encoded(c)
  PROVE  entries \in Seq(Entry) /\ Len(entries) = Len(c.args.Entries)
<1> DEFINE D == DOMAIN c.args.Entries
<1>1. c.args.Entries \in Seq(Entry) /\ Len(c.args.Entries) \in Nat /\ D = 1 .. Len(c.args.Entries)
  BY DEF AppendCall, AppendArgs
<1>2. overwritten \subseteq Overwriting
  BY DEF TypeInv, TypeOK
<1>3. ASSUME NEW k \in D PROVE mayRead(c, k) \subseteq Entry
  <2> DEFINE E == {c.args.Entries[k]} \cup
                  {w.entry : w \in {v \in overwritten : /\ v.from = c.from /\ v.args = c.args
                                                       /\ v.incarnation = c.incarnation
                                                       /\ v.index = c.args.PrevLogIndex + k}}
  <2>1. c.args.Entries[k] \in Entry
    BY <1>1
  <2>2. E \subseteq Entry
    BY <1>2, <2>1 DEF Overwriting
  <2>3. mayRead(c, k) = [LogTerm : {e.LogTerm : e \in E}, Command : {e.Command : e \in E}]
    BY DEF mayRead
  <2> HIDE DEF E
  <2>4. {e.LogTerm : e \in E} \subseteq 1 .. MaxTerm /\ {e.Command : e \in E} \subseteq Server
    BY <2>2 DEF Entry
  <2> QED BY <2>3, <2>4 DEF Entry
<1>4. /\ entries \in [D -> UNION {mayRead(c, k) : k \in D}]
      /\ \A k \in D : entries[k] \in mayRead(c, k)
  BY DEF encoded
<1> HIDE DEF D
<1>5. entries \in [1 .. Len(c.args.Entries) -> Entry]
  BY <1>1, <1>3, <1>4
<1> QED BY <1>1, <1>5

\* AppendEntries: the log and the commit index stay within the bound.
LEMMA AppendEntriesType ==
  ASSUME TypeInv, NEW s \in Server, NEW c \in BagToSet(calls), AppendEntries(s, c)
  PROVE  TypeInv'
<1>0. PICK entries \in encoded(c) : TakeEntries(s, c, entries)
  BY DEF AppendEntries
<1> DEFINE log == replaceFrom(logs[s], c.args.PrevLogIndex, entries)
           advance == advances(c.args, commitIndex[s])
           r == [Term |-> currentTerm'[s], Success |-> TRUE, NextIndex |-> getLastIndex(log) + 1]
           d == [c EXCEPT !.reply = r]
<1>1. /\ logs \in [Server -> Log] /\ persisted \in [Server -> Saved]
      /\ commitIndex \in [Server -> 0 .. MaxLog]
      /\ chanCommit \in [Server -> 0 .. Cap]
  BY DEF TypeInv, TypeOK
<1>2. /\ AcceptTerm(s, c)
      /\ Matches(logs[s], c.args)
      /\ logs' = [logs EXCEPT ![s] = log]
      /\ advance => chanCommit[s] < Cap
      /\ commitIndex' = [commitIndex EXCEPT
                           ![s] = IF advance THEN Min({c.args.LeaderCommit, getLastIndex(log)}) ELSE @]
      /\ chanCommit' = [chanCommit EXCEPT ![s] = IF advance THEN @ + 1 ELSE @]
      /\ Reply(c, r)
      /\ persist(s)
      /\ overwriteFrom(s, c.args.PrevLogIndex + 1)
      /\ misread' = (misread \/ entries # c.args.Entries)
  BY <1>0 DEF AppendEntries, TakeEntries
<1>3. /\ currentTerm' \in [Server -> 0 .. MaxTerm]
      /\ \A t \in Server : currentTerm[t] <= currentTerm'[t]
      /\ state' \in [Server -> {"LEADER", "CANDIDATE", "FOLLOWER"}]
      /\ \A t \in Server : state'[t] = "LEADER" => state[t] = "LEADER"
      /\ votedFor' \in [Server -> Server \cup {NOBODY}]
      /\ chanHeartBeat' \in [Server -> 0 .. Cap]
      /\ c \in AppendCall /\ WellFormed(c) /\ c.args \in AppendArgs
  BY <1>2, AcceptTermType
<1>4. log \in Log /\ Len(log) \in 0 .. MaxLog
  <2>1. /\ c.args.PrevLogIndex \in Nat
        /\ entries \in Seq(Entry)
        /\ c.args.PrevLogIndex + Len(entries) <= MaxLog
    BY <1>0, <1>3, encodedType, BoundAssumption DEF AppendArgs
  <2>2. logs[s] \in Seq(Entry) /\ c.args.PrevLogIndex \in 0 .. Len(logs[s])
    BY <1>1, <1>2, <2>1 DEF Matches, getLastIndex, Log
  <2>3. log \in Seq(Entry) /\ Len(log) = c.args.PrevLogIndex + Len(entries)
    BY <2>1, <2>2, replaceFromType
  <2> HIDE DEF log
  <2> QED BY <2>1, <2>3, BoundAssumption DEF Log
<1> HIDE DEF log, advance
<1>5. logs' \in [Server -> Log]
  BY <1>1, <1>2, <1>4
<1>6. commitIndex' \in [Server -> 0 .. MaxLog]
  <2>1. c.args.LeaderCommit \in 0 .. MaxLog
    BY <1>3 DEF AppendArgs
  <2>2. Min({c.args.LeaderCommit, Len(log)}) \in {c.args.LeaderCommit, Len(log)}
    BY <1>4, <2>1, BoundAssumption, MinOfTwo
  <2> QED BY <1>1, <1>2, <1>4, <2>1, <2>2 DEF getLastIndex
<1>7. chanCommit' \in [Server -> 0 .. Cap]
  BY <1>1, <1>2, BoundAssumption
<1>8. r \in AppendReply /\ r.Success
  BY <1>3, <1>4, BoundAssumption DEF AppendReply, getLastIndex
<1> HIDE DEF r
<1>9. d \in AppendCall /\ WellFormed(d)
  BY <1>3, <1>8, AppendReplyType
<1>10. BagToSet(calls') \subseteq BagToSet(calls) \cup {d}
  BY <1>2, ReplySends
<1> HIDE DEF d
<1>11. BagToSet(calls') \subseteq AppendCall \cup VoteCall /\ CallsTyped'
  BY <1>9, <1>10, OneMoreCall
<1>12. UNCHANGED <<lastApplied, leaderVars, voteCount, chanBeElected, loopVars, incarnation,
                   applied, panicked, votes, elected>>
  BY <1>2 DEF AcceptTerm
<1>13. persisted' \in [Server -> Saved]
  BY <1>1, <1>2, <1>3, <1>5 DEF persist, Saved
<1>14. overwritten' \subseteq Overwriting /\ misread' \in BOOLEAN
  <2>1. c.args.PrevLogIndex + 1 \in Nat \ {0} /\ logs'[s] \in Log
    BY <1>3, <1>5, BoundAssumption DEF AppendArgs
  <2>2. overwritten' \subseteq Overwriting
    BY <1>2, <2>1, overwriteFromType
  <2> QED BY <1>2, <2>2
<1>14a. TypeOK'
  BY <1>3, <1>5, <1>6, <1>7, <1>11, <1>12, <1>13, <1>14 DEF TypeOK, TypeInv, leaderVars, loopVars
<1>15. Started'
  BY <1>3, <1>12, StartedKept DEF leaderVars, loopVars
<1> QED BY <1>11, <1>14a, <1>15 DEF TypeInv

\* What a reply to AppendEntries makes of the tables of a leader: nothing, an
\* entry after those it sent, or an entry it has sent.
LEMMA DealAppendReplyEffect ==
  ASSUME TypeInv, NEW s \in Server, NEW c \in BagToSet(calls), DealAppendReply(s, c)
  PROVE  /\ c \in AppendCall
         /\ \/ UNCHANGED leaderVars
            \/ /\ currentTerm[s] = c.args.Term /\ c.from = s
               /\ \E n \in 1 .. c.args.PrevLogIndex + Len(c.args.Entries) + 1 :
                    nextIndex' = [nextIndex EXCEPT ![s][c.to] = n]
               /\ \/ UNCHANGED matchIndex
                  \/ matchIndex' = [matchIndex EXCEPT
                                      ![s][c.to] = c.args.PrevLogIndex + Len(c.args.Entries)]
<1>1. c \in AppendCall /\ WellFormed(c) /\ c.from = s /\ c.reply # noReply
  BY CallType DEF DealAppendReply, IsReply
<1>2. /\ c.args.PrevLogIndex \in Nat /\ Len(c.args.Entries) \in Nat
      /\ c.reply \in AppendReply
  BY <1>1, BoundAssumption DEF AppendCall, AppendArgs
<1>3. CASE currentTerm[s] # c.args.Term \/ (c.reply.Success /\ c.args.Entries = <<>>)
  BY <1>1, <1>3 DEF DealAppendReply
<1>4. CASE ~(currentTerm[s] # c.args.Term \/ (c.reply.Success /\ c.args.Entries = <<>>))
  <2>1. CASE c.reply.Success
    <3> DEFINE last == c.args.PrevLogIndex + Len(c.args.Entries)
    <3>1. /\ nextIndex' = [nextIndex EXCEPT ![s][c.to] = last + 1]
          /\ matchIndex' = [matchIndex EXCEPT ![s][c.to] = last]
      BY <1>4, <2>1 DEF DealAppendReply, lastArgsLogIndex
    <3>2. last + 1 \in 1 .. last + 1
      BY <1>2
    <3> HIDE DEF last
    <3>3. \E n \in 1 .. last + 1 : nextIndex' = [nextIndex EXCEPT ![s][c.to] = n]
      BY <3>1, <3>2
    <3> QED BY <1>1, <1>4, <3>1, <3>3 DEF last
  <2>2. CASE ~c.reply.Success
    <3>1. nextIndex' = [nextIndex EXCEPT ![s][c.to] = c.reply.NextIndex] /\ UNCHANGED matchIndex
      BY <1>4, <2>2 DEF DealAppendReply
    <3>2. c.reply.Term <= currentTerm[s]
      BY DEF DealAppendReply
    <3>3. IsAppend(c)
      BY <1>1 DEF AppendCall, IsAppend
    <3>4. c.reply.NextIndex \in 1 .. c.args.PrevLogIndex
      BY <1>1, <1>4, <2>2, <3>2, <3>3 DEF WellFormed
    <3>5. c.reply.NextIndex \in 1 .. c.args.PrevLogIndex + Len(c.args.Entries) + 1
      BY <1>2, <3>4
    <3> QED BY <1>1, <1>4, <3>1, <3>5
  <2> QED BY <2>1, <2>2
<1> QED BY <1>3, <1>4

\* DealAppendReply keeps the tables within the bound.
LEMMA DealAppendReplyType ==
  ASSUME TypeInv, NEW s \in Server, NEW c \in BagToSet(calls), DealAppendReply(s, c)
  PROVE  TypeInv'
<1>1. /\ nextIndex \in [Server -> [Server -> 0 .. MaxLog + 1]]
      /\ matchIndex \in [Server -> [Server -> 0 .. MaxLog]]
      /\ Started
  BY DEF TypeInv, TypeOK
<1>2. /\ c \in AppendCall
      /\ \/ UNCHANGED leaderVars
         \/ /\ currentTerm[s] = c.args.Term
            /\ \E n \in 1 .. c.args.PrevLogIndex + Len(c.args.Entries) + 1 :
                 nextIndex' = [nextIndex EXCEPT ![s][c.to] = n]
            /\ \/ UNCHANGED matchIndex
               \/ matchIndex' = [matchIndex EXCEPT
                                   ![s][c.to] = c.args.PrevLogIndex + Len(c.args.Entries)]
  BY DealAppendReplyEffect
<1>3. c.args.PrevLogIndex + Len(c.args.Entries) \in 0 .. MaxLog /\ c.to \in Server
  BY <1>2, BoundAssumption DEF AppendCall, AppendArgs
<1>4. /\ nextIndex' \in [Server -> [Server -> 0 .. MaxLog + 1]]
      /\ \A t, id \in Server : nextIndex[t][id] > 0 => nextIndex'[t][id] > 0
  <2>1. CASE UNCHANGED leaderVars
    BY <1>1, <2>1 DEF leaderVars
  <2>2. CASE \E n \in 1 .. c.args.PrevLogIndex + Len(c.args.Entries) + 1 :
               nextIndex' = [nextIndex EXCEPT ![s][c.to] = n]
    <3>1. PICK n \in 1 .. c.args.PrevLogIndex + Len(c.args.Entries) + 1 :
             nextIndex' = [nextIndex EXCEPT ![s][c.to] = n]
      BY <2>2
    <3>2. n \in 0 .. MaxLog + 1 /\ n > 0
      BY <1>3, <3>1, BoundAssumption
    <3> QED BY <1>1, <3>1, <3>2
  <2> QED BY <1>2, <2>1, <2>2
<1>5. matchIndex' \in [Server -> [Server -> 0 .. MaxLog]]
  <2>1. CASE UNCHANGED matchIndex
    BY <1>1, <2>1
  <2>2. CASE matchIndex' = [matchIndex EXCEPT ![s][c.to] = c.args.PrevLogIndex + Len(c.args.Entries)]
    <3> DEFINE n == c.args.PrevLogIndex + Len(c.args.Entries)
    <3> HIDE DEF n
    <3>1. matchIndex' = [matchIndex EXCEPT ![s][c.to] = n] /\ n \in 0 .. MaxLog
      BY <1>3, <2>2 DEF n
    <3> QED BY <1>1, <1>3, <3>1
  <2> QED BY <1>2, <2>1, <2>2 DEF leaderVars
<1>6. BagToSet(calls') \subseteq AppendCall \cup VoteCall /\ CallsTyped'
  BY ReceiveSends, FewerCalls DEF DealAppendReply
<1>7. UNCHANGED <<persistentVars, commitIndex, lastApplied, state, voteCount, chanCommit,
                  chanHeartBeat, chanBeElected, loopVars, incarnation, applied, panicked,
                  historyVars>>
  BY DEF DealAppendReply
<1>8. TypeOK'
  BY <1>4, <1>5, <1>6, <1>7 DEF TypeOK, TypeInv, persistentVars, loopVars, historyVars
<1>9. Started'
  BY <1>1, <1>4, <1>7 DEF Started, persistentVars, loopVars
<1> QED BY <1>6, <1>8, <1>9 DEF TypeInv

\* What applyLoop delivers are entries of the log.
LEMMA applyLoopType ==
  ASSUME TypeInv, NEW s \in Server, applyLoop(s)
  PROVE  TypeInv'
<1> DEFINE last == applies(s)
           first == lastApplied[s] + 1
           end == Max({Len(applied[s]), last})
           record == deliver(applied[s], logs[s], first, last)
<1>1. /\ logs \in [Server -> Log]
      /\ commitIndex \in [Server -> 0 .. MaxLog]
      /\ lastApplied \in [Server -> 0 .. MaxLog]
      /\ chanCommit \in [Server -> 0 .. Cap]
      /\ applied \in [Server -> Seq(Entry)]
      /\ Started
  BY DEF TypeInv, TypeOK
<1>2. /\ chanCommit[s] > 0
      /\ chanCommit' = [chanCommit EXCEPT ![s] = @ - 1]
      /\ lastApplied' = [lastApplied EXCEPT ![s] = Max({@, last})]
      /\ applied' = [applied EXCEPT ![s] = record]
      /\ panicked' = (commitIndex[s] > lastApplied[s] /\ commitIndex[s] > getLastIndex(logs[s]))
      /\ UNCHANGED <<persistentVars, commitIndex, leaderVars, state, voteCount, chanHeartBeat,
                     chanBeElected, loopVars, incarnation, calls, historyVars>>
  BY DEF applyLoop
<1>3. /\ last \in 0 .. MaxLog /\ last <= Len(logs[s]) /\ logs[s] \in Seq(Entry)
      /\ applied[s] \in Seq(Entry) /\ Len(applied[s]) \in Nat
      /\ lastApplied[s] \in 0 .. MaxLog /\ lastApplied[s] <= Len(applied[s])
  <2>1. Len(logs[s]) \in 0 .. MaxLog /\ logs[s] \in Seq(Entry)
    BY <1>1 DEF Log
  <2>2. commitIndex[s] \in Nat /\ Len(logs[s]) \in Nat /\ commitIndex[s] \in 0 .. MaxLog
    BY <1>1, <2>1, BoundAssumption
  <2>3. last \in {commitIndex[s], Len(logs[s])} /\ last <= Len(logs[s])
    BY <2>2, MinOfTwo DEF applies, getLastIndex
  <2>4. applied[s] \in Seq(Entry) /\ Len(applied[s]) \in Nat
    BY <1>1
  <2>5. lastApplied[s] \in 0 .. MaxLog /\ lastApplied[s] <= Len(applied[s])
    BY <1>1 DEF Started
  <2> HIDE DEF last
  <2> QED BY <2>1, <2>2, <2>3, <2>4, <2>5
<1> HIDE DEF last
<1>4. last \in Nat /\ lastApplied[s] \in Nat
  BY <1>3, BoundAssumption
<1>5. end \in {Len(applied[s]), last} /\ end >= Len(applied[s]) /\ end >= last
  BY <1>3, <1>4, MaxOfTwo
<1>6. Max({lastApplied[s], last}) \in 0 .. MaxLog /\ Max({lastApplied[s], last}) <= end
  <2>1. Max({lastApplied[s], last}) \in {lastApplied[s], last}
    BY <1>4, MaxOfTwo
  <2> HIDE DEF end
  <2> QED BY <1>3, <1>4, <1>5, <2>1
<1>7. record \in Seq(Entry) /\ Len(record) = end
  <2>1. record = [i \in 1 .. end |-> IF i \in first .. last THEN logs[s][i] ELSE applied[s][i]]
    BY DEF deliver
  <2>2. end \in Nat
    BY <1>3, <1>4, <1>5
  <2> HIDE DEF end, record
  <2>3. ASSUME NEW i \in 1 .. end
        PROVE  (IF i \in first .. last THEN logs[s][i] ELSE applied[s][i]) \in Entry
    <3>1. CASE i \in first .. last
      <4>1. i \in 1 .. Len(logs[s])
        BY <1>3, <1>4, <3>1
      <4> QED BY <1>3, <3>1, <4>1
    <3>2. CASE i \notin first .. last
      <4>1. i <= Len(applied[s])
        BY <1>3, <1>4, <1>5, <2>2, <3>2
      <4> QED BY <1>3, <2>2, <3>2, <4>1
    <3> QED BY <3>1, <3>2
  <2>4. record \in [1 .. end -> Entry]
    BY <2>1, <2>3
  <2> QED BY <2>2, <2>4
<1> HIDE DEF record, end
<1>8. chanCommit' \in [Server -> 0 .. Cap]
  BY <1>1, <1>2, BoundAssumption
<1>9. lastApplied' \in [Server -> 0 .. MaxLog]
  BY <1>1, <1>2, <1>6
<1>10. applied' \in [Server -> Seq(Entry)]
  BY <1>1, <1>2, <1>7
<1>11. TypeOK'
  BY <1>2, <1>8, <1>9, <1>10 DEF TypeOK, TypeInv, persistentVars, leaderVars, loopVars, historyVars
<1>12. Started'
  <2>1. \A t \in Server : lastApplied'[t] <= Len(applied'[t])
    <3> TAKE t \in Server
    <3>1. CASE t = s
      BY <1>1, <1>2, <1>6, <1>7, <3>1
    <3>2. CASE t # s
      BY <1>1, <1>2, <3>2 DEF Started
    <3> QED BY <3>1, <3>2
  <2> QED BY <1>1, <1>2, <2>1 DEF Started, persistentVars, leaderVars, loopVars
<1> QED BY <1>2, <1>11, <1>12 DEF TypeInv, CallsTyped

\* Restart takes over what was saved.
LEMMA RestartType ==
  ASSUME TypeInv, NEW s \in Server, Restart(s)
  PROVE  TypeInv'
<1> USE DEF Restart
<1>1. /\ currentTerm \in [Server -> 0 .. MaxTerm]
      /\ votedFor \in [Server -> Server \cup {NOBODY}]
      /\ logs \in [Server -> Log]
      /\ persisted \in [Server -> Saved]
      /\ commitIndex \in [Server -> 0 .. MaxLog]
      /\ lastApplied \in [Server -> 0 .. MaxLog]
      /\ nextIndex \in [Server -> [Server -> 0 .. MaxLog + 1]]
      /\ matchIndex \in [Server -> [Server -> 0 .. MaxLog]]
      /\ state \in [Server -> {"LEADER", "CANDIDATE", "FOLLOWER"}]
      /\ voteCount \in [Server -> Nat]
      /\ chanCommit \in [Server -> 0 .. Cap]
      /\ chanHeartBeat \in [Server -> 0 .. Cap]
      /\ chanBeElected \in [Server -> Seq(1 .. MaxTerm)]
      /\ pc \in [Server -> {"switch", "newElection", "candidate", "newHeartBeat"}]
      /\ broadcasting \in [Server -> Nat]
      /\ incarnation \in [Server -> Nat]
      /\ applied \in [Server -> Seq(Entry)]
  BY DEF TypeInv, TypeOK
<1>2. DOMAIN ballots = Server /\ \A t \in Server : BagToSet(ballots[t]) \subseteq VoteArgs
  BY DEF TypeInv, TypeOK
<1>3. persisted[s] \in Saved
  BY <1>1
<1>4. /\ currentTerm' \in [Server -> 0 .. MaxTerm]
      /\ votedFor' \in [Server -> Server \cup {NOBODY}]
      /\ logs' \in [Server -> Log]
  BY <1>1, <1>3 DEF Saved
<1>5. commitIndex' \in [Server -> 0 .. MaxLog] /\ lastApplied' \in [Server -> 0 .. MaxLog]
  <2>1. 0 \in 0 .. MaxLog
    BY BoundAssumption
  <2>2. /\ commitIndex' = [commitIndex EXCEPT ![s] = 0]
        /\ lastApplied' = [lastApplied EXCEPT ![s] = 0]
    OBVIOUS
  <2> HIDE DEF Restart
  <2> QED BY <1>1, <2>1, <2>2
<1>6. /\ nextIndex' \in [Server -> [Server -> 0 .. MaxLog + 1]]
      /\ matchIndex' \in [Server -> [Server -> 0 .. MaxLog]]
  <2>1. 0 \in 0 .. MaxLog /\ 0 \in 0 .. MaxLog + 1
    BY BoundAssumption
  <2>2. /\ nextIndex' = [nextIndex EXCEPT ![s] = [i \in Server |-> 0]]
        /\ matchIndex' = [matchIndex EXCEPT ![s] = [i \in Server |-> 0]]
    OBVIOUS
  <2> HIDE DEF Restart
  <2>3. /\ [i \in Server |-> 0] \in [Server -> 0 .. MaxLog + 1]
        /\ [i \in Server |-> 0] \in [Server -> 0 .. MaxLog]
    BY <2>1
  <2> QED BY <1>1, <2>2, <2>3
<1>7. /\ state' \in [Server -> {"LEADER", "CANDIDATE", "FOLLOWER"}]
      /\ pc' \in [Server -> {"switch", "newElection", "candidate", "newHeartBeat"}]
      /\ chanBeElected' \in [Server -> Seq(1 .. MaxTerm)]
  BY <1>1
<1>8. voteCount' \in [Server -> Nat] /\ broadcasting' \in [Server -> Nat] /\ incarnation' \in [Server -> Nat]
  BY <1>1
<1>9. chanCommit' \in [Server -> 0 .. Cap] /\ chanHeartBeat' \in [Server -> 0 .. Cap]
  BY <1>1, BoundAssumption
<1>10. DOMAIN ballots' = Server /\ \A t \in Server : BagToSet(ballots'[t]) \subseteq VoteArgs
  <2>1. BagToSet(EmptyBag) = {}
    BY DEF EmptyBag, SetToBag, BagToSet
  <2>2. DOMAIN ballots' = Server /\ \A t \in Server : ballots'[t] = IF t = s THEN EmptyBag ELSE ballots[t]
    BY <1>2
  <2> QED BY <1>2, <2>1, <2>2
<1>11. BagToSet(calls') \subseteq AppendCall \cup VoteCall /\ CallsTyped'
  BY RestartSends, FewerCalls
<1>12. UNCHANGED <<persisted, applied, panicked, votes, elected, overwritten, misread>>
  BY DEF historyVars
<1>13. TypeOK'
  <2> HIDE DEF Restart
  <2>1. /\ persisted \in [Server -> Saved] /\ applied \in [Server -> Seq(Entry)] /\ panicked \in BOOLEAN
        /\ votes \subseteq Server \X (1 .. MaxTerm) \X Server
        /\ elected \subseteq [leader : Server, term : 1 .. MaxTerm, token : 1 .. MaxTerm]
        /\ overwritten \subseteq Overwriting /\ misread \in BOOLEAN
    BY DEF TypeInv, TypeOK
  <2> QED BY <1>4, <1>5, <1>6, <1>7, <1>8, <1>9, <1>10, <1>11, <1>12, <2>1 DEF TypeOK
<1>14. Started'
  <2> SUFFICES ASSUME NEW t \in Server PROVE Started!(t)'
    BY DEF Started
  <2>1. Started
    BY DEF TypeInv
  <2>2. CASE t = s
    <3>1. state'[t] = "FOLLOWER" /\ broadcasting'[t] = 0 /\ pc'[t] = "switch" /\ lastApplied'[t] = 0
      BY <1>1, <2>2
    <3>2. Len(applied[t]) \in Nat
      BY <1>1
    <3> QED BY <1>12, <3>1, <3>2
  <2>3. CASE t # s
    <3>1. UNCHANGED <<state[t], currentTerm[t], nextIndex[t], broadcasting[t], pc[t], lastApplied[t]>>
      BY <1>1, <2>3
    <3> QED BY <1>12, <2>1, <3>1 DEF Started
  <2> QED BY <2>2, <2>3
<1> QED BY <1>11, <1>13, <1>14 DEF TypeInv

\* Every step keeps the types.
LEMMA TypeStep == TypeInv /\ [Next]_vars => TypeInv'
<1> SUFFICES ASSUME TypeInv, [Next]_vars PROVE TypeInv'
  OBVIOUS
<1>1. CASE UNCHANGED vars
  <2>1. TypeOK'
    BY <1>1 DEF TypeInv, TypeOK, vars, persistentVars, leaderVars, loopVars, historyVars
  <2>2. Started'
    BY <1>1 DEF TypeInv, Started, vars, persistentVars, leaderVars, loopVars
  <2> QED BY <1>1, <2>1, <2>2 DEF TypeInv, CallsTyped, vars
<1>2. CASE Next
  <2>1. PICK s \in Server : Next!(s)
    BY <1>2 DEF Next
  <2>2. CASE StatesLoop(s)
    BY <2>2, LoopType, newElectionType, comeToPowerType, broadcastAppendEntriesType DEF StatesLoop
  <2>3. CASE \E c \in BagToSet(calls) : HandleCall(s, c)
    BY <2>3, RejectType, RequestVoteType, RefuseEntriesType, AppendEntriesType DEF HandleCall
  <2>4. CASE \E c \in BagToSet(calls) : DealReply(s, c)
    BY <2>4, StepDownType, DealVoteReplyType, DealAppendReplyType DEF DealReply
  <2> QED
    BY <2>1, <2>2, <2>3, <2>4, broadcastRequestVoteType, lateRequestVoteType, StartType,
       applyLoopType, RestartType
<1> QED BY <1>1, <1>2

\* The invariant that TypeOK needs.
THEOREM Types == Spec => []TypeInv
<1>1. TypeInv /\ [Next]_vars => TypeInv'
  BY TypeStep
<1> QED BY <1>1, TypeInit, PTL DEF Spec

\* All variables have their types, for every number of servers and every
\* bound: no index of an entry, in a log, a call or a leader's table, and no
\* term leaves the range that clients and elections produced.
THEOREM TypeCorrect == Spec => []TypeOK
<1>1. TypeInv => TypeOK
  BY DEF TypeInv
<1> QED BY <1>1, Types, PTL

----------------------------------------------------------------------------
(* What is persistent.                                                     *)

\* A step leaves term, vote and log of every server alone, or changes those
\* of one server and saves them, or restarts a server.
LEMMA PersistentStep ==
  ASSUME TypeInv, NEW s \in Server, Next!(s)
  PROVE  \/ UNCHANGED persistentVars
         \/ persist(s) /\ \A t \in Server \ {s} : UNCHANGED <<currentTerm[t], votedFor[t], logs[t]>>
         \/ Restart(s)
<1>1. /\ currentTerm \in [Server -> 0 .. MaxTerm]
      /\ votedFor \in [Server -> Server \cup {NOBODY}]
      /\ logs \in [Server -> Log]
  BY DEF TypeInv, TypeOK
<1>2. CASE StatesLoop(s)
  BY <1>1, <1>2 DEF StatesLoop, SwitchState, FollowerTimeout, FollowerHeartBeat, newElection,
    CandidateTimeout, CandidateHeartBeat, comeToPower, broadcastAppendEntries
<1>3. CASE broadcastRequestVote(s) \/ lateRequestVote(s) \/ applyLoop(s) \/ Restart(s)
  BY <1>3 DEF broadcastRequestVote, lateRequestVote, applyLoop
<1>4. CASE Start(s)
  BY <1>1, <1>4 DEF Start
<1>5. CASE \E c \in BagToSet(calls) : HandleCall(s, c)
  <2>1. PICK c \in BagToSet(calls) : HandleCall(s, c)
    BY <1>5
  <2>2. CASE RejectVote(s, c) \/ RejectEntries(s, c)
    BY <2>2 DEF RejectVote, RejectEntries
  <2>3. CASE RequestVote(s, c)
    BY <1>1, <2>3 DEF RequestVote
  <2>4. CASE RefuseEntries(s, c)
    BY <1>1, <2>4 DEF RefuseEntries, AcceptTerm, newTerm
  <2>5. CASE AppendEntries(s, c)
    BY <1>1, <2>5 DEF AppendEntries, TakeEntries, AcceptTerm, newTerm
  <2> QED BY <2>1, <2>2, <2>3, <2>4, <2>5 DEF HandleCall
<1>6. CASE \E c \in BagToSet(calls) : DealReply(s, c)
  BY <1>1, <1>6 DEF DealReply, StepDown, DealVoteReply, DealAppendReply, newTerm
<1> QED BY <1>2, <1>3, <1>4, <1>5, <1>6

\* A restart brings back the term, the vote and the log the server had.
LEMMA RestartKeeps ==
  ASSUME TypeInv, PersistedIsCurrent, NEW s \in Server, Restart(s)
  PROVE  UNCHANGED persistentVars
<1>1. /\ currentTerm \in [Server -> 0 .. MaxTerm]
      /\ votedFor \in [Server -> Server \cup {NOBODY}]
      /\ logs \in [Server -> Log]
  BY DEF TypeInv, TypeOK
<1>2. /\ currentTerm' = [currentTerm EXCEPT ![s] = persisted[s].currentTerm]
      /\ votedFor' = [votedFor EXCEPT ![s] = persisted[s].votedFor]
      /\ logs' = [logs EXCEPT ![s] = persisted[s].logs]
      /\ persisted' = persisted
  BY DEF Restart
<1>3. /\ persisted[s].currentTerm = currentTerm[s]
      /\ persisted[s].votedFor = votedFor[s]
      /\ persisted[s].logs = logs[s]
  <2>1. persisted[s] = [currentTerm |-> currentTerm[s], votedFor |-> votedFor[s], logs |-> logs[s]]
    BY DEF PersistedIsCurrent
  <2> QED BY <2>1
<1>4. currentTerm' = currentTerm
  BY <1>1, <1>2, <1>3
<1>5. votedFor' = votedFor
  BY <1>1, <1>2, <1>3
<1>6. logs' = logs
  BY <1>1, <1>2, <1>3
<1> QED BY <1>2, <1>4, <1>5, <1>6 DEF persistentVars

\* What is saved is what the server has.
LEMMA PersistedStep ==
  TypeInv /\ TypeInv' /\ PersistedIsCurrent /\ [Next]_vars => PersistedIsCurrent'
<1> SUFFICES ASSUME TypeInv, TypeInv', PersistedIsCurrent, [Next]_vars PROVE PersistedIsCurrent'
  OBVIOUS
<1>1. CASE UNCHANGED vars
  BY <1>1 DEF PersistedIsCurrent, vars, persistentVars
<1>2. CASE Next
  <2>1. PICK s \in Server : Next!(s)
    BY <1>2 DEF Next
  <2>2. CASE UNCHANGED persistentVars
    BY <2>2 DEF PersistedIsCurrent, persistentVars
  <2>3. CASE persist(s) /\ \A t \in Server \ {s} : UNCHANGED <<currentTerm[t], votedFor[t], logs[t]>>
    <3>1. persisted \in [Server -> Saved]
      BY DEF TypeInv, TypeOK
    <3> QED BY <2>3, <3>1 DEF PersistedIsCurrent, persist
  <2>4. CASE Restart(s)
    BY <2>2, <2>4, RestartKeeps
  <2> QED BY <2>1, <2>2, <2>3, <2>4, PersistentStep
<1> QED BY <1>1, <1>2

\* Whenever the mutex is free, the Persister of every server holds the term,
\* the vote and the log that the server has: no handler changes one of them
\* without saving it.
THEOREM Persistence == Spec => []PersistedIsCurrent
<1>1. Init => PersistedIsCurrent
  BY DEF Init, InitFrom, PersistedIsCurrent
<1> QED BY <1>1, PersistedStep, Types, PTL DEF Spec

----------------------------------------------------------------------------
(* Terms and votes.                                                        *)

\* The terms and votes of a server: terms do not go back; a vote stays within
\* its term; a vote that is recorded is the one the server then has.
LEMMA TermStep ==
  ASSUME TypeInv, PersistedIsCurrent, [Next]_vars
  PROVE  /\ \A t \in Server : currentTerm[t] <= currentTerm'[t]
         /\ \A t \in Server : currentTerm'[t] = currentTerm[t] /\ votedFor[t] # NOBODY =>
                                votedFor'[t] = votedFor[t]
         /\ \/ votes' = votes
            \/ \E s \in Server : votes' = votes \cup {<<s, currentTerm'[s], votedFor'[s]>>}
<1>1. currentTerm \in [Server -> 0 .. MaxTerm] /\ votedFor \in [Server -> Server \cup {NOBODY}]
  BY DEF TypeInv, TypeOK
<1>2. \A t \in Server : currentTerm[t] \in Nat
  BY <1>1, BoundAssumption
<1>3. CASE UNCHANGED <<currentTerm, votedFor, votes>>
  BY <1>2, <1>3
<1>4. CASE UNCHANGED vars
  BY <1>3, <1>4 DEF vars, persistentVars, historyVars
<1>5. CASE Next
  <2>1. PICK s \in Server : Next!(s)
    BY <1>5 DEF Next
  <2>2. ASSUME NEW term \in Nat, term > currentTerm[s], newTerm(s, term), votes' = votes
        PROVE  /\ \A t \in Server : currentTerm[t] <= currentTerm'[t]
               /\ \A t \in Server : currentTerm'[t] = currentTerm[t] => votedFor'[t] = votedFor[t]
    BY <1>1, <1>2, <2>2 DEF newTerm
  <2>3. CASE newElection(s)
    <3>1. /\ \A t \in Server : currentTerm'[t] = IF t = s THEN currentTerm[t] + 1 ELSE currentTerm[t]
          /\ \A t \in Server : votedFor'[t] = IF t = s THEN s ELSE votedFor[t]
          /\ votes' = votes \cup {<<s, currentTerm[s] + 1, s>>}
      BY <1>1, <2>3 DEF newElection
    <3> QED BY <1>2, <3>1
  <2>4. CASE StatesLoop(s) /\ ~newElection(s)
    BY <1>3, <2>4 DEF StatesLoop, SwitchState, FollowerTimeout, FollowerHeartBeat,
      CandidateTimeout, CandidateHeartBeat, comeToPower, broadcastAppendEntries, persistentVars, historyVars
  <2>5. CASE broadcastRequestVote(s) \/ lateRequestVote(s) \/ applyLoop(s) \/ Start(s)
    BY <1>3, <2>5 DEF broadcastRequestVote, lateRequestVote, applyLoop, Start, persistentVars, historyVars
  <2>6. CASE Restart(s)
    <3>1. UNCHANGED persistentVars
      BY <2>6, RestartKeeps
    <3>2. votes' = votes
      BY <2>6 DEF Restart, historyVars
    <3> QED BY <1>3, <3>1, <3>2 DEF persistentVars
  <2>7. CASE \E c \in BagToSet(calls) : HandleCall(s, c)
    <3>1. PICK c \in BagToSet(calls) : HandleCall(s, c)
      BY <2>7
    <3>2. CASE RejectVote(s, c) \/ RejectEntries(s, c)
      BY <1>3, <3>2 DEF RejectVote, RejectEntries, persistentVars, historyVars
    <3>3. CASE RequestVote(s, c)
      <4> DEFINE newer == c.args.Term > currentTerm[s]
                 vote == IF newer THEN NOBODY ELSE votedFor[s]
                 granted == isValidArgs(vote, logs[s], c.from, c.args)
      <4>1. c.args.Term \in Nat /\ c.from \in Server
        <5>1. c \in VoteCall /\ c.from \in Server
          BY <3>3, CallType DEF RequestVote, IsRequest
        <5> QED BY <5>1, BoundAssumption DEF VoteCall, VoteArgs
      <4>2. /\ currentTerm' = [currentTerm EXCEPT ![s] = IF newer THEN c.args.Term ELSE @]
            /\ votedFor' = [votedFor EXCEPT ![s] = IF granted THEN c.from ELSE vote]
            /\ votes' = IF granted THEN votes \cup {<<s, c.args.Term, c.from>>} ELSE votes
            /\ ~(c.args.Term < currentTerm[s])
        BY <3>3 DEF RequestVote, isStale
      <4>3. granted => vote = NOBODY \/ vote = c.from
        BY DEF isValidArgs
      <4> HIDE DEF granted
      <4>4. \A t \in Server : currentTerm'[t] = IF t = s THEN c.args.Term ELSE currentTerm[t]
        BY <1>1, <1>2, <4>1, <4>2
      <4>5. \A t \in Server : currentTerm[t] <= currentTerm'[t]
        BY <1>2, <4>1, <4>2, <4>4
      <4>6. \A t \in Server : currentTerm'[t] = currentTerm[t] /\ votedFor[t] # NOBODY =>
                                votedFor'[t] = votedFor[t]
        <5> TAKE t \in Server
        <5>1. CASE t # s
          BY <1>1, <4>2, <5>1
        <5>2. CASE t = s /\ ~newer
          BY <1>1, <4>2, <4>3, <5>2
        <5>3. CASE t = s /\ newer
          BY <1>2, <4>1, <4>4, <5>3
        <5> QED BY <5>1, <5>2, <5>3
      <4>7. granted => votes' = votes \cup {<<s, currentTerm'[s], votedFor'[s]>>}
        BY <1>1, <4>2, <4>4
      <4> QED BY <4>2, <4>5, <4>6, <4>7
    <3>4. CASE RefuseEntries(s, c) \/ AppendEntries(s, c)
      <4>1. AcceptTerm(s, c) /\ votes' = votes
        BY <3>4 DEF RefuseEntries, AppendEntries, AcceptTerm, historyVars
      <4>2. c.args.Term \in Nat
        <5>1. c \in AppendCall
          BY <4>1, AcceptTermType
        <5> QED BY <5>1, BoundAssumption DEF AppendCall, AppendArgs
      <4>3. CASE c.args.Term > currentTerm[s]
        BY <2>2, <4>1, <4>2, <4>3 DEF AcceptTerm
      <4>4. CASE ~(c.args.Term > currentTerm[s])
        BY <1>3, <4>1, <4>4 DEF AcceptTerm
      <4> QED BY <4>3, <4>4
    <3> QED BY <3>1, <3>2, <3>3, <3>4 DEF HandleCall
  <2>8. CASE \E c \in BagToSet(calls) : DealReply(s, c)
    <3>1. PICK c \in BagToSet(calls) : DealReply(s, c)
      BY <2>8
    <3>2. CASE StepDown(s, c)
      <4>1. c.reply.Term \in Nat
        <5>1. (c \in AppendCall \/ c \in VoteCall) /\ c.reply # noReply
          BY <3>2, CallType DEF StepDown, IsReply
        <5> QED BY <5>1, BoundAssumption DEF AppendCall, VoteCall, AppendReply, VoteReply
      <4>2. c.reply.Term > currentTerm[s] /\ newTerm(s, c.reply.Term) /\ votes' = votes
        BY <3>2 DEF StepDown, historyVars
      <4> QED BY <2>2, <4>1, <4>2
    <3>3. CASE DealVoteReply(s, c) \/ DealAppendReply(s, c)
      BY <1>3, <3>3 DEF DealVoteReply, DealAppendReply, persistentVars, historyVars
    <3> QED BY <3>1, <3>2, <3>3 DEF DealReply
  <2> QED BY <2>1, <2>3, <2>4, <2>5, <2>6, <2>7, <2>8
<1> QED BY <1>4, <1>5

\* A server never goes back to an earlier term, whatever it is sent and
\* however often it crashes.
THEOREM TermsIncrease == Spec => TermMonotonic
<1>1. TypeInv /\ PersistedIsCurrent /\ [Next]_vars
        => [\A s \in Server : currentTerm[s] <= currentTerm'[s]]_vars
  BY TermStep
<1> QED BY <1>1, Types, Persistence, PTL DEF Spec, TermMonotonic

\* A server keeps its vote of a term and gives no second one.
LEMMA VotesStep ==
  TypeInv /\ TypeInv' /\ PersistedIsCurrent /\ VotesKept /\ OneVotePerTerm /\ [Next]_vars
    => VotesKept' /\ OneVotePerTerm'
<1> SUFFICES ASSUME TypeInv, TypeInv', PersistedIsCurrent, VotesKept, OneVotePerTerm, [Next]_vars
             PROVE  VotesKept' /\ OneVotePerTerm'
  OBVIOUS
<1>1. /\ currentTerm \in [Server -> 0 .. MaxTerm] /\ currentTerm' \in [Server -> 0 .. MaxTerm]
      /\ votes \subseteq Server \X (1 .. MaxTerm) \X Server
  BY DEF TypeInv, TypeOK
<1>2. /\ \A t \in Server : currentTerm[t] <= currentTerm'[t]
      /\ \A t \in Server : currentTerm'[t] = currentTerm[t] /\ votedFor[t] # NOBODY =>
                             votedFor'[t] = votedFor[t]
      /\ \/ votes' = votes
         \/ \E s \in Server : votes' = votes \cup {<<s, currentTerm'[s], votedFor'[s]>>}
  BY TermStep
<1>3. \A v \in votes : /\ v[1] \in Server /\ v[2] \in Nat /\ v[3] \in Server /\ v[3] # NOBODY
                       /\ currentTerm[v[1]] \in Nat /\ currentTerm'[v[1]] \in Nat
  BY <1>1, ServerAssumption, BoundAssumption
<1>4. \A v \in votes : /\ v[2] <= currentTerm'[v[1]]
                       /\ v[2] = currentTerm'[v[1]] => votedFor'[v[1]] = v[3]
  BY <1>2, <1>3 DEF VotesKept
<1>5. CASE votes' = votes
  BY <1>4, <1>5 DEF VotesKept, OneVotePerTerm
<1>6. CASE \E s \in Server : votes' = votes \cup {<<s, currentTerm'[s], votedFor'[s]>>}
  <2>1. PICK s \in Server : votes' = votes \cup {<<s, currentTerm'[s], votedFor'[s]>>}
    BY <1>6
  <2> DEFINE new == <<s, currentTerm'[s], votedFor'[s]>>
  <2>2. new[1] = s /\ new[2] = currentTerm'[s] /\ new[3] = votedFor'[s]
    OBVIOUS
  <2>3. currentTerm'[s] \in Nat
    BY <1>1, BoundAssumption
  <2>4. votes' = votes \cup {new}
    BY <2>1
  <2> HIDE DEF new
  <2>5. VotesKept'
    BY <1>4, <2>2, <2>3, <2>4 DEF VotesKept
  <2>6. \A v \in votes : v[1] = new[1] /\ v[2] = new[2] => v[3] = new[3]
    BY <1>4, <2>2
  <2>7. OneVotePerTerm'
    BY <2>4, <2>6 DEF OneVotePerTerm
  <2> QED BY <2>5, <2>7
<1> QED BY <1>2, <1>5, <1>6

\* Votes are kept.
THEOREM VotesInv == Spec => [](VotesKept /\ OneVotePerTerm)
<1>1. Init => VotesKept /\ OneVotePerTerm
  BY DEF Init, VotesKept, OneVotePerTerm
<1> QED BY <1>1, VotesStep, Types, Persistence, PTL DEF Spec

\* A server votes for one candidate in a term, however often it crashes: the
\* vote is saved before the reply leaves, and a higher term is what clears it.
THEOREM OneVote == Spec => []OneVotePerTerm
BY VotesInv, PTL

----------------------------------------------------------------------------
(* The commit index.                                                       *)

\* Commit index, last applied index and tokens of applyLoop change in four
\* actions.
LEMMA CommitStep ==
  ASSUME NEW s \in Server, Next!(s)
  PROVE  \/ UNCHANGED <<commitIndex, lastApplied, chanCommit, panicked>>
         \/ broadcastAppendEntries(s)
         \/ \E c \in BagToSet(calls) : AppendEntries(s, c)
         \/ applyLoop(s)
         \/ Restart(s)
<1>1. CASE StatesLoop(s)
  BY <1>1 DEF StatesLoop, SwitchState, FollowerTimeout, FollowerHeartBeat, newElection,
    CandidateTimeout, CandidateHeartBeat, comeToPower
<1>2. CASE broadcastRequestVote(s) \/ lateRequestVote(s) \/ Start(s)
  BY <1>2 DEF broadcastRequestVote, lateRequestVote, Start
<1>3. CASE \E c \in BagToSet(calls) : HandleCall(s, c)
  BY <1>3 DEF HandleCall, RejectVote, RejectEntries, RequestVote, RefuseEntries, AcceptTerm
<1>4. CASE \E c \in BagToSet(calls) : DealReply(s, c)
  BY <1>4 DEF DealReply, StepDown, DealVoteReply, DealAppendReply
<1> QED BY <1>1, <1>2, <1>3, <1>4

\* The commit index after AppendEntries.
LEMMA AppendEntriesCommit ==
  ASSUME TypeInv, TypeInv', NEW s \in Server, NEW c \in BagToSet(calls), AppendEntries(s, c)
  PROVE  /\ UNCHANGED <<lastApplied, panicked, incarnation>>
         /\ ~panicked
         /\ \A t \in Server \ {s} : UNCHANGED <<commitIndex[t], chanCommit[t]>>
         /\ \/ UNCHANGED <<commitIndex[s], chanCommit[s]>>
            \/ /\ chanCommit'[s] > 0
               /\ commitIndex[s] <= commitIndex'[s] \/ commitIndex'[s] = Len(logs'[s])
<1>1. /\ commitIndex \in [Server -> 0 .. MaxLog] /\ chanCommit \in [Server -> 0 .. Cap]
      /\ logs \in [Server -> Log] /\ logs' \in [Server -> Log]
  BY DEF TypeInv, TypeOK
<1>0. PICK entries \in encoded(c) : TakeEntries(s, c, entries)
  BY DEF AppendEntries
<1> DEFINE log == replaceFrom(logs[s], c.args.PrevLogIndex, entries)
           advance == advances(c.args, commitIndex[s])
<1>2. /\ AcceptTerm(s, c)
      /\ logs' = [logs EXCEPT ![s] = log]
      /\ commitIndex' = [commitIndex EXCEPT
                           ![s] = IF advance THEN Min({c.args.LeaderCommit, Len(log)}) ELSE @]
      /\ chanCommit' = [chanCommit EXCEPT ![s] = IF advance THEN @ + 1 ELSE @]
  BY <1>0 DEF AppendEntries, TakeEntries, getLastIndex
<1>3. UNCHANGED <<lastApplied, panicked, incarnation>> /\ ~panicked
  BY <1>2 DEF AcceptTerm
<1>4. logs'[s] = log /\ Len(log) \in Nat
  <2>1. logs'[s] = log
    BY <1>1, <1>2
  <2>2. logs'[s] \in Log
    BY <1>1
  <2> QED BY <2>1, <2>2 DEF Log
<1> HIDE DEF log
<1>5. c.args.LeaderCommit \in Nat
  <2>1. c.args \in AppendArgs
    BY <1>2, AcceptTermType
  <2> QED BY <2>1, BoundAssumption DEF AppendArgs
<1>6. advance => c.args.LeaderCommit > commitIndex[s]
  BY DEF advances
<1>7. Min({c.args.LeaderCommit, Len(log)}) \in {c.args.LeaderCommit, Len(log)}
  BY <1>4, <1>5, MinOfTwo
<1> HIDE DEF advance
<1>8. \A t \in Server \ {s} : UNCHANGED <<commitIndex[t], chanCommit[t]>>
  BY <1>1, <1>2
<1>9. CASE ~advance
  BY <1>1, <1>2, <1>3, <1>8, <1>9
<1>10. CASE advance
  <2>1. chanCommit'[s] = chanCommit[s] + 1 /\ chanCommit[s] \in Nat
    BY <1>1, <1>2, <1>10, BoundAssumption
  <2>2. commitIndex'[s] = Min({c.args.LeaderCommit, Len(log)}) /\ commitIndex[s] \in Nat
    BY <1>1, <1>2, <1>10, BoundAssumption
  <2>3. commitIndex[s] <= commitIndex'[s] \/ commitIndex'[s] = Len(logs'[s])
    BY <1>4, <1>5, <1>6, <1>7, <1>10, <2>2
  <2> QED BY <1>3, <1>8, <2>1, <2>3
<1> QED BY <1>9, <1>10

\* The commit index after broadcastAppendEntries.
LEMMA broadcastAppendEntriesCommit ==
  ASSUME TypeInv, NEW s \in Server, broadcastAppendEntries(s)
  PROVE  /\ UNCHANGED <<lastApplied, incarnation>>
         /\ ~panicked
         /\ \A t \in Server \ {s} : UNCHANGED <<commitIndex[t], chanCommit[t]>>
         /\ \/ UNCHANGED <<commitIndex[s], chanCommit[s]>>
            \/ chanCommit'[s] > 0 /\ commitIndex[s] <= commitIndex'[s]
<1>1. /\ commitIndex \in [Server -> 0 .. MaxLog] /\ chanCommit \in [Server -> 0 .. Cap]
      /\ logs \in [Server -> Log]
  BY DEF TypeInv, TypeOK
<1> DEFINE new == newCommitIndex(s)
           advance == new > commitIndex[s]
<1>2. /\ ~panicked
      /\ commitIndex' = [commitIndex EXCEPT ![s] = IF advance THEN new ELSE commitIndex[s]]
      /\ chanCommit' = [chanCommit EXCEPT ![s] = IF advance THEN @ + 1 ELSE @]
      /\ UNCHANGED <<lastApplied, incarnation>>
  BY DEF broadcastAppendEntries
<1>3. new \in Nat
  <2>1. Len(logs[s]) \in Nat /\ new \in 0 .. Len(logs[s])
    BY <1>1, newCommitIndexType DEF Log
  <2> QED BY <2>1
<1>4. commitIndex[s] \in Nat /\ chanCommit[s] \in Nat
  BY <1>1, BoundAssumption
<1> HIDE DEF new
<1>5. \A t \in Server \ {s} : UNCHANGED <<commitIndex[t], chanCommit[t]>>
  BY <1>1, <1>2
<1>6. CASE advance
  BY <1>1, <1>2, <1>3, <1>4, <1>5, <1>6
<1>7. CASE ~advance
  BY <1>1, <1>2, <1>5, <1>7
<1> QED BY <1>6, <1>7

\* applyLoop goes as far as it can; if that is not the commit index, it
\* panics.
LEMMA applyLoopCommit ==
  ASSUME TypeInv, NEW s \in Server, applyLoop(s)
  PROVE  /\ UNCHANGED <<commitIndex, incarnation>>
         /\ ~panicked
         /\ \A t \in Server \ {s} : UNCHANGED <<lastApplied[t], chanCommit[t]>>
         /\ lastApplied[s] <= lastApplied'[s]
         /\ commitIndex[s] > lastApplied'[s] => panicked'
<1>1. /\ commitIndex \in [Server -> 0 .. MaxLog] /\ chanCommit \in [Server -> 0 .. Cap]
      /\ lastApplied \in [Server -> 0 .. MaxLog] /\ logs \in [Server -> Log]
  BY DEF TypeInv, TypeOK
<1> DEFINE last == applies(s)
<1>2. /\ ~panicked
      /\ chanCommit' = [chanCommit EXCEPT ![s] = @ - 1]
      /\ lastApplied' = [lastApplied EXCEPT ![s] = Max({@, last})]
      /\ panicked' = (commitIndex[s] > lastApplied[s] /\ commitIndex[s] > Len(logs[s]))
      /\ UNCHANGED <<commitIndex, incarnation>>
  BY DEF applyLoop, getLastIndex
<1>3. commitIndex[s] \in Nat /\ Len(logs[s]) \in Nat /\ lastApplied[s] \in Nat
  BY <1>1, BoundAssumption DEF Log
<1>4. last \in {commitIndex[s], Len(logs[s])} /\ last <= commitIndex[s] /\ last <= Len(logs[s])
  BY <1>3, MinOfTwo DEF applies, getLastIndex
<1>5. last \in Nat
  BY <1>3, <1>4
<1> HIDE DEF last
<1>6. lastApplied'[s] = Max({lastApplied[s], last})
  BY <1>1, <1>2
<1>7. /\ Max({lastApplied[s], last}) \in {lastApplied[s], last}
      /\ Max({lastApplied[s], last}) >= lastApplied[s]
      /\ Max({lastApplied[s], last}) >= last
  BY <1>3, <1>5, MaxOfTwo
<1>8. lastApplied[s] <= lastApplied'[s] /\ last <= lastApplied'[s] /\ lastApplied'[s] \in Nat
  BY <1>3, <1>5, <1>6, <1>7
<1>9. commitIndex[s] > lastApplied'[s] => panicked'
  <2>1. commitIndex[s] > lastApplied'[s] =>
          commitIndex[s] > lastApplied[s] /\ commitIndex[s] > Len(logs[s])
    BY <1>3, <1>4, <1>5, <1>8
  <2> QED BY <1>2, <2>1, Zenon
<1>10. \A t \in Server \ {s} : UNCHANGED <<lastApplied[t], chanCommit[t]>>
  BY <1>1, <1>2
<1> QED BY <1>2, <1>8, <1>9, <1>10

\* No token that announces a commit is lost.
LEMMA NoLostCommitStep ==
  TypeInv /\ TypeInv' /\ NoLostCommit /\ [Next]_vars => NoLostCommit'
<1> SUFFICES ASSUME TypeInv, TypeInv', NoLostCommit, [Next]_vars PROVE NoLostCommit'
  OBVIOUS
<1>1. CASE UNCHANGED <<commitIndex, lastApplied, chanCommit, panicked>>
  BY <1>1 DEF NoLostCommit
<1>2. CASE UNCHANGED vars
  BY <1>1, <1>2 DEF vars
<1>3. CASE Next
  <2>1. PICK s \in Server : Next!(s)
    BY <1>3 DEF Next
  <2>2. CASE broadcastAppendEntries(s)
    BY <2>2, broadcastAppendEntriesCommit DEF NoLostCommit
  <2>3. CASE \E c \in BagToSet(calls) : AppendEntries(s, c)
    BY <2>3, AppendEntriesCommit DEF NoLostCommit
  <2>4. CASE applyLoop(s)
    BY <2>4, applyLoopCommit DEF NoLostCommit
  <2>5. CASE Restart(s)
    <3>1. /\ commitIndex \in [Server -> 0 .. MaxLog] /\ chanCommit \in [Server -> 0 .. Cap]
          /\ lastApplied \in [Server -> 0 .. MaxLog]
      BY DEF TypeInv, TypeOK
    <3>2. /\ commitIndex' = [commitIndex EXCEPT ![s] = 0]
          /\ lastApplied' = [lastApplied EXCEPT ![s] = 0]
          /\ chanCommit' = [chanCommit EXCEPT ![s] = 0]
          /\ panicked' = panicked
      BY <2>5 DEF Restart
    <3> SUFFICES ASSUME NEW t \in Server PROVE NoLostCommit!(t)'
      BY DEF NoLostCommit
    <3>3. CASE t = s
      BY <3>1, <3>2, <3>3
    <3>4. CASE t # s
      BY <3>1, <3>2, <3>4 DEF NoLostCommit
    <3> QED BY <3>3, <3>4
  <2> QED BY <1>1, <2>1, <2>2, <2>3, <2>4, <2>5, CommitStep
<1> QED BY <1>2, <1>3

\* While a server has committed entries that it did not apply, its applyLoop
\* has a token to take (or the process has panicked): no wake-up is lost
\* between the handlers, the leader's loop and applyLoop.
THEOREM NoWakeUpLost == Spec => []NoLostCommit
<1>1. Init => NoLostCommit
  BY DEF Init, InitFrom, NoLostCommit
<1> QED BY <1>1, NoLostCommitStep, Types, PTL DEF Spec

\* What was applied stays applied, and the commit index goes back only to the
\* end of a log that is shorter.
THEOREM CommitIncreases == Spec => CommitMonotonic
<1> DEFINE Increases ==
      \A s \in Server : incarnation'[s] = incarnation[s] =>
        /\ lastApplied[s] <= lastApplied'[s]
        /\ commitIndex[s] <= commitIndex'[s] \/ commitIndex'[s] = Len(logs'[s])
<1>1. ASSUME TypeInv, TypeInv', [Next]_vars PROVE [Increases]_vars
  <2>1. \A t \in Server : commitIndex[t] \in Nat /\ lastApplied[t] \in Nat
    <3>1. commitIndex \in [Server -> 0 .. MaxLog] /\ lastApplied \in [Server -> 0 .. MaxLog]
      BY <1>1 DEF TypeInv, TypeOK
    <3> QED BY <3>1, BoundAssumption
  <2>2. CASE UNCHANGED vars
    BY <2>2
  <2>3. CASE Next
    <3>1. PICK s \in Server : Next!(s)
      BY <2>3 DEF Next
    <3>2. CASE UNCHANGED <<commitIndex, lastApplied, chanCommit, panicked>>
      BY <2>1, <3>2
    <3>3. CASE broadcastAppendEntries(s)
      BY <1>1, <2>1, <3>3, broadcastAppendEntriesCommit
    <3>4. CASE \E c \in BagToSet(calls) : AppendEntries(s, c)
      BY <1>1, <2>1, <3>4, AppendEntriesCommit
    <3>5. CASE applyLoop(s)
      BY <1>1, <2>1, <3>5, applyLoopCommit
    <3>6. CASE Restart(s)
      <4>1. /\ commitIndex \in [Server -> 0 .. MaxLog] /\ lastApplied \in [Server -> 0 .. MaxLog]
            /\ incarnation \in [Server -> Nat]
        BY <1>1 DEF TypeInv, TypeOK
      <4>2. /\ commitIndex' = [commitIndex EXCEPT ![s] = 0]
            /\ lastApplied' = [lastApplied EXCEPT ![s] = 0]
            /\ incarnation' = [incarnation EXCEPT ![s] = @ + 1]
        BY <3>6 DEF Restart
      <4>3. incarnation'[s] # incarnation[s]
        BY <4>1, <4>2
      <4>4. \A t \in Server \ {s} : UNCHANGED <<commitIndex[t], lastApplied[t]>>
        BY <4>1, <4>2
      <4> QED BY <2>1, <4>3, <4>4
    <3> QED BY <3>1, <3>2, <3>3, <3>4, <3>5, <3>6, CommitStep
  <2> QED BY <1>1, <2>2, <2>3
<1>2. TypeInv /\ TypeInv' /\ [Next]_vars => [Increases]_vars
  BY <1>1
<1> QED BY <1>2, Types, PTL DEF Spec, CommitMonotonic
====
