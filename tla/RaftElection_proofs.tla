-------------------------- MODULE RaftElection_proofs --------------------------
(***************************************************************************)
(* Who can come to power: a granted vote is a vote, a token of the current *)
(* term stands for two votes, and a leader is who came to power in its     *)
(* term.                                                                   *)
(***************************************************************************)
EXTENDS Raft_proofs

----------------------------------------------------------------------------
(* Calls that a step puts on the network.                                  *)

\* Arguments of AppendEntries that a leader makes from its log.
FromLog(s, args) ==
  /\ state[s] = "LEADER"
  /\ args.Term = currentTerm[s]
  /\ args.PrevLogIndex \in 0 .. Len(logs[s])
  /\ args.PrevLogTerm = LogTerm(logs[s], args.PrevLogIndex)
  /\ args.PrevLogIndex + Len(args.Entries) = Len(logs[s])
  /\ \A k \in 1 .. Len(args.Entries) : args.Entries[k] = logs[s][args.PrevLogIndex + k]

\* A call that was not there before asks for a vote, or carries a reply: one
\* that grants a vote if there is such a vote; or it has arguments that are
\* made from a leader's log.
NewCall(s, d) ==
  \/ ~IsAppend(d) /\ (d.reply # noReply /\ d.reply.VoteGranted => <<d.to, d.args.Term, d.from>> \in votes')
  \/ IsAppend(d) /\ \E c \in BagToSet(calls) : IsAppend(c) /\ d.args = c.args /\ d.from = c.from
  \/ IsAppend(d) /\ broadcastAppendEntries(s) /\ d.from = s /\ FromLog(s, d.args)

\* The calls of AskForVotes.
LEMMA AskCalls ==
  ASSUME NEW s \in Server, NEW args, AskForVotes(s, args),
         NEW d \in BagToSet(calls') \ BagToSet(calls)
  PROVE  ~IsAppend(d) /\ d.reply = noReply
<1> DEFINE C == {newCall("RequestVote", s, i, args) : i \in Server \ {s}}
<1>1. BagToSet(calls') \subseteq BagToSet(calls) \cup C
  BY CallSends DEF AskForVotes
<1>2. PICK i \in Server \ {s} : d = newCall("RequestVote", s, i, args)
  BY <1>1
<1> QED BY <1>2 DEF newCall, IsAppend

\* The calls of broadcastAppendEntries.
LEMMA BroadcastCalls ==
  ASSUME TypeInv, NEW s \in Server, broadcastAppendEntries(s),
         NEW d \in BagToSet(calls') \ BagToSet(calls)
  PROVE  IsAppend(d) /\ d.from = s /\ FromLog(s, d.args)
<1> DEFINE new == newCommitIndex(s)
           commit == IF new > commitIndex[s] THEN new ELSE commitIndex[s]
           outOfRange == \E id \in Server \ {s} : nextIndex[s][id] - 1 > getLastIndex(logs[s])
           C == {newCall("AppendEntries", s, id, newAppendEntriesArgs(s, id, commit))
                   : id \in Server \ {s}}
<1>1. IF state[s] = "LEADER" /\ ~outOfRange THEN Call(C) ELSE UNCHANGED calls
  BY DEF broadcastAppendEntries
<1>2. state[s] = "LEADER" /\ ~outOfRange /\ Call(C)
  BY <1>1
<1>3. commit \in 0 .. MaxLog
  <2>1. logs \in [Server -> Log] /\ commitIndex \in [Server -> 0 .. MaxLog]
    BY DEF TypeInv, TypeOK
  <2>2. new \in 0 .. Len(logs[s]) /\ Len(logs[s]) \in 0 .. MaxLog
    BY <2>1, newCommitIndexType DEF Log
  <2>3. new \in 0 .. MaxLog /\ commitIndex[s] \in 0 .. MaxLog
    BY <2>1, <2>2, BoundAssumption
  <2> QED BY <2>3
<1> HIDE DEF commit
<1>4. BagToSet(calls') \subseteq BagToSet(calls) \cup C
  BY <1>2, CallSends
<1>5. PICK id \in Server \ {s} : d = newCall("AppendEntries", s, id, newAppendEntriesArgs(s, id, commit))
  BY <1>4
<1>6. nextIndex[s][id] - 1 <= getLastIndex(logs[s])
  <2>1. logs \in [Server -> Log] /\ nextIndex \in [Server -> [Server -> 0 .. MaxLog + 1]]
    BY DEF TypeInv, TypeOK
  <2>2. nextIndex[s][id] \in Int /\ getLastIndex(logs[s]) \in Int
    BY <2>1, BoundAssumption DEF getLastIndex, Log
  <2>3. ~(nextIndex[s][id] - 1 > getLastIndex(logs[s]))
    BY <1>2
  <2> QED BY <2>2, <2>3
<1> DEFINE args == newAppendEntriesArgs(s, id, commit)
<1>7. FromLog(s, args)
  BY <1>2, <1>3, <1>6, newAppendEntriesArgsType DEF FromLog
<1> HIDE DEF args
<1>8. d.from = s /\ d.args = args /\ IsAppend(d)
  BY <1>5 DEF newCall, IsAppend, args
<1> QED BY <1>7, <1>8

\* The calls of a handler.
LEMMA ReplyCall ==
  ASSUME TypeInv, NEW c \in BagToSet(calls), NEW r, Reply(c, r),
         NEW d \in BagToSet(calls') \ BagToSet(calls)
  PROVE  /\ d.rpc = c.rpc /\ d.args = c.args /\ d.from = c.from /\ d.to = c.to
         /\ d.reply = r
<1>1. d = [c EXCEPT !.reply = r]
  BY ReplySends
<1>2. c \in AppendCall \/ c \in VoteCall
  BY DEF TypeInv, TypeOK
<1> QED BY <1>1, <1>2 DEF AppendCall, VoteCall

\* Every call that a step puts on the network is one of these.
LEMMA NewCalls ==
  ASSUME TypeInv, NEW s \in Server, Next!(s), NEW d \in BagToSet(calls') \ BagToSet(calls)
  PROVE  NewCall(s, d)
<1>1. CASE StatesLoop(s)
  <2>1. CASE broadcastAppendEntries(s)
    BY <2>1, BroadcastCalls DEF NewCall
  <2>2. CASE ~broadcastAppendEntries(s)
    <3>1. calls' = calls
      BY <1>1, <2>2 DEF StatesLoop, SwitchState, FollowerTimeout, FollowerHeartBeat, newElection,
        CandidateTimeout, CandidateHeartBeat, comeToPower
    <3> QED BY <3>1
  <2> QED BY <2>1, <2>2
<1>2. CASE broadcastRequestVote(s)
  <2>1. calls' # calls
    OBVIOUS
  <2>2. \E args : AskForVotes(s, args)
    BY <1>2, <2>1 DEF broadcastRequestVote
  <2> QED BY <2>2, AskCalls DEF NewCall
<1>3. CASE lateRequestVote(s)
  <2>1. \E args : AskForVotes(s, args)
    BY <1>3 DEF lateRequestVote
  <2> QED BY <2>1, AskCalls DEF NewCall
<1>4. CASE Start(s) \/ applyLoop(s)
  <2>1. calls' = calls
    BY <1>4 DEF Start, applyLoop
  <2> QED BY <2>1
<1>5. CASE Restart(s)
  BY <1>5, RestartSends
<1>6. CASE \E c \in BagToSet(calls) : HandleCall(s, c)
  <2>1. PICK c \in BagToSet(calls) : HandleCall(s, c)
    BY <1>6
  <2>2. CASE RejectVote(s, c)
    <3> DEFINE r == [Term |-> currentTerm[s], VoteGranted |-> FALSE]
    <3>1. Reply(c, r) /\ c.rpc = "RequestVote"
      BY <2>2 DEF RejectVote, IsRequest
    <3>2. ~r.VoteGranted
      OBVIOUS
    <3> HIDE DEF r
    <3>3. d.rpc = "RequestVote" /\ d.reply = r
      BY <3>1, ReplyCall
    <3> QED BY <3>2, <3>3 DEF NewCall, IsAppend
  <2>3. CASE RequestVote(s, c)
    <3> DEFINE newer == c.args.Term > currentTerm[s]
               vote == IF newer THEN NOBODY ELSE votedFor[s]
               granted == isValidArgs(vote, logs[s], c.from, c.args)
               r == [Term |-> currentTerm'[s], VoteGranted |-> granted]
    <3>1. /\ Reply(c, r) /\ c.rpc = "RequestVote" /\ c.to = s
          /\ votes' = IF granted THEN votes \cup {<<s, c.args.Term, c.from>>} ELSE votes
      BY <2>3 DEF RequestVote, IsRequest
    <3>2. r.VoteGranted = granted
      OBVIOUS
    <3> HIDE DEF r, granted
    <3>3. d.rpc = "RequestVote" /\ d.reply = r /\ d.to = s /\ d.from = c.from /\ d.args = c.args
      BY <3>1, ReplyCall
    <3>4. d.reply.VoteGranted => <<d.to, d.args.Term, d.from>> \in votes'
      BY <3>1, <3>2, <3>3
    <3> QED BY <3>3, <3>4 DEF NewCall, IsAppend
  <2>4. CASE RejectEntries(s, c) \/ RefuseEntries(s, c) \/ AppendEntries(s, c)
    <3>1. c.rpc = "AppendEntries" /\ \E r : Reply(c, r)
      BY <2>4 DEF RejectEntries, RefuseEntries, AppendEntries, TakeEntries, AcceptTerm, IsRequest
    <3>2. d.rpc = c.rpc /\ d.args = c.args /\ d.from = c.from
      BY <3>1, ReplyCall
    <3> QED BY <3>1, <3>2 DEF NewCall, IsAppend
  <2> QED BY <2>1, <2>2, <2>3, <2>4 DEF HandleCall
<1>7. CASE \E c \in BagToSet(calls) : DealReply(s, c)
  BY <1>7, ReceiveSends DEF DealReply, StepDown, DealVoteReply, DealAppendReply
<1> QED BY <1>1, <1>2, <1>3, <1>4, <1>5, <1>6, <1>7

----------------------------------------------------------------------------
(* Granted votes.                                                          *)

\* A granted vote is a vote.
LEMMA GrantsStep ==
  TypeInv /\ PersistedIsCurrent /\ GrantsAreVotes /\ [Next]_vars => GrantsAreVotes'
<1> SUFFICES ASSUME TypeInv, PersistedIsCurrent, GrantsAreVotes, [Next]_vars PROVE GrantsAreVotes'
  OBVIOUS
<1>1. votes \subseteq votes'
  BY TermStep
<1> SUFFICES ASSUME NEW d \in BagToSet(calls'), ~IsAppend(d), d.reply # noReply, d.reply.VoteGranted
             PROVE  <<d.to, d.args.Term, d.from>> \in votes'
  BY DEF GrantsAreVotes
<1>2. CASE d \in BagToSet(calls)
  BY <1>1, <1>2 DEF GrantsAreVotes
<1>3. CASE d \notin BagToSet(calls)
  <2>1. calls' # calls
    BY <1>3
  <2>2. PICK s \in Server : Next!(s)
    BY <2>1 DEF Next, vars
  <2>3. NewCall(s, d)
    BY <1>3, <2>2, NewCalls
  <2> QED BY <2>3 DEF NewCall
<1> QED BY <1>2, <1>3

\* Granted votes are votes.
THEOREM Grants == Spec => []GrantsAreVotes
<1>1. Init => GrantsAreVotes
  BY DEF Init, InitFrom, GrantsAreVotes, EmptyBag, SetToBag, BagToSet
<1> QED BY <1>1, GrantsStep, Types, Persistence, PTL DEF Spec

----------------------------------------------------------------------------
(* The loop of a server.                                                   *)

\* Tokens after one was taken, and after one was sent.
LEMMA TokensTail ==
  ASSUME NEW q \in Seq(Nat), q # <<>>
  PROVE  /\ Head(q) \in {q[k] : k \in DOMAIN q}
         /\ {Tail(q)[k] : k \in DOMAIN Tail(q)} \subseteq {q[k] : k \in DOMAIN q}
<1>1. Len(q) \in Nat /\ Len(q) > 0 /\ DOMAIN q = 1 .. Len(q)
  OBVIOUS
<1>2. Head(q) = q[1] /\ 1 \in DOMAIN q
  BY <1>1
<1>3. DOMAIN Tail(q) = 1 .. Len(q) - 1 /\ \A k \in 1 .. Len(q) - 1 : Tail(q)[k] = q[k + 1]
  <2>1. /\ Tail(q) \in Seq(Nat) /\ Len(Tail(q)) = Len(q) - 1
        /\ \A k \in 1 .. Len(Tail(q)) : Tail(q)[k] = q[k + 1]
    BY HeadTailProperties
  <2> QED BY <2>1
<1>4. \A k \in DOMAIN Tail(q) : Tail(q)[k] = q[k + 1] /\ k + 1 \in DOMAIN q
  BY <1>1, <1>3
<1> QED BY <1>2, <1>4

\* Tokens after one was sent.
LEMMA TokensAppend ==
  ASSUME NEW q \in Seq(Nat), NEW n \in Nat
  PROVE  {Append(q, n)[k] : k \in DOMAIN Append(q, n)} \subseteq {q[k] : k \in DOMAIN q} \cup {n}
<1>1. /\ Append(q, n) \in Seq(Nat) /\ Len(Append(q, n)) = Len(q) + 1 /\ Len(q) \in Nat
      /\ \A k \in 1 .. Len(q) : Append(q, n)[k] = q[k]
      /\ Append(q, n)[Len(q) + 1] = n
  BY AppendProperties
<1>2. DOMAIN q = 1 .. Len(q) /\ DOMAIN Append(q, n) = 1 .. Len(q) + 1
  BY <1>1
<1>3. \A k \in 1 .. Len(q) + 1 : k \in 1 .. Len(q) \/ k = Len(q) + 1
  BY <1>1
<1> QED BY <1>1, <1>2, <1>3

\* Tokens are terms.
LEMMA TokensType ==
  ASSUME TypeInv, NEW s \in Server
  PROVE  chanBeElected[s] \in Seq(Nat) /\ Tokens(s) \subseteq Nat
<1>1. chanBeElected[s] \in Seq(1 .. MaxTerm)
  BY DEF TypeInv, TypeOK
<1>2. 1 .. MaxTerm \subseteq Nat
  BY BoundAssumption
<1>3. chanBeElected[s] \in Seq(Nat)
  BY <1>1, <1>2, SeqMonotonic
<1> QED BY <1>3 DEF Tokens

\* A token that a step sends is of the current term, and the server, which is
\* a candidate, has another server's vote.
Sent(t) ==
  /\ UNCHANGED <<currentTerm[t], pc[t], state[t]>>
  /\ state[t] = "CANDIDATE"
  /\ \E v \in Server \ {t} : <<v, currentTerm[t], t>> \in votes
  /\ Tokens(t)' \subseteq Tokens(t) \cup {currentTerm[t]}

\* What a step may do to the loop of a server.
LoopEffect(t) ==
  /\ currentTerm'[t] = currentTerm[t] /\ pc'[t] = "candidate" => pc[t] = "candidate"
  /\ currentTerm'[t] # currentTerm[t] =>
       \/ state'[t] = "FOLLOWER"
       \/ pc[t] = "newElection" /\ state'[t] = state[t] /\ <<t, currentTerm'[t], t>> \in votes'
  /\ currentTerm'[t] = currentTerm[t] /\ pc'[t] = "candidate" /\ state'[t] = "CANDIDATE" =>
       state[t] = "CANDIDATE"
  /\ state'[t] = "LEADER" => state[t] = "LEADER" \/ comeToPower(t)
  /\ state[t] = "LEADER" /\ pc[t] \in {"switch", "newHeartBeat"} => pc'[t] \in {"switch", "newHeartBeat"}
  /\ Tokens(t)' \subseteq Tokens(t) \/ Sent(t)

\* The loop of a server whose part of the state does not change.
LEMMA NoEffect ==
  ASSUME NEW t, UNCHANGED <<currentTerm[t], state[t], pc[t], chanBeElected[t]>>
  PROVE  LoopEffect(t)
BY DEF LoopEffect, Tokens

\* The loop of the server s that a step of the loop is about.
LEMMA LoopSelf ==
  ASSUME TypeInv, NEW s \in Server, StatesLoop(s)
  PROVE  LoopEffect(s)
<1>1. /\ currentTerm \in [Server -> 0 .. MaxTerm]
      /\ state \in [Server -> {"LEADER", "CANDIDATE", "FOLLOWER"}]
      /\ pc \in [Server -> {"switch", "newElection", "candidate", "newHeartBeat"}]
      /\ chanBeElected \in [Server -> Seq(1 .. MaxTerm)]
  BY DEF TypeInv, TypeOK
<1>2. CASE SwitchState(s)
  <2>1. UNCHANGED <<currentTerm, state, chanBeElected>> /\ pc'[s] \in {"newHeartBeat", "newElection"}
    BY <1>1, <1>2 DEF SwitchState, persistentVars
  <2>2. state[s] = "LEADER" => pc'[s] = "newHeartBeat"
    BY <1>1, <1>2 DEF SwitchState
  <2> QED BY <2>1, <2>2 DEF LoopEffect, Tokens
<1>3. CASE FollowerTimeout(s)
  <2>1. UNCHANGED <<currentTerm, pc, chanBeElected>> /\ pc[s] = "switch" /\ state'[s] = "CANDIDATE"
    BY <1>1, <1>3 DEF FollowerTimeout, persistentVars, loopVars
  <2> QED BY <2>1 DEF LoopEffect, Tokens
<1>4. CASE FollowerHeartBeat(s) \/ CandidateTimeout(s) \/ broadcastAppendEntries(s)
  <2>1. /\ UNCHANGED <<currentTerm, state, chanBeElected>>
        /\ pc'[s] = "switch" \/ pc' = pc
    BY <1>1, <1>4 DEF FollowerHeartBeat, CandidateTimeout, broadcastAppendEntries, persistentVars, loopVars
  <2> QED BY <2>1 DEF LoopEffect, Tokens
<1>5. CASE newElection(s)
  <2>1. /\ currentTerm'[s] = currentTerm[s] + 1 /\ pc[s] = "newElection"
        /\ UNCHANGED <<state, chanBeElected>>
        /\ <<s, currentTerm[s] + 1, s>> \in votes'
    BY <1>1, <1>5 DEF newElection
  <2>2. currentTerm'[s] # currentTerm[s]
    BY <1>1, <2>1, BoundAssumption
  <2> QED BY <2>1, <2>2 DEF LoopEffect, Tokens
<1>6. CASE CandidateHeartBeat(s)
  <2>1. UNCHANGED <<currentTerm, chanBeElected>> /\ pc'[s] = "switch" /\ state'[s] = "FOLLOWER"
    BY <1>1, <1>6 DEF CandidateHeartBeat, persistentVars
  <2> QED BY <2>1 DEF LoopEffect, Tokens
<1>7. CASE comeToPower(s)
  <2>1. currentTerm' = currentTerm /\ pc'[s] = "switch" /\ state'[s] = "LEADER"
    BY <1>1, <1>7 DEF comeToPower, persistentVars
  <2>2. chanBeElected'[s] = Tail(chanBeElected[s]) /\ chanBeElected[s] # <<>>
    BY <1>1, <1>7 DEF comeToPower
  <2>3. chanBeElected[s] \in Seq(Nat)
    BY TokensType
  <2>4. Tokens(s)' \subseteq Tokens(s)
    BY <2>2, <2>3, TokensTail DEF Tokens
  <2> QED BY <1>7, <2>1, <2>4 DEF LoopEffect
<1> QED BY <1>2, <1>3, <1>4, <1>5, <1>6, <1>7 DEF StatesLoop

\* The loop of a server that takes over a term.
LEMMA LoopNewTerm ==
  ASSUME TypeInv, NEW s \in Server, NEW term, newTerm(s, term), UNCHANGED <<pc, chanBeElected>>
  PROVE  LoopEffect(s)
<1>1. state \in [Server -> {"LEADER", "CANDIDATE", "FOLLOWER"}]
  BY DEF TypeInv, TypeOK
<1>2. state'[s] = "FOLLOWER"
  BY <1>1 DEF newTerm
<1> QED BY <1>2 DEF LoopEffect, Tokens

\* The loop of a server that gets a vote.
LEMMA LoopVote ==
  ASSUME TypeInv, GrantsAreVotes, NEW s \in Server, NEW c \in BagToSet(calls), DealVoteReply(s, c)
  PROVE  LoopEffect(s)
<1> DEFINE count == IF Counts(s, c) THEN voteCount[s] + 1 ELSE voteCount[s]
           win == Counts(s, c) /\ isMajority(count) /\ state[s] = "CANDIDATE"
<1>1. /\ chanBeElected \in [Server -> Seq(1 .. MaxTerm)]
      /\ currentTerm \in [Server -> 0 .. MaxTerm]
  BY DEF TypeInv, TypeOK
<1>2. /\ chanBeElected' = [chanBeElected EXCEPT ![s] = IF win THEN Append(@, currentTerm[s]) ELSE @]
      /\ UNCHANGED <<currentTerm, pc, state>>
      /\ IsReply(c, "RequestVote", s)
  BY DEF DealVoteReply, persistentVars, loopVars
<1>3. win => Counts(s, c) /\ state[s] = "CANDIDATE"
  OBVIOUS
<1> HIDE DEF win
<1>4. CASE ~win
  <2>1. chanBeElected'[s] = chanBeElected[s]
    BY <1>1, <1>2, <1>4
  <2> QED BY <1>2, <2>1 DEF LoopEffect, Tokens
<1>5. CASE win
  <2>1. chanBeElected'[s] = Append(chanBeElected[s], currentTerm[s])
    BY <1>1, <1>2, <1>5
  <2>2. chanBeElected[s] \in Seq(Nat) /\ currentTerm[s] \in Nat
    BY <1>1, TokensType, BoundAssumption
  <2>3. Tokens(s)' \subseteq Tokens(s) \cup {currentTerm[s]}
    BY <2>1, <2>2, TokensAppend DEF Tokens
  <2>4. <<c.to, currentTerm[s], s>> \in votes
    BY <1>2, <1>3, <1>5 DEF GrantsAreVotes, IsReply, IsAppend, Counts
  <2>5. c.to \in Server \ {s}
    BY <1>2, CallType DEF WellFormed, IsReply
  <2>6. Sent(s)
    BY <1>2, <1>3, <1>5, <2>3, <2>4, <2>5 DEF Sent
  <2> QED BY <1>2, <2>6 DEF LoopEffect
<1> QED BY <1>4, <1>5

\* What any step does to the loop of any server.
LEMMA LoopStep ==
  ASSUME TypeInv, TypeInv', PersistedIsCurrent, GrantsAreVotes, [Next]_vars, NEW t \in Server
  PROVE  LoopEffect(t)
<1>1. /\ currentTerm \in [Server -> 0 .. MaxTerm]
      /\ state \in [Server -> {"LEADER", "CANDIDATE", "FOLLOWER"}]
      /\ pc \in [Server -> {"switch", "newElection", "candidate", "newHeartBeat"}]
      /\ chanBeElected \in [Server -> Seq(1 .. MaxTerm)]
  BY DEF TypeInv, TypeOK
<1>2. CASE UNCHANGED vars
  BY <1>2, NoEffect DEF vars, persistentVars, loopVars
<1>3. CASE Next
  <2>1. PICK s \in Server : Next!(s)
    BY <1>3 DEF Next
  <2>2. CASE StatesLoop(s)
    <3>1. CASE t = s
      BY <2>2, <3>1, LoopSelf
    <3>2. CASE t # s
      <4>1. UNCHANGED <<currentTerm[t], state[t], pc[t], chanBeElected[t]>>
        BY <1>1, <2>2, <3>2 DEF StatesLoop, SwitchState, FollowerTimeout, FollowerHeartBeat,
          newElection, CandidateTimeout, CandidateHeartBeat, comeToPower, broadcastAppendEntries,
          persistentVars, loopVars
      <4> QED BY <4>1, NoEffect
    <3> QED BY <3>1, <3>2
  <2>3. CASE broadcastRequestVote(s) \/ lateRequestVote(s) \/ Start(s) \/ applyLoop(s)
    <3>1. UNCHANGED <<currentTerm, state, pc, chanBeElected>>
      BY <2>3 DEF broadcastRequestVote, lateRequestVote, Start, applyLoop, persistentVars, loopVars
    <3> QED BY <3>1, NoEffect
  <2>4. CASE Restart(s)
    <3>1. UNCHANGED currentTerm
      BY <2>4, RestartKeeps DEF persistentVars
    <3>2. CASE t = s
      <4>1. state'[t] = "FOLLOWER" /\ pc'[t] = "switch" /\ chanBeElected'[t] = <<>>
        BY <1>1, <2>4, <3>2 DEF Restart
      <4>2. Tokens(t)' = {}
        BY <4>1 DEF Tokens
      <4> QED BY <3>1, <4>1, <4>2 DEF LoopEffect
    <3>3. CASE t # s
      <4>1. UNCHANGED <<state[t], pc[t], chanBeElected[t]>>
        BY <1>1, <2>4, <3>3 DEF Restart
      <4> QED BY <3>1, <4>1, NoEffect
    <3> QED BY <3>2, <3>3
  <2>5. ASSUME NEW term, newTerm(s, term), UNCHANGED <<pc, chanBeElected>>
        PROVE  LoopEffect(t)
    <3>1. CASE t = s
      BY <2>5, <3>1, LoopNewTerm
    <3>2. CASE t # s
      <4>1. UNCHANGED <<currentTerm[t], state[t]>>
        BY <1>1, <2>5, <3>2 DEF newTerm
      <4> QED BY <2>5, <4>1, NoEffect
    <3> QED BY <3>1, <3>2
  <2>6. CASE \E c \in BagToSet(calls) : HandleCall(s, c)
    <3>1. PICK c \in BagToSet(calls) : HandleCall(s, c)
      BY <2>6
    <3>2. UNCHANGED <<pc, chanBeElected>>
      BY <3>1 DEF HandleCall, RejectVote, RejectEntries, RequestVote, RefuseEntries, AppendEntries,
        AcceptTerm, loopVars
    <3>3. CASE RejectVote(s, c) \/ RejectEntries(s, c)
      <4>1. UNCHANGED <<currentTerm, state>>
        BY <3>3 DEF RejectVote, RejectEntries, persistentVars
      <4> QED BY <3>2, <4>1, NoEffect
    <3>4. CASE RequestVote(s, c)
      <4>1. CASE t = s /\ c.args.Term > currentTerm[s]
        <5>1. state'[t] = "FOLLOWER"
          BY <1>1, <3>4, <4>1 DEF RequestVote
        <5> QED BY <3>2, <5>1 DEF LoopEffect, Tokens
      <4>2. CASE ~(t = s /\ c.args.Term > currentTerm[s])
        <5>1. UNCHANGED <<currentTerm[t], state[t]>>
          BY <1>1, <3>4, <4>2 DEF RequestVote
        <5> QED BY <3>2, <5>1, NoEffect
      <4> QED BY <4>1, <4>2
    <3>5. CASE RefuseEntries(s, c) \/ AppendEntries(s, c)
      <4>1. newTerm(s, c.args.Term) \/ UNCHANGED <<currentTerm, state>>
        BY <3>5 DEF RefuseEntries, AppendEntries, AcceptTerm
      <4> QED BY <2>5, <3>2, <4>1, NoEffect
    <3> QED BY <3>1, <3>3, <3>4, <3>5 DEF HandleCall
  <2>7. CASE \E c \in BagToSet(calls) : DealReply(s, c)
    <3>1. PICK c \in BagToSet(calls) : DealReply(s, c)
      BY <2>7
    <3>2. CASE StepDown(s, c)
      BY <2>5, <3>2 DEF StepDown, loopVars
    <3>3. CASE DealVoteReply(s, c)
      <4>1. CASE t = s
        BY <3>3, <4>1, LoopVote
      <4>2. CASE t # s
        <5>1. UNCHANGED <<currentTerm[t], state[t], pc[t], chanBeElected[t]>>
          BY <1>1, <3>3, <4>2 DEF DealVoteReply, persistentVars, loopVars
        <5> QED BY <5>1, NoEffect
      <4> QED BY <4>1, <4>2
    <3>4. CASE DealAppendReply(s, c)
      <4>1. UNCHANGED <<currentTerm, state, pc, chanBeElected>>
        BY <3>4 DEF DealAppendReply, persistentVars, loopVars
      <4> QED BY <4>1, NoEffect
    <3> QED BY <3>1, <3>2, <3>3, <3>4 DEF DealReply
  <2> QED BY <2>1, <2>2, <2>3, <2>4, <2>6, <2>7
<1> QED BY <1>2, <1>3

\* Who came to power.
LEMMA ElectedStep ==
  ASSUME TypeInv, [Next]_vars
  PROVE  \/ elected' = elected
         \/ \E s \in Server :
              /\ comeToPower(s)
              /\ \E token \in Tokens(s) :
                   elected' = elected \cup {[leader |-> s, term |-> currentTerm[s], token |-> token]}
<1>1. CASE UNCHANGED vars
  BY <1>1 DEF vars, historyVars
<1>2. CASE Next
  <2>1. PICK s \in Server : Next!(s)
    BY <1>2 DEF Next
  <2>2. CASE comeToPower(s)
    <3>1. chanBeElected[s] \in Seq(Nat) /\ chanBeElected[s] # <<>>
      BY <2>2, TokensType DEF comeToPower
    <3>2. Head(chanBeElected[s]) \in Tokens(s)
      BY <3>1, TokensTail DEF Tokens
    <3> QED BY <2>2, <3>2 DEF comeToPower
  <2>3. CASE StatesLoop(s) /\ ~comeToPower(s)
    BY <2>3 DEF StatesLoop, SwitchState, FollowerTimeout, FollowerHeartBeat, newElection,
      CandidateTimeout, CandidateHeartBeat, broadcastAppendEntries, historyVars
  <2>4. CASE broadcastRequestVote(s) \/ lateRequestVote(s) \/ Start(s) \/ applyLoop(s) \/ Restart(s)
    BY <2>4 DEF broadcastRequestVote, lateRequestVote, Start, applyLoop, Restart, historyVars
  <2>5. CASE \E c \in BagToSet(calls) : HandleCall(s, c)
    BY <2>5 DEF HandleCall, RejectVote, RejectEntries, RequestVote, RefuseEntries, AppendEntries,
      AcceptTerm, historyVars
  <2>6. CASE \E c \in BagToSet(calls) : DealReply(s, c)
    BY <2>6 DEF DealReply, StepDown, DealVoteReply, DealAppendReply, historyVars
  <2> QED BY <2>1, <2>2, <2>3, <2>4, <2>5, <2>6
<1> QED BY <1>1, <1>2

----------------------------------------------------------------------------
(* Candidates.                                                             *)

\* Votes stay.
LEMMA TwoVotesStay ==
  ASSUME votes \subseteq votes', NEW s, NEW term, TwoVotes(s, term)
  PROVE  TwoVotes(s, term)'
BY DEF TwoVotes

\* A candidate of the current term has its own vote, and a token of the
\* current term stands for two.
LEMMA CandidatesStep ==
  TypeInv /\ TypeInv' /\ PersistedIsCurrent /\ GrantsAreVotes /\ Candidates /\ [Next]_vars => Candidates'
<1> SUFFICES ASSUME TypeInv, TypeInv', PersistedIsCurrent, GrantsAreVotes, Candidates, [Next]_vars
             PROVE  Candidates'
  OBVIOUS
<1>1. votes \subseteq votes' /\ \A t \in Server : currentTerm[t] <= currentTerm'[t]
  BY TermStep
<1>2. \A t \in Server : currentTerm[t] \in Nat /\ currentTerm'[t] \in Nat
  <2>1. currentTerm \in [Server -> 0 .. MaxTerm] /\ currentTerm' \in [Server -> 0 .. MaxTerm]
    BY DEF TypeInv, TypeOK
  <2> QED BY <2>1, BoundAssumption
<1>3. ASSUME NEW t \in Server, pc'[t] = "candidate", state'[t] = "CANDIDATE"
      PROVE  <<t, currentTerm'[t], t>> \in votes'
  <2>1. LoopEffect(t)
    BY LoopStep
  <2>2. CASE currentTerm'[t] = currentTerm[t]
    <3>1. pc[t] = "candidate" /\ state[t] = "CANDIDATE"
      BY <1>3, <2>1, <2>2 DEF LoopEffect
    <3> QED BY <1>1, <2>2, <3>1 DEF Candidates
  <2>3. CASE currentTerm'[t] # currentTerm[t]
    BY <1>3, <2>1, <2>3 DEF LoopEffect
  <2> QED BY <2>2, <2>3
<1>4. ASSUME NEW t \in Server, NEW term \in Tokens(t)'
      PROVE  /\ term <= currentTerm'[t]
             /\ term = currentTerm'[t] /\ pc'[t] = "candidate" => TwoVotes(t, term)'
  <2>1. LoopEffect(t)
    BY LoopStep
  <2>2. CASE term \in Tokens(t)
    <3>1. term \in Nat /\ term <= currentTerm[t]
      BY <2>2, TokensType DEF Candidates
    <3>2. term <= currentTerm'[t]
      BY <1>1, <1>2, <3>1
    <3>3. ASSUME term = currentTerm'[t], pc'[t] = "candidate"
          PROVE  TwoVotes(t, term)'
      <4>1. currentTerm'[t] = currentTerm[t]
        BY <1>1, <1>2, <3>1, <3>3
      <4>2. pc[t] = "candidate"
        BY <2>1, <3>3, <4>1 DEF LoopEffect
      <4>3. TwoVotes(t, term)
        BY <2>2, <3>3, <4>1, <4>2 DEF Candidates
      <4> QED BY <1>1, <4>3, TwoVotesStay
    <3> QED BY <3>2, <3>3
  <2>3. CASE term \notin Tokens(t)
    <3>1. Sent(t) /\ term = currentTerm[t]
      BY <1>4, <2>1, <2>3 DEF LoopEffect, Sent
    <3>2. term <= currentTerm'[t]
      BY <1>2, <3>1 DEF Sent
    <3>3. ASSUME pc'[t] = "candidate" PROVE TwoVotes(t, term)'
      <4>1. <<t, currentTerm[t], t>> \in votes
        BY <3>1, <3>3 DEF Sent, Candidates
      <4>2. TwoVotes(t, term)
        BY <3>1, <4>1 DEF TwoVotes, Sent
      <4> QED BY <1>1, <4>2, TwoVotesStay
    <3> QED BY <3>2, <3>3
  <2> QED BY <2>2, <2>3
<1>5. ASSUME NEW e \in elected', Timely(e)
      PROVE  TwoVotes(e.leader, e.term)'
  <2>1. CASE e \in elected
    <3>1. TwoVotes(e.leader, e.term)
      BY <1>5, <2>1 DEF Candidates
    <3> QED BY <1>1, <3>1, TwoVotesStay
  <2>2. CASE e \notin elected
    <3>0. PICK s \in Server :
            /\ comeToPower(s)
            /\ \E token \in Tokens(s) : e = [leader |-> s, term |-> currentTerm[s], token |-> token]
      BY <2>2, ElectedStep
    <3>1. PICK token \in Tokens(s) : e = [leader |-> s, term |-> currentTerm[s], token |-> token]
      BY <3>0
    <3>2. e.leader = s /\ e.term = currentTerm[s] /\ token = currentTerm[s] /\ pc[s] = "candidate"
      BY <1>5, <3>0, <3>1 DEF Timely, comeToPower
    <3>3. TwoVotes(s, token)
      BY <3>2 DEF Candidates
    <3> QED BY <1>1, <3>2, <3>3, TwoVotesStay
  <2> QED BY <2>1, <2>2
<1> QED BY <1>3, <1>4, <1>5 DEF Candidates

\* Two votes for everybody who came to power in time.
THEOREM CandidatesInv == Spec => []Candidates
<1>1. Init => Candidates
  BY DEF Init, InitFrom, Candidates, Tokens
<1> QED BY <1>1, CandidatesStep, Types, Persistence, Grants, PTL DEF Spec

\* Four different servers are more than three.
LEMMA FourServers ==
  ASSUME NEW a \in Server, NEW b \in Server, NEW c \in Server, NEW d \in Server,
         a # b, a # c, a # d, b # c, b # d, c # d
  PROVE  ~(Cardinality(Server) <= 3)
<1>1. ASSUME NEW S, NEW x, x \notin S, IsFiniteSet(S), NEW n \in Nat, Cardinality(S) = n
      PROVE  IsFiniteSet(S \cup {x}) /\ Cardinality(S \cup {x}) = n + 1
  BY <1>1, FS_AddElement
<1>2. IsFiniteSet({a}) /\ Cardinality({a}) = 1
  BY FS_Singleton
<1>3. IsFiniteSet({a} \cup {b}) /\ Cardinality({a} \cup {b}) = 2
  <2>1. b \notin {a}
    OBVIOUS
  <2>2. IsFiniteSet({a} \cup {b}) /\ Cardinality({a} \cup {b}) = 1 + 1
    BY <1>1, <1>2, <2>1
  <2> QED BY <2>2
<1>4. IsFiniteSet({a} \cup {b} \cup {c}) /\ Cardinality({a} \cup {b} \cup {c}) = 3
  <2>1. c \notin {a} \cup {b}
    OBVIOUS
  <2>2. IsFiniteSet({a} \cup {b} \cup {c}) /\ Cardinality({a} \cup {b} \cup {c}) = 2 + 1
    BY <1>1, <1>3, <2>1
  <2> QED BY <2>2
<1>5. Cardinality({a} \cup {b} \cup {c} \cup {d}) = 4
  <2>1. d \notin {a} \cup {b} \cup {c}
    OBVIOUS
  <2>2. Cardinality({a} \cup {b} \cup {c} \cup {d}) = 3 + 1
    BY <1>1, <1>4, <2>1
  <2> QED BY <2>2
<1>6. {a} \cup {b} \cup {c} \cup {d} \subseteq Server
  OBVIOUS
<1>7. Cardinality({a} \cup {b} \cup {c} \cup {d}) <= Cardinality(Server)
  BY <1>6, ServerAssumption, FS_Subset
<1>8. Cardinality(Server) \in Nat
  BY ServerAssumption, FS_CardinalityType
<1> QED BY <1>5, <1>7, <1>8

\* In a cluster of up to three servers, no term has two leaders that came to
\* power by votes of that term: each has its own vote and another server's,
\* and nobody votes twice in a term.  (With more servers a reply that is
\* counted in the wrong election may stand for a vote that is missing.)
THEOREM TimelyElections == Cardinality(Server) <= 3 => (Spec => []TimelyElectionSafety)
<1> SUFFICES ASSUME Cardinality(Server) <= 3 PROVE Spec => []TimelyElectionSafety
  OBVIOUS
<1>1. ASSUME TypeInv, Candidates, OneVotePerTerm PROVE TimelyElectionSafety
  <2> SUFFICES ASSUME NEW e \in elected, NEW f \in elected, Timely(e), Timely(f), e.term = f.term,
                      e.leader # f.leader
               PROVE  FALSE
    BY DEF TimelyElectionSafety
  <2> DEFINE T == e.term
             a == e.leader
             b == f.leader
  <2>1. TwoVotes(a, T) /\ TwoVotes(b, T)
    BY <1>1 DEF Candidates
  <2>2. a \in Server /\ b \in Server
    BY <1>1 DEF TypeInv, TypeOK
  <2>3. PICK v \in Server \ {a} : <<v, T, a>> \in votes
    BY <2>1 DEF TwoVotes
  <2>4. PICK w \in Server \ {b} : <<w, T, b>> \in votes
    BY <2>1 DEF TwoVotes
  <2>5. <<a, T, a>> \in votes /\ <<b, T, b>> \in votes
    BY <2>1 DEF TwoVotes
  <2>6. \A x, c, d : <<x, T, c>> \in votes /\ <<x, T, d>> \in votes => c = d
    BY <1>1 DEF OneVotePerTerm
  <2>7. a # b /\ a # v /\ a # w /\ b # v /\ b # w /\ v # w
    BY <2>3, <2>4, <2>5, <2>6
  <2> HIDE DEF a, b
  <2> QED BY <2>2, <2>3, <2>4, <2>7, FourServers
<1>2. TypeInv /\ Candidates /\ OneVotePerTerm => TimelyElectionSafety
  BY <1>1
<1> QED BY <1>2, Types, CandidatesInv, OneVote, PTL

----------------------------------------------------------------------------
(* Leaders.                                                                *)

\* Who led a term has led it.
LEMMA LedStays ==
  ASSUME elected \subseteq elected', NEW s, NEW term, Led(s, term)
  PROVE  Led(s, term)'
BY DEF Led

\* A leader came to power in its term; a candidate did not.
LEMMA LeadersStep ==
  TypeInv /\ TypeInv' /\ PersistedIsCurrent /\ GrantsAreVotes /\ Leaders /\ [Next]_vars => Leaders'
<1> SUFFICES ASSUME TypeInv, TypeInv', PersistedIsCurrent, GrantsAreVotes, Leaders, [Next]_vars
             PROVE  Leaders'
  OBVIOUS
<1>1. \A t \in Server : currentTerm[t] <= currentTerm'[t]
  BY TermStep
<1>2. \A t \in Server : currentTerm[t] \in Nat /\ currentTerm'[t] \in Nat
  <2>1. currentTerm \in [Server -> 0 .. MaxTerm] /\ currentTerm' \in [Server -> 0 .. MaxTerm]
    BY DEF TypeInv, TypeOK
  <2> QED BY <2>1, BoundAssumption
<1>3. \A e \in elected : e.leader \in Server /\ e.term \in Nat
  <2>1. elected \subseteq [leader : Server, term : 1 .. MaxTerm, token : 1 .. MaxTerm]
    BY DEF TypeInv, TypeOK
  <2> QED BY <2>1, BoundAssumption
<1>4. \/ elected' = elected
      \/ \E s \in Server : \E token :
           comeToPower(s) /\ elected' = elected \cup {[leader |-> s, term |-> currentTerm[s], token |-> token]}
  BY ElectedStep
<1>5. elected \subseteq elected'
  BY <1>4
<1>6. ASSUME NEW s \in Server, comeToPower(s)
      PROVE  /\ currentTerm' = currentTerm
             /\ pc[s] = "candidate" /\ pc'[s] = "switch"
             /\ Led(s, currentTerm[s])'
  <2>1. pc \in [Server -> {"switch", "newElection", "candidate", "newHeartBeat"}]
    BY DEF TypeInv, TypeOK
  <2> DEFINE e == [leader |-> s, term |-> currentTerm[s], token |-> Head(chanBeElected[s])]
  <2>2. currentTerm' = currentTerm /\ pc[s] = "candidate" /\ pc'[s] = "switch" /\ e \in elected'
    BY <1>6, <2>1 DEF comeToPower, persistentVars
  <2>3. e.leader = s /\ e.term = currentTerm'[s]
    BY <2>2
  <2> HIDE DEF e
  <2> QED BY <2>2, <2>3 DEF Led
<1>7. \A e \in elected' : e.term <= currentTerm'[e.leader]
  <2> TAKE e \in elected'
  <2>1. CASE e \in elected
    BY <1>1, <1>2, <1>3, <2>1 DEF Leaders
  <2>2. CASE e \notin elected
    BY <1>2, <1>4, <1>6, <2>2
  <2> QED BY <2>1, <2>2
<1>8. ASSUME NEW t \in Server, state'[t] = "LEADER"
      PROVE  pc'[t] \in {"switch", "newHeartBeat"} /\ Led(t, currentTerm[t])'
  <2>1. LoopEffect(t)
    BY LoopStep
  <2>2. CASE comeToPower(t)
    BY <1>6, <2>2
  <2>3. CASE state[t] = "LEADER"
    <3>1. pc[t] \in {"switch", "newHeartBeat"} /\ Led(t, currentTerm[t])
      BY <2>3 DEF Leaders
    <3>2. pc'[t] \in {"switch", "newHeartBeat"} /\ currentTerm'[t] = currentTerm[t]
      BY <1>8, <2>1, <2>3, <3>1 DEF LoopEffect
    <3>3. Led(t, currentTerm[t])'
      BY <1>5, <3>1, <3>2 DEF Led
    <3> QED BY <3>2, <3>3
  <2> QED BY <1>8, <2>1, <2>2, <2>3 DEF LoopEffect
<1>9. ASSUME NEW t \in Server, pc'[t] = "candidate", NEW e \in elected', e.leader = t, e.term = currentTerm'[t]
      PROVE  FALSE
  <2>1. LoopEffect(t)
    BY LoopStep
  <2>2. CASE e \in elected
    <3>1. e.term <= currentTerm[t]
      BY <1>9, <2>2 DEF Leaders
    <3>2. currentTerm'[t] = currentTerm[t]
      BY <1>1, <1>2, <1>9, <3>1
    <3>3. pc[t] = "candidate"
      BY <1>9, <2>1, <3>2 DEF LoopEffect
    <3> QED BY <1>9, <2>2, <3>2, <3>3 DEF Leaders, Led
  <2>3. CASE e \notin elected
    <3>1. PICK s \in Server : comeToPower(s) /\ e.leader = s
      BY <1>4, <2>3
    <3> QED BY <1>6, <1>9, <3>1
  <2> QED BY <2>2, <2>3
<1>10. ASSUME NEW d \in BagToSet(calls'), IsAppend(d)
       PROVE  Led(d.from, d.args.Term)'
  <2>1. CASE d \in BagToSet(calls)
    BY <1>5, <1>10, <2>1, LedStays DEF Leaders
  <2>2. CASE d \notin BagToSet(calls)
    <3>1. calls' # calls
      BY <2>2
    <3>2. PICK s \in Server : Next!(s)
      BY <3>1 DEF Next, vars
    <3>3. NewCall(s, d)
      BY <2>2, <3>2, NewCalls
    <3>4. CASE \E c \in BagToSet(calls) : IsAppend(c) /\ d.args = c.args /\ d.from = c.from
      <4>1. Led(d.from, d.args.Term)
        BY <3>4 DEF Leaders
      <4> QED BY <1>5, <4>1, LedStays
    <3>5. CASE d.from = s /\ FromLog(s, d.args)
      <4>1. Led(d.from, d.args.Term)
        BY <3>5 DEF FromLog, Leaders
      <4> QED BY <1>5, <4>1, LedStays
    <3> QED BY <1>10, <3>3, <3>4, <3>5 DEF NewCall
  <2> QED BY <2>1, <2>2
<1>11. \A t \in Server : pc'[t] = "candidate" => ~Led(t, currentTerm[t])'
  BY <1>9 DEF Led
<1> QED BY <1>7, <1>8, <1>10, <1>11 DEF Leaders

\* Leaders came to power in their terms.
THEOREM LeadersInv == Spec => []Leaders
<1>1. Init => Leaders
  BY DEF Init, InitFrom, Leaders, EmptyBag, SetToBag, BagToSet, Led
<1> QED BY <1>1, LeadersStep, Types, Persistence, Grants, PTL DEF Spec

----------------------------------------------------------------------------
(* Majorities.                                                             *)

\* The servers that voted for the one who came to power.
Voters(e) == {v[1] : v \in {w \in votes : w[2] = e.term /\ w[3] = e.leader}}

\* They are servers whose vote is in the set of votes.
LEMMA VotersFacts ==
  ASSUME TypeInv, NEW e
  PROVE  /\ Voters(e) \subseteq Server
         /\ \A s \in Server : s \in Voters(e) <=> <<s, e.term, e.leader>> \in votes
<1>1. votes \subseteq Server \X (1 .. MaxTerm) \X Server
  BY DEF TypeInv, TypeOK
<1>2. \A v \in votes : v[1] \in Server /\ v = <<v[1], v[2], v[3]>>
  BY <1>1
<1> QED BY <1>2 DEF Voters

\* Two different servers.
LEMMA TwoServers ==
  ASSUME NEW a, NEW b, a # b
  PROVE  IsFiniteSet({a, b}) /\ Cardinality({a, b}) = 2
<1>1. IsFiniteSet({a}) /\ Cardinality({a}) = 1
  BY FS_Singleton
<1>2. b \notin {a}
  OBVIOUS
<1>3. IsFiniteSet({a} \cup {b}) /\ Cardinality({a} \cup {b}) = 1 + 1
  BY <1>1, <1>2, FS_AddElement
<1>4. {a, b} = {a} \cup {b}
  OBVIOUS
<1> QED BY <1>3, <1>4

\* In a cluster of up to three servers, a server that came to power by votes of
\* its term has the votes of a majority in it: its own and that of another
\* server, which is what the comment in TestReElection2A says.  (With five
\* servers a reply that is counted twice stands for a vote that is missing.)
THEOREM SmallMajorities == Cardinality(Server) <= 3 => (Spec => []ElectedByMajority)
<1> SUFFICES ASSUME Cardinality(Server) <= 3 PROVE Spec => []ElectedByMajority
  OBVIOUS
<1>1. ASSUME TypeInv, Candidates PROVE ElectedByMajority
  <2> SUFFICES ASSUME NEW e \in elected, Timely(e) PROVE isMajority(Cardinality(Voters(e)))
    BY DEF ElectedByMajority, Voters
  <2>1. e.leader \in Server
    BY <1>1 DEF TypeInv, TypeOK
  <2>2. TwoVotes(e.leader, e.term)
    BY <1>1 DEF Candidates
  <2>3. PICK v \in Server \ {e.leader} : <<v, e.term, e.leader>> \in votes
    BY <2>2 DEF TwoVotes
  <2>4. {e.leader, v} \subseteq Voters(e) /\ Voters(e) \subseteq Server
    BY <1>1, <2>1, <2>2, <2>3, VotersFacts DEF TwoVotes
  <2>5. IsFiniteSet(Voters(e)) /\ Cardinality(Voters(e)) \in Nat /\ Cardinality(Server) \in Nat
    BY <2>4, ServerAssumption, FS_Subset, FS_CardinalityType
  <2>6. Cardinality({e.leader, v}) = 2
    BY <2>3, TwoServers
  <2>7. Cardinality({e.leader, v}) <= Cardinality(Voters(e))
    BY <2>4, <2>5, FS_Subset
  <2> QED BY <2>5, <2>6, <2>7 DEF isMajority
<1>2. TypeInv /\ Candidates => ElectedByMajority
  BY <1>1
<1> QED BY <1>2, Types, CandidatesInv, PTL

\* In a cluster of any size: as long as everybody who came to power by votes of
\* the term has the votes of a majority, no term has two of them.  Two
\* majorities have a voter in common, and votedFor keeps it to one vote, over
\* crashes too.  The replies counted twice are the only gap of the elections.
THEOREM MajoritiesMeet == Spec => [](ElectedByMajority => TimelyElectionSafety)
<1>1. ASSUME TypeInv, OneVotePerTerm, ElectedByMajority PROVE TimelyElectionSafety
  <2> SUFFICES ASSUME NEW e \in elected, NEW f \in elected, Timely(e), Timely(f), e.term = f.term
               PROVE  e.leader = f.leader
    BY DEF TimelyElectionSafety
  <2>1. isMajority(Cardinality(Voters(e))) /\ isMajority(Cardinality(Voters(f)))
    BY <1>1 DEF ElectedByMajority, Voters
  <2>2. Voters(e) \subseteq Server /\ Voters(f) \subseteq Server
    BY <1>1, VotersFacts
  <2>3. Cardinality(Voters(e)) \in Nat /\ Cardinality(Voters(f)) \in Nat /\ Cardinality(Server) \in Nat
    BY <2>2, ServerAssumption, FS_Subset, FS_CardinalityType
  <2>4. Cardinality(Voters(e)) + Cardinality(Voters(f)) > Cardinality(Server)
    BY <2>1, <2>3 DEF isMajority
  <2>5. Voters(e) \cap Voters(f) # {}
    BY <2>2, <2>4, ServerAssumption, FS_MajoritiesIntersect
  <2>6. PICK s \in Server : s \in Voters(e) /\ s \in Voters(f)
    BY <2>2, <2>5
  <2>7. <<s, e.term, e.leader>> \in votes /\ <<s, e.term, f.leader>> \in votes
    BY <1>1, <2>6, VotersFacts
  <2> QED BY <1>1, <2>7 DEF OneVotePerTerm
<1>2. TypeInv /\ OneVotePerTerm => (ElectedByMajority => TimelyElectionSafety)
  BY <1>1
<1> QED BY <1>2, Types, OneVote, PTL

\* Who came to power did so by votes of the term.
AllTimely == \A e \in elected : Timely(e)

\* checkOneLeader of the tester, for a cluster of any size: no term has two
\* leaders, at once or one after the other, as long as every leader came to
\* power by votes of its term and with those of a majority.  A token left over
\* from an earlier election and a reply counted twice are the only two ways to
\* a second leader, and so to logs that do not match.
THEOREM TwoGaps == Spec => [](AllTimely /\ ElectedByMajority => SingleLeaders /\ ElectionSafety)
<1>1. ASSUME AllTimely, TimelyElectionSafety, Leaders PROVE ElectionSafety
  <2> SUFFICES ASSUME NEW s \in Server, NEW t \in Server, state[s] = "LEADER", state[t] = "LEADER",
                      currentTerm[s] = currentTerm[t]
               PROVE  s = t
    BY DEF ElectionSafety
  <2>1. Led(s, currentTerm[s]) /\ Led(t, currentTerm[s])
    BY <1>1 DEF Leaders
  <2>2. PICK e \in elected : e.leader = s /\ e.term = currentTerm[s]
    BY <2>1 DEF Led
  <2>3. PICK f \in elected : f.leader = t /\ f.term = currentTerm[s]
    BY <2>1 DEF Led
  <2> QED BY <1>1, <2>2, <2>3 DEF AllTimely, TimelyElectionSafety
<1>2. AllTimely /\ TimelyElectionSafety => SingleLeaders
  BY DEF AllTimely, TimelyElectionSafety, SingleLeaders
<1>3. AllTimely /\ TimelyElectionSafety /\ Leaders => SingleLeaders /\ ElectionSafety
  BY <1>1, <1>2
<1> QED BY <1>3, MajoritiesMeet, LeadersInv, PTL

\* In a cluster of up to three servers only the tokens are left.
THEOREM OneGap == Cardinality(Server) <= 3 => (Spec => [](AllTimely => SingleLeaders /\ ElectionSafety))
<1> SUFFICES ASSUME Cardinality(Server) <= 3
             PROVE  Spec => [](AllTimely => SingleLeaders /\ ElectionSafety)
  OBVIOUS
<1>1. Spec => []ElectedByMajority
  BY SmallMajorities
<1> QED BY <1>1, TwoGaps, PTL
====
