---------------------------- MODULE RaftLog_proofs ----------------------------
(***************************************************************************)
(* Logs and leaders' tables, as long as no term had two leaders and, where *)
(* the entries themselves matter, nobody took overwritten ones.  An entry  *)
(* is looked at with its position and the term of the entry before it (a   *)
(* link): a step spreads links, and only Start makes a new one.            *)
(***************************************************************************)
EXTENDS RaftElection_proofs

----------------------------------------------------------------------------
(* Links.                                                                  *)

\* The link of an entry of a log.
LogLink(log, i) == [index |-> i, entry |-> log[i], before |-> LogTerm(log, i - 1)]

\* The links of a log.
LEMMA LinksOfLog ==
  ASSUME NEW log \in Log
  PROVE  Links(0, 0, log) = {LogLink(log, i) : i \in 1 .. Len(log)}
<1>1. \A i \in 1 .. Len(log) : Link(0, 0, log, i) = LogLink(log, i)
  <2> TAKE i \in 1 .. Len(log)
  <2>1. 0 + i = i /\ (i = 1 <=> i - 1 = 0)
    OBVIOUS
  <2> QED BY <2>1 DEF Link, LogLink, LogTerm
<1> QED BY <1>1 DEF Links

\* The links of arguments that a leader makes are links of its log.
LEMMA LinksOfArgs ==
  ASSUME TypeInv, NEW s \in Server, NEW args \in AppendArgs, FromLog(s, args)
  PROVE  Links(args.PrevLogIndex, args.PrevLogTerm, args.Entries) \subseteq LogLinks(s)
<1> DEFINE log == logs[s]
           prev == args.PrevLogIndex
           entries == args.Entries
<1>1. log \in Log /\ Len(log) \in Nat
  BY DEF TypeInv, TypeOK, Log
<1>2. /\ prev \in Nat /\ Len(entries) \in Nat /\ prev + Len(entries) = Len(log)
      /\ args.PrevLogTerm = LogTerm(log, prev)
      /\ \A k \in 1 .. Len(entries) : entries[k] = log[prev + k]
  BY BoundAssumption DEF FromLog, AppendArgs
<1> HIDE DEF log, prev, entries
<1>3. ASSUME NEW k \in 1 .. Len(entries)
      PROVE  prev + k \in 1 .. Len(log) /\ Link(prev, args.PrevLogTerm, entries, k) = LogLink(log, prev + k)
  <2>1. prev + k \in 1 .. Len(log) /\ prev + k - 1 \in Nat
    BY <1>1, <1>2
  <2>2. CASE k = 1
    <3>1. prev + k - 1 = prev
      BY <1>2, <2>2
    <3> QED BY <1>2, <2>1, <2>2, <3>1 DEF Link, LogLink
  <2>3. CASE k # 1
    <3>1. /\ k - 1 \in 1 .. Len(entries) /\ prev + (k - 1) = prev + k - 1 /\ prev + k - 1 # 0
      BY <1>2, <2>3
    <3>2. entries[k - 1] = log[prev + k - 1]
      BY <1>2, <3>1
    <3> QED BY <1>2, <2>1, <2>3, <3>1, <3>2 DEF Link, LogLink, LogTerm
  <2> QED BY <2>2, <2>3
<1>4. LogLinks(s) = {LogLink(log, i) : i \in 1 .. Len(log)}
  BY <1>1, LinksOfLog DEF LogLinks, log
<1> QED BY <1>3, <1>4 DEF Links, prev, entries

\* The links of a log after a match are links of the old log and of the
\* arguments.
LEMMA LinksOfReplaced ==
  ASSUME NEW log \in Log, NEW args \in AppendArgs, Matches(log, args),
         args.PrevLogIndex = 0 => args.PrevLogTerm = 0,
         replaceFrom(log, args.PrevLogIndex, args.Entries) \in Log
  PROVE  Links(0, 0, replaceFrom(log, args.PrevLogIndex, args.Entries)) \subseteq
           Links(0, 0, log) \cup Links(args.PrevLogIndex, args.PrevLogTerm, args.Entries)
<1> DEFINE prev == args.PrevLogIndex
           entries == args.Entries
           new == replaceFrom(log, prev, entries)
<1>1. /\ prev \in 0 .. Len(log) /\ entries \in Seq(Entry) /\ log \in Seq(Entry)
      /\ Len(log) \in Nat /\ Len(entries) \in Nat
  BY BoundAssumption DEF AppendArgs, Matches, getLastIndex, Log
<1>2. LogTerm(log, prev) = args.PrevLogTerm
  BY <1>1 DEF Matches, LogTerm
<1>3. /\ Len(new) = prev + Len(entries)
      /\ \A i \in 1 .. prev : new[i] = log[i]
      /\ \A k \in 1 .. Len(entries) : new[prev + k] = entries[k]
  BY <1>1, replaceFromType
<1>4. Links(0, 0, new) = {LogLink(new, i) : i \in 1 .. Len(new)}
  BY LinksOfLog
<1>5. Links(0, 0, log) = {LogLink(log, i) : i \in 1 .. Len(log)}
  BY LinksOfLog
<1>6. Links(prev, args.PrevLogTerm, entries) =
        {Link(prev, args.PrevLogTerm, entries, k) : k \in 1 .. Len(entries)}
  BY DEF Links
<1> HIDE DEF new, prev, entries
<1>7. \A i \in 0 .. prev : LogTerm(new, i) = LogTerm(log, i)
  BY <1>1, <1>3 DEF LogTerm
<1>8. ASSUME NEW i \in 1 .. prev
      PROVE  LogLink(new, i) = LogLink(log, i) /\ i \in 1 .. Len(log)
  <2>1. i - 1 \in 0 .. prev /\ i \in 1 .. Len(log)
    BY <1>1
  <2> QED BY <1>3, <1>7, <2>1 DEF LogLink
<1>9. ASSUME NEW k \in 1 .. Len(entries)
      PROVE  LogLink(new, prev + k) = Link(prev, args.PrevLogTerm, entries, k)
  <2>1. CASE k = 1
    <3>1. prev + k - 1 = prev /\ prev \in 0 .. prev
      BY <1>1, <2>1
    <3>2. LogTerm(new, prev) = args.PrevLogTerm
      BY <1>2, <1>7, <3>1
    <3>3. new[prev + k] = entries[k]
      BY <1>3
    <3> QED BY <2>1, <3>1, <3>2, <3>3 DEF LogLink, Link
  <2>2. CASE k # 1
    <3>1. k - 1 \in 1 .. Len(entries) /\ prev + (k - 1) = prev + k - 1 /\ prev + k - 1 # 0
      BY <1>1, <2>2
    <3>2. new[prev + k - 1] = entries[k - 1]
      BY <1>3, <3>1
    <3>3. new[prev + k] = entries[k]
      BY <1>3
    <3>4. LogTerm(new, prev + k - 1) = entries[k - 1].LogTerm
      BY <3>1, <3>2 DEF LogTerm
    <3>5. LogLink(new, prev + k) =
            [index |-> prev + k, entry |-> entries[k], before |-> entries[k - 1].LogTerm]
      <4>1. prev + k - 1 = (prev + k) - 1
        BY <1>1
      <4>2. LogTerm(new, (prev + k) - 1) = entries[k - 1].LogTerm
        BY <3>4, <4>1
      <4> QED BY <3>3, <4>2, Zenon DEF LogLink
    <3>6. Link(prev, args.PrevLogTerm, entries, k) =
            [index |-> prev + k, entry |-> entries[k], before |-> entries[k - 1].LogTerm]
      BY <2>2, Zenon DEF Link
    <3> QED BY <3>5, <3>6
  <2> QED BY <2>1, <2>2
<1>10. ASSUME NEW i \in 1 .. Len(new)
       PROVE  i \in 1 .. prev \/ \E k \in 1 .. Len(entries) : i = prev + k
  <2>1. i \notin 1 .. prev => i - prev \in 1 .. Len(entries) /\ i = prev + (i - prev)
    BY <1>1, <1>3
  <2> QED BY <2>1
<1> SUFFICES ASSUME NEW i \in 1 .. Len(new)
             PROVE  LogLink(new, i) \in Links(0, 0, log) \cup Links(prev, args.PrevLogTerm, entries)
  BY <1>4 DEF new, prev, entries
<1>11. CASE i \in 1 .. prev
  BY <1>5, <1>8, <1>11
<1>12. CASE \E k \in 1 .. Len(entries) : i = prev + k
  BY <1>6, <1>9, <1>12
<1> QED BY <1>10, <1>11, <1>12

\* The links of a log after Start.
LEMMA LinksOfAppended ==
  ASSUME NEW log \in Log, NEW e \in Entry, Append(log, e) \in Log
  PROVE  Links(0, 0, Append(log, e)) \subseteq
           Links(0, 0, log) \cup {[index |-> Len(log) + 1, entry |-> e, before |-> getLastTerm(log)]}
<1> DEFINE new == Append(log, e)
<1>1. /\ Len(new) = Len(log) + 1 /\ Len(log) \in Nat
      /\ \A i \in 1 .. Len(log) : new[i] = log[i]
      /\ new[Len(log) + 1] = e
  BY AppendProperties DEF Log
<1>2. Links(0, 0, new) = {LogLink(new, i) : i \in 1 .. Len(new)}
  BY LinksOfLog
<1>3. Links(0, 0, log) = {LogLink(log, i) : i \in 1 .. Len(log)}
  BY LinksOfLog
<1> HIDE DEF new
<1>4. \A i \in 0 .. Len(log) : LogTerm(new, i) = LogTerm(log, i)
  BY <1>1 DEF LogTerm
<1>5. ASSUME NEW i \in 1 .. Len(log)
      PROVE  LogLink(new, i) = LogLink(log, i)
  <2>1. i - 1 \in 0 .. Len(log)
    BY <1>1
  <2> QED BY <1>1, <1>4, <2>1 DEF LogLink
<1>6. LogLink(new, Len(log) + 1) = [index |-> Len(log) + 1, entry |-> e, before |-> getLastTerm(log)]
  <2>1. Len(log) + 1 - 1 = Len(log) /\ Len(log) \in 0 .. Len(log)
    BY <1>1
  <2> QED BY <1>1, <1>4, <2>1 DEF LogLink, getLastTerm
<1>7. \A i \in 1 .. Len(new) : i \in 1 .. Len(log) \/ i = Len(log) + 1
  BY <1>1
<1> QED BY <1>2, <1>3, <1>5, <1>6, <1>7 DEF new

\* A link is in a log or on its way.
LEMMA InAllLinks ==
  /\ \A l : l \in AllLinks <=>
       \/ \E s \in Server : l \in LogLinks(s)
       \/ \E c \in BagToSet(calls) : IsAppend(c) /\ l \in CallLinks(c)
  /\ (\A l : l \in AllLinks <=>
       \/ \E s \in Server : l \in LogLinks(s)
       \/ \E c \in BagToSet(calls) : IsAppend(c) /\ l \in CallLinks(c))'
BY DEF AllLinks

\* Logs change in Start and AppendEntries only.
LEMMA LogsStep ==
  ASSUME TypeInv, PersistedIsCurrent, NEW s \in Server, Next!(s)
  PROVE  \/ UNCHANGED logs
         \/ Start(s)
         \/ \E c \in BagToSet(calls) : AppendEntries(s, c)
<1>1. CASE StatesLoop(s)
  BY <1>1 DEF StatesLoop, SwitchState, FollowerTimeout, FollowerHeartBeat, newElection,
    CandidateTimeout, CandidateHeartBeat, comeToPower, broadcastAppendEntries, persistentVars
<1>2. CASE broadcastRequestVote(s) \/ lateRequestVote(s) \/ applyLoop(s)
  BY <1>2 DEF broadcastRequestVote, lateRequestVote, applyLoop, persistentVars
<1>3. CASE Restart(s)
  BY <1>3, RestartKeeps DEF persistentVars
<1>4. CASE \E c \in BagToSet(calls) : HandleCall(s, c)
  BY <1>4 DEF HandleCall, RejectVote, RejectEntries, RequestVote, RefuseEntries, persistentVars
<1>5. CASE \E c \in BagToSet(calls) : DealReply(s, c)
  BY <1>5 DEF DealReply, StepDown, DealVoteReply, DealAppendReply, persistentVars
<1> QED BY <1>1, <1>2, <1>3, <1>4, <1>5

\* Entries are overwritten, and what was overwritten is read, in the same two.
LEMMA ArrayStep ==
  ASSUME NEW s \in Server, Next!(s)
  PROVE  \/ UNCHANGED <<overwritten, misread>>
         \/ Start(s)
         \/ \E c \in BagToSet(calls) : AppendEntries(s, c)
<1>1. CASE StatesLoop(s)
  BY <1>1 DEF StatesLoop, SwitchState, FollowerTimeout, FollowerHeartBeat, newElection,
    CandidateTimeout, CandidateHeartBeat, comeToPower, broadcastAppendEntries, historyVars
<1>2. CASE broadcastRequestVote(s) \/ lateRequestVote(s) \/ applyLoop(s) \/ Restart(s)
  BY <1>2 DEF broadcastRequestVote, lateRequestVote, applyLoop, Restart, historyVars
<1>3. CASE \E c \in BagToSet(calls) : HandleCall(s, c)
  BY <1>3 DEF HandleCall, RejectVote, RejectEntries, RequestVote, RefuseEntries, historyVars
<1>4. CASE \E c \in BagToSet(calls) : DealReply(s, c)
  BY <1>4 DEF DealReply, StepDown, DealVoteReply, DealAppendReply, historyVars
<1> QED BY <1>1, <1>2, <1>3, <1>4

\* If nobody has read overwritten entries, nobody had before.
LEMMA MisreadStays ==
  ASSUME [Next]_vars, ~misread'
  PROVE  ~misread
<1>1. CASE UNCHANGED vars
  BY <1>1 DEF vars, historyVars
<1>2. CASE Next
  <2>1. PICK s \in Server : Next!(s)
    BY <1>2 DEF Next
  <2>2. CASE Start(s)
    BY <2>2 DEF Start
  <2>3. CASE \E c \in BagToSet(calls) : AppendEntries(s, c)
    BY <2>3 DEF AppendEntries, TakeEntries
  <2> QED BY <2>1, <2>2, <2>3, ArrayStep
<1> QED BY <1>1, <1>2

\* The link that Start makes.
NewLink(s) == [index |-> Len(logs[s]) + 1,
               entry |-> [LogTerm |-> currentTerm[s], Command |-> s],
               before |-> getLastTerm(logs[s])]

\* A step spreads links that exist, but for the one that Start makes, unless
\* it takes overwritten entries.
LEMMA LinksStep ==
  ASSUME TypeInv, TypeInv', PersistedIsCurrent, [Next]_vars, ~misread'
  PROVE  \/ AllLinks' \subseteq AllLinks
         \/ \E s \in Server : Start(s) /\ AllLinks' \subseteq AllLinks \cup {NewLink(s)}
<1>1. logs \in [Server -> Log] /\ logs' \in [Server -> Log]
  BY DEF TypeInv, TypeOK
<1>2. CASE UNCHANGED vars
  <2>1. UNCHANGED <<logs, calls>>
    BY <1>2 DEF vars, persistentVars
  <2> QED BY <2>1 DEF AllLinks, LogLinks
<1>3. CASE Next
  <2>1. PICK s \in Server : Next!(s)
    BY <1>3 DEF Next
  <2>2. ASSUME NEW d \in BagToSet(calls'), IsAppend(d), NEW l \in CallLinks(d)
        PROVE  l \in AllLinks
    <3>1. CASE d \in BagToSet(calls)
      BY <2>2, <3>1, InAllLinks
    <3>2. CASE d \notin BagToSet(calls)
      <4>1. NewCall(s, d)
        BY <2>1, <3>2, NewCalls
      <4>2. CASE \E c \in BagToSet(calls) : IsAppend(c) /\ d.args = c.args /\ d.from = c.from
        BY <2>2, <4>2, InAllLinks DEF CallLinks
      <4>3. CASE FromLog(s, d.args)
        <5>1. d \in AppendCall
          BY <2>2 DEF TypeInv, TypeOK, AppendCall, VoteCall, IsAppend
        <5>2. d.args \in AppendArgs
          BY <5>1 DEF AppendCall
        <5>3. CallLinks(d) \subseteq LogLinks(s)
          BY <4>3, <5>2, LinksOfArgs DEF CallLinks
        <5> QED BY <2>2, <5>3, InAllLinks
      <4> QED BY <2>2, <4>1, <4>2, <4>3 DEF NewCall
    <3> QED BY <3>1, <3>2
  <2>3. CASE UNCHANGED logs
    <3>1. \A t \in Server : LogLinks(t)' = LogLinks(t)
      BY <2>3 DEF LogLinks
    <3> QED BY <2>2, <3>1, InAllLinks
  <2>4. CASE Start(s)
    <3> DEFINE e == [LogTerm |-> currentTerm[s], Command |-> s]
    <3>1. logs' = [logs EXCEPT ![s] = Append(@, e)] /\ calls' = calls
      BY <2>4 DEF Start
    <3>2. e \in Entry
      <4>1. currentTerm \in [Server -> 0 .. MaxTerm] /\ Started /\ state[s] = "LEADER"
        BY <2>4 DEF TypeInv, TypeOK, Start
      <4> QED BY <4>1, BoundAssumption DEF Started, Entry
    <3>3. NewLink(s) = [index |-> Len(logs[s]) + 1, entry |-> e, before |-> getLastTerm(logs[s])]
      BY DEF NewLink
    <3> HIDE DEF e
    <3>4. logs'[s] = Append(logs[s], e) /\ logs[s] \in Log /\ logs'[s] \in Log
      BY <1>1, <3>1
    <3>5. LogLinks(s)' \subseteq LogLinks(s) \cup {NewLink(s)}
      BY <3>2, <3>3, <3>4, LinksOfAppended DEF LogLinks
    <3>6. \A t \in Server \ {s} : LogLinks(t)' = LogLinks(t)
      BY <1>1, <3>1 DEF LogLinks
    <3>7. AllLinks' \subseteq AllLinks \cup {NewLink(s)}
      BY <2>2, <3>5, <3>6, InAllLinks
    <3> QED BY <2>4, <3>7
  <2>5. CASE \E c \in BagToSet(calls) : AppendEntries(s, c)
    <3>1. PICK c \in BagToSet(calls) : AppendEntries(s, c)
      BY <2>5
    <3>2. /\ AcceptTerm(s, c) /\ Matches(logs[s], c.args)
          /\ logs' = [logs EXCEPT ![s] = replaceFrom(logs[s], c.args.PrevLogIndex, c.args.Entries)]
      BY <3>1 DEF AppendEntries, TakeEntries
    <3>3. c \in AppendCall /\ WellFormed(c) /\ c.args \in AppendArgs
      BY <3>2, AcceptTermType
    <3>4. IsAppend(c) /\ (c.args.PrevLogIndex = 0 => c.args.PrevLogTerm = 0)
      BY <3>3 DEF AppendCall, IsAppend, WellFormed
    <3>5. /\ logs'[s] = replaceFrom(logs[s], c.args.PrevLogIndex, c.args.Entries)
          /\ logs[s] \in Log /\ logs'[s] \in Log
      BY <1>1, <3>2
    <3>6. LogLinks(s)' \subseteq LogLinks(s) \cup CallLinks(c)
      BY <3>2, <3>3, <3>4, <3>5, LinksOfReplaced DEF LogLinks, CallLinks
    <3>7. \A t \in Server \ {s} : LogLinks(t)' = LogLinks(t)
      BY <1>1, <3>2 DEF LogLinks
    <3> QED BY <2>2, <3>4, <3>6, <3>7, InAllLinks
  <2> QED BY <2>1, <2>3, <2>4, <2>5, LogsStep
<1> QED BY <1>2, <1>3

----------------------------------------------------------------------------
(* The log of a leader.                                                    *)

\* Nobody else leads a leader's term.
LEMMA OneLeader ==
  ASSUME SingleLeaders, NEW s, NEW t, NEW term, Led(s, term), Led(t, term)
  PROVE  s = t
BY DEF SingleLeaders, Led

\* No AppendEntries of its own term reaches a leader.
LEMMA LeaderGetsNoEntries ==
  ASSUME TypeInv, Leaders, SingleLeaders, NEW s \in Server, NEW c \in BagToSet(calls),
         AcceptTerm(s, c), state[s] = "LEADER"
  PROVE  state'[s] # "LEADER" /\ currentTerm'[s] # currentTerm[s]
<1>1. c \in AppendCall /\ WellFormed(c)
  BY AcceptTermType
<1>2. IsAppend(c) /\ c.from # c.to /\ c.to = s
  BY <1>1 DEF AppendCall, IsAppend, WellFormed, AcceptTerm, IsRequest
<1>3. Led(s, currentTerm[s]) /\ Led(c.from, c.args.Term)
  BY <1>2 DEF Leaders
<1>4. c.args.Term # currentTerm[s]
  BY <1>2, <1>3, OneLeader
<1>5. /\ currentTerm \in [Server -> 0 .. MaxTerm]
      /\ state \in [Server -> {"LEADER", "CANDIDATE", "FOLLOWER"}]
  BY DEF TypeInv, TypeOK
<1>6. c.args.Term > currentTerm[s]
  <2>1. c.args.Term \in Nat
    BY <1>1, BoundAssumption DEF AppendCall, AppendArgs
  <2>2. currentTerm[s] \in Nat
    BY <1>5, BoundAssumption
  <2>3. ~(c.args.Term < currentTerm[s])
    BY DEF AcceptTerm, isStale
  <2> QED BY <1>4, <2>1, <2>2, <2>3
<1>7. newTerm(s, c.args.Term)
  BY <1>6 DEF AcceptTerm
<1> QED BY <1>4, <1>5, <1>7 DEF newTerm

\* What a step does to the log of a server that leads before and after it.
LEMMA LeaderLog ==
  ASSUME TypeInv, TypeInv', PersistedIsCurrent, Leaders, SingleLeaders, [Next]_vars,
         NEW s \in Server, state[s] = "LEADER", state'[s] = "LEADER"
  PROVE  \/ logs'[s] = logs[s]
         \/ Start(s) /\ logs'[s] = Append(logs[s], [LogTerm |-> currentTerm[s], Command |-> s])
<1>1. logs \in [Server -> Log]
  BY DEF TypeInv, TypeOK
<1>2. CASE UNCHANGED logs
  BY <1>2
<1>3. CASE UNCHANGED vars
  BY <1>2, <1>3 DEF vars, persistentVars
<1>4. CASE Next
  <2>1. PICK t \in Server : Next!(t)
    BY <1>4 DEF Next
  <2>2. CASE Start(t)
    BY <1>1, <2>2 DEF Start
  <2>3. CASE \E c \in BagToSet(calls) : AppendEntries(t, c)
    <3>1. PICK c \in BagToSet(calls) : AppendEntries(t, c)
      BY <2>3
    <3>2. AcceptTerm(t, c)
      BY <3>1 DEF AppendEntries
    <3>3. t # s
      BY <3>2, LeaderGetsNoEntries
    <3> QED BY <1>1, <3>1, <3>3 DEF AppendEntries, TakeEntries
  <2> QED BY <1>2, <2>1, <2>2, <2>3, LogsStep
<1> QED BY <1>3, <1>4

----------------------------------------------------------------------------
(* Links and leaders.                                                      *)

\* What the steps below start from.
Known == TypeInv /\ PersistedIsCurrent /\ GrantsAreVotes /\ Leaders

\* Who came to power stays so, and no term had two leaders before if none has
\* them now.
LEMMA ElectedGrows ==
  ASSUME TypeInv, [Next]_vars
  PROVE  elected \subseteq elected' /\ (SingleLeaders' => SingleLeaders)
<1>1. elected \subseteq elected'
  BY ElectedStep
<1> QED BY <1>1 DEF SingleLeaders

\* An entry is of a term that had a leader.
LEMMA EntriesHaveLeadersStep ==
  Known /\ TypeInv' /\ EntriesHaveLeaders /\ [Next]_vars => EntriesHaveLeaders'
<1> SUFFICES ASSUME Known, TypeInv', EntriesHaveLeaders, [Next]_vars, ~misread'
             PROVE  EntriesHaveLeaders'
  BY DEF EntriesHaveLeaders
<1>0. ~misread
  BY MisreadStays
<1> USE <1>0 DEF Known
<1>1. elected \subseteq elected'
  BY ElectedGrows
<1>2. CASE AllLinks' \subseteq AllLinks
  BY <1>1, <1>2 DEF EntriesHaveLeaders
<1>3. CASE \E s \in Server : Start(s) /\ AllLinks' \subseteq AllLinks \cup {NewLink(s)}
  <2>1. PICK s \in Server : Start(s) /\ AllLinks' \subseteq AllLinks \cup {NewLink(s)}
    BY <1>3
  <2>2. Led(s, currentTerm[s])
    BY <2>1 DEF Start, Leaders
  <2>3. NewLink(s).entry.LogTerm = currentTerm[s]
    BY DEF NewLink
  <2>4. \E e \in elected : e.term = NewLink(s).entry.LogTerm
    BY <2>2, <2>3 DEF Led
  <2> QED BY <1>1, <2>1, <2>4 DEF EntriesHaveLeaders
<1> QED BY <1>2, <1>3, LinksStep

\* Position and term determine a link.
LEMMA LinksUniqueStep ==
  Known /\ TypeInv' /\ LinksUnique /\ LeaderHasAll /\ [Next]_vars => LinksUnique'
<1> SUFFICES ASSUME Known, TypeInv', LinksUnique, LeaderHasAll, [Next]_vars, SingleLeaders',
                    ~misread'
             PROVE  LinksUnique'
  BY DEF LinksUnique
<1>0. ~misread
  BY MisreadStays
<1> USE <1>0 DEF Known
<1>1. SingleLeaders
  BY ElectedGrows
<1>2. CASE AllLinks' \subseteq AllLinks
  BY <1>1, <1>2 DEF LinksUnique
<1>3. CASE \E s \in Server : Start(s) /\ AllLinks' \subseteq AllLinks \cup {NewLink(s)}
  <2>1. PICK s \in Server : Start(s) /\ AllLinks' \subseteq AllLinks \cup {NewLink(s)}
    BY <1>3
  <2>2. NewLink(s).entry.LogTerm = currentTerm[s] /\ NewLink(s).index = Len(logs[s]) + 1
    BY DEF NewLink
  <2>3. \A l \in AllLinks : l.entry.LogTerm = currentTerm[s] => l.index <= Len(logs[s])
    BY <1>1, <2>1 DEF LeaderHasAll, Start
  <2>4. ~(Len(logs[s]) + 1 <= Len(logs[s]))
    <3>1. Len(logs[s]) \in Nat
      BY DEF TypeInv, TypeOK, Log
    <3> QED BY <3>1
  <2>5. \A l \in AllLinks : ~(l.index = NewLink(s).index /\ l.entry.LogTerm = NewLink(s).entry.LogTerm)
    BY <2>2, <2>3, <2>4
  <2> QED BY <1>1, <2>1, <2>5 DEF LinksUnique
<1> QED BY <1>2, <1>3, LinksStep

\* A server that comes to power has everything of its term: there is nothing.
LEMMA NothingOfNewTerm ==
  ASSUME Known, EntriesHaveLeaders, [Next]_vars, SingleLeaders', NEW s \in Server, comeToPower(s)
  PROVE  /\ ~misread => \A l \in AllLinks : l.entry.LogTerm # currentTerm[s]
         /\ \A c \in BagToSet(calls) : IsAppend(c) => c.args.Term # currentTerm[s]
<1> USE DEF Known
<1>1. ~Led(s, currentTerm[s])
  BY DEF comeToPower, Leaders
<1>2. elected \subseteq elected'
  BY ElectedGrows
<1>3. \E f \in elected' : f.leader = s /\ f.term = currentTerm[s]
  <2> DEFINE f == [leader |-> s, term |-> currentTerm[s], token |-> Head(chanBeElected[s])]
  <2>1. f \in elected'
    BY DEF comeToPower
  <2>2. f.leader = s /\ f.term = currentTerm[s]
    OBVIOUS
  <2> HIDE DEF f
  <2> QED BY <2>1, <2>2
<1>4. \A e \in elected : e.term # currentTerm[s]
  BY <1>1, <1>2, <1>3 DEF SingleLeaders, Led
<1> QED BY <1>4 DEF EntriesHaveLeaders, Leaders, Led

\* A leader's log has everything of its term.
LEMMA LeaderHasAllStep ==
  Known /\ TypeInv' /\ EntriesHaveLeaders /\ LeaderHasAll /\ [Next]_vars => LeaderHasAll'
<1> SUFFICES ASSUME Known, TypeInv', EntriesHaveLeaders, LeaderHasAll, [Next]_vars, SingleLeaders',
                    NEW s \in Server, state'[s] = "LEADER"
             PROVE  /\ ~misread' => \A l \in AllLinks' :
                         l.entry.LogTerm = currentTerm'[s] => l.index <= Len(logs'[s])
                    /\ \A c \in BagToSet(calls') : IsAppend(c) /\ c.args.Term = currentTerm'[s] =>
                         c.args.PrevLogIndex + Len(c.args.Entries) <= Len(logs'[s])
  BY DEF LeaderHasAll
<1> USE DEF Known
<1>1. SingleLeaders
  BY ElectedGrows
<1>2. LoopEffect(s)
  BY LoopStep
<1>3. CASE comeToPower(s)
  <2>1. UNCHANGED <<logs, currentTerm, calls, misread>>
    BY <1>3 DEF comeToPower, persistentVars
  <2>2. AllLinks' = AllLinks
    BY <2>1 DEF AllLinks, LogLinks
  <2> QED BY <1>3, <2>1, <2>2, NothingOfNewTerm
<1>4. CASE state[s] = "LEADER"
  <2>1. pc[s] \in {"switch", "newHeartBeat"} /\ Led(s, currentTerm[s])
    BY <1>4 DEF Leaders
  <2>2. currentTerm'[s] = currentTerm[s]
    BY <1>2, <2>1 DEF LoopEffect
  <2>3. Len(logs[s]) \in Nat /\ logs[s] \in Seq(Entry)
    BY DEF TypeInv, TypeOK, Log
  <2>4. Len(logs'[s]) \in Nat /\ Len(logs[s]) <= Len(logs'[s])
    <3>1. CASE logs'[s] = logs[s]
      BY <2>3, <3>1
    <3>2. CASE logs'[s] # logs[s]
      <4>1. PICK e : logs'[s] = Append(logs[s], e)
        BY <1>1, <1>4, <3>2, LeaderLog
      <4>2. Len(Append(logs[s], e)) = Len(logs[s]) + 1
        BY <2>3
      <4> QED BY <2>3, <4>1, <4>2
    <3> QED BY <3>1, <3>2
  <2>5. ASSUME ~misread
        PROVE  \A l \in AllLinks :
                 l.entry.LogTerm = currentTerm[s] => l.index <= Len(logs[s]) /\ l.index \in Nat
    <3> TAKE l \in AllLinks
    <3>1. l.entry.LogTerm = currentTerm[s] => l.index <= Len(logs[s])
      BY <1>1, <1>4, <2>5 DEF LeaderHasAll
    <3>2. l.index \in Nat
      <4>1. CASE \E t \in Server : l \in LogLinks(t)
        <5>1. PICK t \in Server : l \in LogLinks(t)
          BY <4>1
        <5>2. PICK k \in 1 .. Len(logs[t]) : l = Link(0, 0, logs[t], k)
          BY <5>1 DEF LogLinks, Links
        <5>3. l.index = 0 + k
          BY <5>2 DEF Link
        <5> QED BY <5>3
      <4>2. CASE \E c \in BagToSet(calls) : IsAppend(c) /\ l \in CallLinks(c)
        <5>1. PICK c \in BagToSet(calls) : IsAppend(c) /\ l \in CallLinks(c)
          BY <4>2
        <5>2. PICK k \in 1 .. Len(c.args.Entries) :
                 l = Link(c.args.PrevLogIndex, c.args.PrevLogTerm, c.args.Entries, k)
          BY <5>1 DEF CallLinks, Links
        <5>3. l.index = c.args.PrevLogIndex + k
          BY <5>2 DEF Link
        <5>4. c \in AppendCall
          BY <5>1, CallType DEF IsAppend
        <5>5. c.args.PrevLogIndex \in Nat
          BY <5>4, BoundAssumption DEF AppendCall, AppendArgs
        <5> QED BY <5>3, <5>5
      <4> QED BY <4>1, <4>2, InAllLinks
    <3> QED BY <3>1, <3>2
  <2>6. ASSUME ~misread'
        PROVE  \A l \in AllLinks' : l.entry.LogTerm = currentTerm'[s] => l.index <= Len(logs'[s])
    <3>0. ~misread
      BY <2>6, MisreadStays
    <3>1. \A l \in AllLinks : l.entry.LogTerm = currentTerm'[s] => l.index <= Len(logs'[s])
      BY <2>2, <2>3, <2>4, <2>5, <3>0
    <3>2. CASE AllLinks' \subseteq AllLinks
      BY <3>1, <3>2
    <3>3. CASE \E t \in Server : Start(t) /\ AllLinks' \subseteq AllLinks \cup {NewLink(t)}
      <4>1. PICK t \in Server : Start(t) /\ AllLinks' \subseteq AllLinks \cup {NewLink(t)}
        BY <3>3
      <4>2. NewLink(t).entry.LogTerm = currentTerm[t] /\ NewLink(t).index = Len(logs[t]) + 1
        BY DEF NewLink
      <4>3. currentTerm[t] = currentTerm[s] => t = s
        <5>1. Led(t, currentTerm[t])
          BY <4>1 DEF Start, Leaders
        <5> QED BY <1>1, <2>1, <5>1, OneLeader
      <4>4. t = s => Len(logs'[s]) = Len(logs[s]) + 1
        <5>1. logs \in [Server -> Log]
          BY DEF TypeInv, TypeOK
        <5>2. t = s => \E e : logs'[s] = Append(logs[s], e)
          BY <4>1, <5>1 DEF Start
        <5> QED BY <2>3, <5>2
      <4>5. NewLink(t).entry.LogTerm = currentTerm'[s] => NewLink(t).index <= Len(logs'[s])
        BY <2>2, <2>4, <4>2, <4>3, <4>4
      <4> QED BY <3>1, <4>1, <4>5
    <3> QED BY <2>6, <3>2, <3>3, LinksStep
  <2>7. ASSUME NEW d \in BagToSet(calls'), IsAppend(d), d.args.Term = currentTerm'[s]
        PROVE  d.args.PrevLogIndex + Len(d.args.Entries) <= Len(logs'[s])
    <3>1. d.args.PrevLogIndex + Len(d.args.Entries) \in Nat
      <4>1. d \in AppendCall
        BY <2>7 DEF TypeInv, TypeOK, AppendCall, VoteCall, IsAppend
      <4> QED BY <4>1, BoundAssumption DEF AppendCall, AppendArgs
    <3>2. ASSUME NEW c \in BagToSet(calls), IsAppend(c), d.args = c.args
          PROVE  d.args.PrevLogIndex + Len(d.args.Entries) <= Len(logs[s])
      BY <1>1, <1>4, <2>2, <2>7, <3>2 DEF LeaderHasAll
    <3>3. d.args.PrevLogIndex + Len(d.args.Entries) <= Len(logs[s])
      <4>1. CASE d \in BagToSet(calls)
        BY <2>7, <3>2, <4>1
      <4>2. CASE d \notin BagToSet(calls)
        <5>1. calls' # calls
          BY <4>2
        <5>2. PICK t \in Server : Next!(t)
          BY <5>1 DEF Next, vars
        <5>3. NewCall(t, d)
          BY <4>2, <5>2, NewCalls
        <5>4. CASE FromLog(t, d.args)
          <6>1. Led(t, currentTerm[t]) /\ d.args.Term = currentTerm[t]
            BY <5>4 DEF FromLog, Leaders
          <6>2. t = s
            BY <1>1, <2>1, <2>2, <2>7, <6>1, OneLeader
          <6> QED BY <2>3, <5>4, <6>2 DEF FromLog
        <5> QED BY <2>7, <3>2, <5>3, <5>4 DEF NewCall
      <4> QED BY <4>1, <4>2
    <3> QED BY <2>3, <2>4, <3>1, <3>3
  <2> QED BY <2>6, <2>7
<1> QED BY <1>2, <1>3, <1>4 DEF LoopEffect

\* What the proofs of the election theorems establish.
THEOREM KnownInv == Spec => []Known
<1>1. TypeInv /\ PersistedIsCurrent /\ GrantsAreVotes /\ Leaders => Known
  BY DEF Known
<1> QED BY <1>1, Types, Persistence, Grants, LeadersInv, PTL

\* There are no links at first.
LEMMA NoLinksInit == Init => AllLinks = {}
<1> SUFFICES ASSUME Init PROVE AllLinks = {}
  OBVIOUS
<1>1. BagToSet(calls) = {} /\ \A s \in Server : logs[s] = <<>>
  BY DEF Init, InitFrom, EmptyBag, SetToBag, BagToSet
<1>2. \A s \in Server : LogLinks(s) = {}
  BY <1>1 DEF LogLinks, Links
<1> QED BY <1>1, <1>2, InAllLinks

\* The links of all logs and calls fit together.
THEOREM LinksInv == Spec => [](EntriesHaveLeaders /\ LinksUnique /\ LeaderHasAll)
<1>1. Init => EntriesHaveLeaders /\ LinksUnique /\ LeaderHasAll
  <2> SUFFICES ASSUME Init PROVE EntriesHaveLeaders /\ LinksUnique /\ LeaderHasAll
    OBVIOUS
  <2>1. AllLinks = {}
    BY NoLinksInit
  <2>2. \A s \in Server : state[s] # "LEADER"
    BY DEF Init, InitFrom
  <2> QED BY <2>1, <2>2 DEF EntriesHaveLeaders, LinksUnique, LeaderHasAll
<1>2. Known => TypeInv
  BY DEF Known
<1> QED BY <1>1, <1>2, EntriesHaveLeadersStep, LinksUniqueStep, LeaderHasAllStep, KnownInv, PTL DEF Spec

----------------------------------------------------------------------------
(* Theorems.                                                               *)

\* Logs in which position and term determine an entry and the term before it
\* agree up to any entry whose term they agree on.
LEMMA MatchingLogs ==
  ASSUME TypeInv, LinksUnique, SingleLeaders, ~misread, NEW s \in Server, NEW t \in Server,
         NEW i \in Nat, i > 0, i <= Len(logs[s]), i <= Len(logs[t]),
         LogTerm(logs[s], i) = LogTerm(logs[t], i)
  PROVE  SubSeq(logs[s], 1, i) = SubSeq(logs[t], 1, i)
<1> DEFINE a == logs[s]
           b == logs[t]
<1>1. a \in Log /\ b \in Log /\ Len(a) \in Nat /\ Len(b) \in Nat /\ a \in Seq(Entry) /\ b \in Seq(Entry)
  <2>1. logs \in [Server -> Log]
    BY DEF TypeInv, TypeOK
  <2> QED BY <2>1 DEF Log
<1>2. ASSUME NEW j \in 1 .. i, LogTerm(a, j) = LogTerm(b, j)
      PROVE  LogLink(a, j) = LogLink(b, j)
  <2>1. LogLink(a, j) \in LogLinks(s) /\ LogLink(b, j) \in LogLinks(t)
    <3>1. j \in 1 .. Len(a) /\ j \in 1 .. Len(b)
      BY <1>1
    <3> QED BY <1>1, <3>1, LinksOfLog DEF LogLinks
  <2>2. LogLink(a, j) \in AllLinks /\ LogLink(b, j) \in AllLinks
    BY <2>1, InAllLinks
  <2>3. /\ LogLink(a, j).index = j /\ LogLink(b, j).index = j
        /\ LogLink(a, j).entry = a[j] /\ LogLink(b, j).entry = b[j]
    BY DEF LogLink
  <2>4. LogTerm(a, j) = a[j].LogTerm /\ LogTerm(b, j) = b[j].LogTerm
    BY DEF LogTerm
  <2> HIDE DEF a, b
  <2> QED BY <1>2, <2>2, <2>3, <2>4 DEF LinksUnique
<1>3. \A j \in 1 .. i : LogTerm(a, j) = LogTerm(b, j)
  <2> DEFINE D == {n \in 0 .. i : i - n \in 1 .. i /\ LogTerm(a, i - n) # LogTerm(b, i - n)}
  <2> SUFFICES ASSUME NEW j \in 1 .. i, LogTerm(a, j) # LogTerm(b, j) PROVE FALSE
    OBVIOUS
  <2>1. i - j \in 0 .. i /\ i - (i - j) = j
    OBVIOUS
  <2>2. D \in SUBSET Nat /\ D # {}
    <3>1. i - j \in D
      BY <2>1
    <3>2. \A d \in D : d \in Nat
      OBVIOUS
    <3> HIDE DEF D
    <3> QED BY <3>1, <3>2
  <2>3. PICK n \in D : \A m \in D : n <= m
    <3> HIDE DEF D
    <3> QED BY <2>2, LeastNat
  <2>4. n \in 0 .. i /\ i - n \in 1 .. i /\ LogTerm(a, i - n) # LogTerm(b, i - n)
    BY <2>3
  <2>5. n > 0
    <3>1. n = 0 => i - n = i
      OBVIOUS
    <3> QED BY <2>4, <3>1
  <2> DEFINE k == i - (n - 1)
  <2>6. n - 1 \in 0 .. i /\ k \in 1 .. i /\ k - 1 = i - n /\ ~(n <= n - 1)
    BY <2>4, <2>5
  <2>7. LogTerm(a, k) = LogTerm(b, k)
    <3>1. n - 1 \notin D
      BY <2>3, <2>6
    <3> QED BY <2>6, <3>1
  <2> HIDE DEF D, k, a, b
  <2>8. LogLink(a, k) = LogLink(b, k)
    BY <1>2, <2>6, <2>7
  <2>9. LogTerm(a, k - 1) = LogTerm(b, k - 1)
    <3>1. LogLink(a, k).before = LogTerm(a, k - 1) /\ LogLink(b, k).before = LogTerm(b, k - 1)
      BY DEF LogLink
    <3> QED BY <2>8, <3>1
  <2> QED BY <2>4, <2>6, <2>9
<1> HIDE DEF a, b
<1>4. \A j \in 1 .. i : a[j] = b[j]
  <2> TAKE j \in 1 .. i
  <2>1. LogLink(a, j) = LogLink(b, j)
    BY <1>2, <1>3
  <2>2. LogLink(a, j).entry = a[j] /\ LogLink(b, j).entry = b[j]
    BY DEF LogLink
  <2> QED BY <2>1, <2>2
<1>5. i <= Len(a) /\ i <= Len(b)
  BY DEF a, b
<1>6. SubSeq(a, 1, i) = SubSeq(b, 1, i)
  BY <1>1, <1>4, <1>5
<1> QED BY <1>6 DEF a, b

\* As long as no term had two leaders and no server took entries that were
\* overwritten in their sender's array before Call encoded them, two logs that
\* agree on the term of an entry agree on everything up to it: whatever late
\* and reordered arguments AppendEntries truncates and appends, for any number
\* of servers.  Entries can be overwritten in this specification: the second
\* condition excludes states that it reaches.
THEOREM LogsMatch == Spec => []LogMatching
<1>1. ASSUME Known, LinksUnique PROVE LogMatching
  <2> SUFFICES ASSUME SingleLeaders, ~misread, NEW s \in Server, NEW t \in Server,
                      NEW i \in 1 .. Min({Len(logs[s]), Len(logs[t])}),
                      LogTerm(logs[s], i) = LogTerm(logs[t], i)
               PROVE  SubSeq(logs[s], 1, i) = SubSeq(logs[t], 1, i)
    BY DEF LogMatching
  <2>1. TypeInv
    BY <1>1 DEF Known
  <2>2. Len(logs[s]) \in Nat /\ Len(logs[t]) \in Nat
    <3>1. logs \in [Server -> Log]
      BY <2>1 DEF TypeInv, TypeOK
    <3> QED BY <3>1 DEF Log
  <2>3. /\ Min({Len(logs[s]), Len(logs[t])}) \in {Len(logs[s]), Len(logs[t])}
        /\ Min({Len(logs[s]), Len(logs[t])}) <= Len(logs[s])
        /\ Min({Len(logs[s]), Len(logs[t])}) <= Len(logs[t])
    BY <2>2, MinOfTwo
  <2>4. i \in Nat /\ i > 0 /\ i <= Len(logs[s]) /\ i <= Len(logs[t])
    BY <2>2, <2>3
  <2> QED BY <1>1, <2>1, <2>4, MatchingLogs
<1>2. Known /\ LinksUnique => LogMatching
  BY <1>1
<1> QED BY <1>2, KnownInv, LinksInv, PTL

\* As long as no term had two leaders, a leader only appends to its log: no
\* handler truncates it while the server leads.
THEOREM LeadersAppend == Spec => LeaderAppendOnly
<1> DEFINE Appends ==
      SingleLeaders' =>
        \A s \in Server : state[s] = "LEADER" /\ state'[s] = "LEADER" =>
          /\ Len(logs'[s]) >= Len(logs[s])
          /\ SubSeq(logs'[s], 1, Len(logs[s])) = logs[s]
<1>1. ASSUME Known, Known', [Next]_vars PROVE Appends
  <2> SUFFICES ASSUME SingleLeaders', NEW s \in Server, state[s] = "LEADER", state'[s] = "LEADER"
               PROVE  /\ Len(logs'[s]) >= Len(logs[s])
                      /\ SubSeq(logs'[s], 1, Len(logs[s])) = logs[s]
    OBVIOUS
  <2>1. TypeInv /\ TypeInv' /\ PersistedIsCurrent /\ Leaders /\ SingleLeaders
    BY <1>1, ElectedGrows DEF Known
  <2>2. logs[s] \in Seq(Entry) /\ Len(logs[s]) \in Nat
    BY <2>1 DEF TypeInv, TypeOK, Log
  <2>3. CASE logs'[s] = logs[s]
    BY <2>2, <2>3, SubSeqFull
  <2>4. CASE Start(s) /\ logs'[s] = Append(logs[s], [LogTerm |-> currentTerm[s], Command |-> s])
    <3> DEFINE e == [LogTerm |-> currentTerm[s], Command |-> s]
               log == logs[s]
    <3>1. e \in Entry
      <4>1. currentTerm \in [Server -> 0 .. MaxTerm] /\ Started
        BY <2>1 DEF TypeInv, TypeOK
      <4> QED BY <4>1, BoundAssumption DEF Started, Entry
    <3> HIDE DEF e, log
    <3>2. log \in Seq(Entry) /\ Len(log) \in Nat
      BY <2>2 DEF log
    <3>3. /\ Append(log, e) \in Seq(Entry) /\ Len(Append(log, e)) = Len(log) + 1
          /\ \A k \in 1 .. Len(log) : Append(log, e)[k] = log[k]
      BY <3>1, <3>2, AppendProperties
    <3>4. SubSeq(Append(log, e), 1, Len(log)) = log
      BY <3>2, <3>3
    <3>5. Len(Append(log, e)) >= Len(log)
      BY <3>2, <3>3
    <3> QED BY <2>4, <3>4, <3>5 DEF e, log
  <2> QED BY <1>1, <2>1, <2>3, <2>4, LeaderLog
<1>2. Known /\ Known' /\ [Next]_vars => [Appends]_vars
  BY <1>1
<1> QED BY <1>2, KnownInv, PTL DEF Spec, LeaderAppendOnly

\* A leader's table stays within its log.
LEMMA NextIndexStep ==
  Known /\ Known' /\ LeaderHasAll /\ NextIndexInRange /\ [Next]_vars => NextIndexInRange'
<1> SUFFICES ASSUME Known, Known', LeaderHasAll, NextIndexInRange, [Next]_vars, SingleLeaders',
                    NEW s \in Server, NEW id \in Server, state'[s] = "LEADER"
             PROVE  nextIndex'[s][id] \in 1 .. Len(logs'[s]) + 1
  BY DEF NextIndexInRange, getLastIndex
<1>1. /\ TypeInv /\ TypeInv' /\ PersistedIsCurrent /\ GrantsAreVotes /\ Leaders
      /\ SingleLeaders
  BY ElectedGrows DEF Known
<1>2. nextIndex \in [Server -> [Server -> 0 .. MaxLog + 1]] /\ logs \in [Server -> Log]
  BY <1>1 DEF TypeInv, TypeOK
<1>3. Len(logs[s]) \in Nat /\ logs[s] \in Seq(Entry)
  BY <1>2 DEF Log
<1>4. LoopEffect(s)
  BY <1>1, LoopStep
<1>5. CASE comeToPower(s)
  <2>1. logs' = logs /\ nextIndex'[s][id] = Len(logs[s]) + 1
    BY <1>2, <1>5 DEF comeToPower, persistentVars, getLastIndex
  <2> QED BY <1>3, <2>1
<1>6. CASE state[s] = "LEADER" /\ ~comeToPower(s)
  <2>1. nextIndex[s][id] \in 1 .. Len(logs[s]) + 1
    BY <1>1, <1>6 DEF NextIndexInRange, getLastIndex
  <2>2. Len(logs'[s]) \in Nat /\ Len(logs[s]) <= Len(logs'[s])
    <3>1. CASE logs'[s] = logs[s]
      BY <1>3, <3>1
    <3>2. CASE logs'[s] # logs[s]
      <4>1. PICK e : logs'[s] = Append(logs[s], e)
        BY <1>1, <1>6, <3>2, LeaderLog
      <4>2. Len(Append(logs[s], e)) = Len(logs[s]) + 1
        BY <1>3
      <4> QED BY <1>3, <4>1, <4>2
    <3> QED BY <3>1, <3>2
  <2>3. nextIndex'[s][id] \in 1 .. Len(logs[s]) + 1
    <3>1. CASE nextIndex'[s][id] = nextIndex[s][id]
      BY <2>1, <3>1
    <3>2. CASE \E c \in BagToSet(calls) : DealAppendReply(s, c)
      <4>1. PICK c \in BagToSet(calls) : DealAppendReply(s, c)
        BY <3>2
      <4>2. CASE UNCHANGED leaderVars
        BY <3>1, <4>2 DEF leaderVars
      <4>3. CASE /\ c \in AppendCall
                 /\ currentTerm[s] = c.args.Term
                 /\ \E n \in 1 .. c.args.PrevLogIndex + Len(c.args.Entries) + 1 :
                      nextIndex' = [nextIndex EXCEPT ![s][c.to] = n]
        <5>1. PICK n \in 1 .. c.args.PrevLogIndex + Len(c.args.Entries) + 1 :
                nextIndex' = [nextIndex EXCEPT ![s][c.to] = n]
          BY <4>3
        <5>2. c.args.PrevLogIndex + Len(c.args.Entries) <= Len(logs[s])
          BY <1>1, <1>6, <4>3 DEF LeaderHasAll, AppendCall, IsAppend
        <5>3. c.args.PrevLogIndex \in Nat /\ Len(c.args.Entries) \in Nat /\ c.to \in Server
          BY <4>3, BoundAssumption DEF AppendCall, AppendArgs
        <5>4. n \in 1 .. Len(logs[s]) + 1
          BY <1>3, <5>1, <5>2, <5>3
        <5>5. nextIndex'[s][id] = n \/ nextIndex'[s][id] = nextIndex[s][id]
          BY <1>2, <5>1, <5>3
        <5> QED BY <3>1, <5>4, <5>5
      <4> QED BY <1>1, <4>1, <4>2, <4>3, DealAppendReplyEffect
    <3>3. CASE UNCHANGED vars
      BY <3>1, <3>3 DEF vars, leaderVars
    <3>4. CASE Next
      <4>1. PICK t \in Server : Next!(t)
        BY <3>4 DEF Next
      <4>2. CASE StatesLoop(t)
        BY <1>2, <1>6, <3>1, <4>2 DEF StatesLoop, SwitchState, FollowerTimeout, FollowerHeartBeat,
          newElection, CandidateTimeout, CandidateHeartBeat, comeToPower, broadcastAppendEntries,
          leaderVars
      <4>3. CASE broadcastRequestVote(t) \/ lateRequestVote(t) \/ Start(t) \/ applyLoop(t)
        BY <3>1, <4>3 DEF broadcastRequestVote, lateRequestVote, Start, applyLoop, leaderVars
      <4>4. CASE Restart(t)
        <5>1. t # s
          <6>1. state \in [Server -> {"LEADER", "CANDIDATE", "FOLLOWER"}]
            BY <1>1 DEF TypeInv, TypeOK
          <6> QED BY <4>4, <6>1 DEF Restart
        <5>2. nextIndex' = [nextIndex EXCEPT ![t] = [i \in Server |-> 0]]
          BY <4>4 DEF Restart
        <5> QED BY <1>2, <3>1, <5>1, <5>2
      <4>5. CASE \E c \in BagToSet(calls) : HandleCall(t, c)
        BY <3>1, <4>5 DEF HandleCall, RejectVote, RejectEntries, RequestVote, RefuseEntries,
          AppendEntries, AcceptTerm, leaderVars
      <4>6. CASE \E c \in BagToSet(calls) : DealReply(t, c)
        <5>1. PICK c \in BagToSet(calls) : DealReply(t, c)
          BY <4>6
        <5>2. CASE StepDown(t, c) \/ DealVoteReply(t, c)
          BY <3>1, <5>2 DEF StepDown, DealVoteReply, leaderVars
        <5>3. CASE DealAppendReply(t, c)
          <6>1. CASE t = s
            BY <3>2, <5>3, <6>1
          <6>2. CASE t # s
            <7>1. \/ UNCHANGED leaderVars
                  \/ \E n \in 1 .. c.args.PrevLogIndex + Len(c.args.Entries) + 1 :
                       nextIndex' = [nextIndex EXCEPT ![t][c.to] = n]
              BY <1>1, <5>3, DealAppendReplyEffect
            <7>2. nextIndex'[s] = nextIndex[s]
              BY <1>2, <6>2, <7>1 DEF leaderVars
            <7> QED BY <3>1, <7>2
          <6> QED BY <6>1, <6>2
        <5> QED BY <5>1, <5>2, <5>3 DEF DealReply
      <4> QED BY <4>1, <4>2, <4>3, <4>4, <4>5, <4>6
    <3> QED BY <3>3, <3>4
  <2> QED BY <1>3, <2>2, <2>3
<1> QED BY <1>4, <1>5, <1>6 DEF LoopEffect

\* As long as no term had two leaders, the index that newAppendEntriesArgs
\* reads is in the leader's log, after any sequence of late, lost and
\* reordered replies: the leader's loop does not panic.
THEOREM IndexInRange == Spec => []NextIndexInRange
<1>1. Init => NextIndexInRange
  BY DEF Init, InitFrom, NextIndexInRange
<1> QED BY <1>1, NextIndexStep, KnownInv, LinksInv, PTL DEF Spec

\* As long as no term had two leaders, a server that leads by votes of its
\* term gets no token in chanHeartBeat: a call of its own term would be its
\* own, and its vote is its own.  A handler of a leader is not blocked there.
THEOREM NoTokenForLeader == Spec => LeaderGetsNoToken
<1> DEFINE NoToken ==
      SingleLeaders' =>
        \A s \in Server :
          /\ state[s] = "LEADER" /\ state'[s] = "LEADER" /\ currentTerm'[s] = currentTerm[s]
          /\ [leader |-> s, term |-> currentTerm[s], token |-> currentTerm[s]] \in elected
          => chanHeartBeat'[s] <= chanHeartBeat[s]
<1>1. ASSUME Known, VotesKept, Candidates, [Next]_vars PROVE NoToken
  <2> SUFFICES ASSUME SingleLeaders', NEW s \in Server, state[s] = "LEADER", state'[s] = "LEADER",
                      currentTerm'[s] = currentTerm[s],
                      [leader |-> s, term |-> currentTerm[s], token |-> currentTerm[s]] \in elected
               PROVE  chanHeartBeat'[s] <= chanHeartBeat[s]
    OBVIOUS
  <2>1. TypeInv /\ Leaders /\ SingleLeaders
    BY <1>1, ElectedGrows DEF Known
  <2>2. chanHeartBeat \in [Server -> 0 .. Cap] /\ chanHeartBeat[s] \in Nat
    BY <2>1, BoundAssumption DEF TypeInv, TypeOK
  <2>3. votedFor[s] = s
    <3> DEFINE e == [leader |-> s, term |-> currentTerm[s], token |-> currentTerm[s]]
    <3>1. e \in elected /\ Timely(e) /\ e.leader = s /\ e.term = currentTerm[s]
      BY DEF Timely
    <3> HIDE DEF e
    <3>2. <<s, currentTerm[s], s>> \in votes
      BY <1>1, <3>1 DEF Candidates, TwoVotes
    <3> QED BY <1>1, <3>2 DEF VotesKept
  <2>4. CASE chanHeartBeat'[s] = chanHeartBeat[s]
    BY <2>2, <2>4
  <2>5. CASE UNCHANGED vars
    BY <2>4, <2>5 DEF vars
  <2>6. CASE Next
    <3>1. PICK t \in Server : Next!(t)
      BY <2>6 DEF Next
    <3>2. CASE FollowerHeartBeat(t) \/ CandidateHeartBeat(t) 
      <4>1. chanHeartBeat' = [chanHeartBeat EXCEPT ![t] = @ - 1]
        BY <3>2 DEF FollowerHeartBeat, CandidateHeartBeat
      <4> QED BY <2>2, <4>1
    <3>3. CASE StatesLoop(t) /\ ~(FollowerHeartBeat(t) \/ CandidateHeartBeat(t))
      BY <2>4, <3>3 DEF StatesLoop, SwitchState, FollowerTimeout, newElection, CandidateTimeout,
        comeToPower, broadcastAppendEntries
    <3>4. CASE broadcastRequestVote(t) \/ lateRequestVote(t) \/ Start(t) \/ applyLoop(t)
      BY <2>4, <3>4 DEF broadcastRequestVote, lateRequestVote, Start, applyLoop
    <3>5. CASE Restart(t)
      <4>1. chanHeartBeat' = [chanHeartBeat EXCEPT ![t] = 0]
        BY <3>5 DEF Restart
      <4> QED BY <2>2, <4>1
    <3>6. CASE \E c \in BagToSet(calls) : HandleCall(t, c)
      <4>1. PICK c \in BagToSet(calls) : HandleCall(t, c)
        BY <3>6
      <4>2. CASE RejectVote(t, c) \/ RejectEntries(t, c)
        BY <2>4, <4>2 DEF RejectVote, RejectEntries
      <4>3. CASE RequestVote(t, c)
        <5> DEFINE newer == c.args.Term > currentTerm[t]
                   vote == IF newer THEN NOBODY ELSE votedFor[t]
                   granted == isValidArgs(vote, logs[t], c.from, c.args)
        <5>1. /\ chanHeartBeat' = [chanHeartBeat EXCEPT ![t] = IF granted THEN @ + 1 ELSE @]
              /\ state' = [state EXCEPT ![t] = IF newer THEN "FOLLOWER" ELSE @]
              /\ c.to = t
          BY <4>3 DEF RequestVote, IsRequest
        <5>2. granted => vote = NOBODY \/ vote = c.from
          BY DEF isValidArgs
        <5> HIDE DEF granted
        <5>3. CASE t # s
          BY <2>2, <2>4, <5>1, <5>3
        <5>4. CASE t = s
          <6>1. state \in [Server -> {"LEADER", "CANDIDATE", "FOLLOWER"}]
            BY <2>1 DEF TypeInv, TypeOK
          <6>2. ~newer
            <7> HIDE DEF newer
            <7> QED BY <5>1, <5>4, <6>1
          <6>3. c.from # s
            BY <2>1, <5>1, <5>4, CallType DEF WellFormed
          <6>4. s # NOBODY
            BY ServerAssumption
          <6>5. ~granted
            BY <2>3, <5>2, <5>4, <6>2, <6>3, <6>4
          <6> QED BY <2>2, <2>4, <5>1, <6>5
        <5> QED BY <5>3, <5>4
      <4>4. CASE RefuseEntries(t, c) \/ AppendEntries(t, c)
        <5>1. AcceptTerm(t, c)
          BY <4>4 DEF RefuseEntries, AppendEntries
        <5>2. t # s
          BY <2>1, <5>1, LeaderGetsNoEntries
        <5>3. chanHeartBeat' = [chanHeartBeat EXCEPT ![t] = @ + 1]
          BY <5>1 DEF AcceptTerm
        <5> QED BY <2>2, <2>4, <5>2, <5>3
      <4> QED BY <4>1, <4>2, <4>3, <4>4 DEF HandleCall
    <3>7. CASE \E c \in BagToSet(calls) : DealReply(t, c)
      BY <2>4, <3>7 DEF DealReply, StepDown, DealVoteReply, DealAppendReply
    <3> QED BY <3>1, <3>2, <3>3, <3>4, <3>5, <3>6, <3>7
  <2> QED BY <1>1, <2>5, <2>6
<1>2. Known /\ VotesKept /\ Candidates /\ [Next]_vars => [NoToken]_vars
  BY <1>1
<1> QED BY <1>2, KnownInv, VotesInv, CandidatesInv, PTL DEF Spec, LeaderGetsNoToken

\* What is overwritten in a step is part of arguments of the sender's own
\* array, at a position that it writes.
LEMMA Overwrites ==
  ASSUME NEW s, NEW first, overwriteFrom(s, first), NEW w \in overwritten', w \notin overwritten
  PROVE  /\ w.from = s
         /\ \E c \in unencoded(s) : \E i \in first .. Len(logs'[s]) :
              /\ w.args = c.args
              /\ i - c.args.PrevLogIndex \in DOMAIN c.args.Entries
<1> DEFINE new(c, i) == [from |-> s, incarnation |-> incarnation[s], args |-> c.args,
                         index |-> i, entry |-> logs'[s][i]]
<1>1. PICK c \in unencoded(s) : \E i \in first .. Len(logs'[s]) :
        i - c.args.PrevLogIndex \in DOMAIN c.args.Entries /\ w = new(c, i)
  BY DEF overwriteFrom
<1>2. PICK i \in first .. Len(logs'[s]) :
        i - c.args.PrevLogIndex \in DOMAIN c.args.Entries /\ w = new(c, i)
  BY <1>1
<1>3. w.from = s /\ w.args = c.args
  BY <1>2
<1> HIDE DEF new
<1> QED BY <1>2, <1>3

\* Arguments of the current term are not overwritten: Start writes after them,
\* and AppendEntries writes on behalf of the leader of another term.
LEMMA OverwrittenStep ==
  Known /\ Known' /\ LeaderHasAll /\ OnlyOldOverwritten /\ [Next]_vars => OnlyOldOverwritten'
<1> SUFFICES ASSUME Known, Known', LeaderHasAll, OnlyOldOverwritten, [Next]_vars, SingleLeaders',
                    NEW w \in overwritten'
             PROVE  w.args.Term < currentTerm'[w.from]
  BY DEF OnlyOldOverwritten
<1>1. TypeInv /\ TypeInv' /\ PersistedIsCurrent /\ Leaders /\ SingleLeaders
  BY ElectedGrows DEF Known
<1>2. /\ currentTerm \in [Server -> 0 .. MaxTerm] /\ currentTerm' \in [Server -> 0 .. MaxTerm]
      /\ overwritten' \subseteq Overwriting
      /\ logs \in [Server -> Log] /\ logs' \in [Server -> Log]
  BY <1>1 DEF TypeInv, TypeOK
<1>3. w.from \in Server /\ w.args.Term \in Nat
  BY <1>2, BoundAssumption DEF Overwriting, AppendArgs
<1>4. currentTerm[w.from] <= currentTerm'[w.from] /\ currentTerm[w.from] \in Nat /\ currentTerm'[w.from] \in Nat
  <2>1. currentTerm[w.from] <= currentTerm'[w.from]
    BY <1>1, <1>3, TermStep
  <2> QED BY <1>2, <1>3, <2>1, BoundAssumption
<1>5. CASE w \in overwritten
  <2>1. w.args.Term < currentTerm[w.from]
    BY <1>1, <1>5 DEF OnlyOldOverwritten
  <2> QED BY <1>3, <1>4, <2>1
<1>6. CASE w \notin overwritten
  <2>1. PICK s \in Server : Next!(s)
    <3>1. overwritten' # overwritten
      BY <1>6
    <3> QED BY <3>1 DEF Next, vars, historyVars
  <2>2. PICK first : /\ overwriteFrom(s, first)
                     /\ \/ Start(s) /\ first = Len(logs'[s])
                        \/ \E c \in BagToSet(calls) : AppendEntries(s, c)
    BY <1>6, <2>1, ArrayStep DEF Start, AppendEntries, TakeEntries
  <2>3. PICK d \in unencoded(s) : \E i \in first .. Len(logs'[s]) :
              /\ w.args = d.args
              /\ i - d.args.PrevLogIndex \in DOMAIN d.args.Entries
    BY <1>6, <2>2, Overwrites
  <2>4. w.from = s
    BY <1>6, <2>2, Overwrites
  <2>5. d \in BagToSet(calls) /\ IsAppend(d) /\ d.from = s
    BY DEF unencoded, IsAppend
  <2>6. Led(s, w.args.Term)
    BY <1>1, <2>3, <2>5 DEF Leaders
  <2>7. w.args.Term <= currentTerm[s]
    BY <1>1, <2>6 DEF Leaders, Led
  <2>8. CASE w.args.Term < currentTerm'[s]
    BY <2>4, <2>8
  <2>9. CASE w.args.Term = currentTerm'[s]
    <3>1. w.args.Term = currentTerm[s] /\ currentTerm'[s] = currentTerm[s]
      BY <1>3, <1>4, <2>4, <2>7, <2>9
    <3>2. CASE Start(s) /\ first = Len(logs'[s])
      <4>1. d.args.PrevLogIndex + Len(d.args.Entries) <= Len(logs[s])
        BY <1>1, <2>3, <2>5, <3>1, <3>2 DEF LeaderHasAll, Start
      <4>2. d \in AppendCall
        BY <1>1, <2>5 DEF TypeInv, TypeOK, AppendCall, VoteCall, IsAppend
      <4>3. /\ d.args.PrevLogIndex \in Nat /\ Len(d.args.Entries) \in Nat
            /\ DOMAIN d.args.Entries = 1 .. Len(d.args.Entries)
        BY <4>2, BoundAssumption DEF AppendCall, AppendArgs
      <4>4. Len(logs'[s]) = Len(logs[s]) + 1 /\ Len(logs[s]) \in Nat
        <5>1. logs[s] \in Seq(Entry) /\ Len(logs[s]) \in Nat
          BY <1>2 DEF Log
        <5>2. \E e : logs'[s] = Append(logs[s], e)
          BY <1>2, <3>2 DEF Start
        <5> QED BY <5>1, <5>2
      <4>5. PICK i \in Len(logs'[s]) .. Len(logs'[s]) : i - d.args.PrevLogIndex \in 1 .. Len(d.args.Entries)
        BY <2>3, <3>2, <4>3
      <4> QED BY <4>1, <4>3, <4>4, <4>5
    <3>3. CASE \E c \in BagToSet(calls) : AppendEntries(s, c)
      <4>1. PICK c \in BagToSet(calls) : AppendEntries(s, c)
        BY <3>3
      <4>2. AcceptTerm(s, c)
        BY <4>1 DEF AppendEntries
      <4>3. c \in AppendCall /\ WellFormed(c)
        BY <1>1, <4>2, AcceptTermType
      <4>4. IsAppend(c) /\ c.from # c.to /\ c.to = s
        BY <4>2, <4>3 DEF AppendCall, IsAppend, WellFormed, AcceptTerm, IsRequest
      <4>5. Led(c.from, c.args.Term)
        BY <1>1, <4>4 DEF Leaders
      <4>6. c.args.Term # currentTerm[s]
        BY <1>1, <2>6, <3>1, <4>4, <4>5, OneLeader
      <4>7. c.args.Term \in Nat /\ currentTerm[s] \in Nat
        BY <1>2, <4>3, BoundAssumption DEF AppendCall, AppendArgs
      <4>8. c.args.Term > currentTerm[s]
        BY <4>2, <4>6, <4>7 DEF AcceptTerm, isStale
      <4>9. currentTerm'[s] = c.args.Term
        BY <1>2, <4>2, <4>8 DEF AcceptTerm, newTerm
      <4> QED BY <3>1, <4>6, <4>9
    <3> QED BY <2>2, <3>2, <3>3
  <2> QED BY <1>3, <1>4, <2>4, <2>7, <2>8, <2>9
<1> QED BY <1>5, <1>6

\* As long as no term had two leaders, the entries in arguments of a leader are
\* overwritten only after it has left the term they were sent in: the array
\* that newAppendEntriesArgs shares with rf.logs is safe while the server leads.
THEOREM OldArgumentsOnly == Spec => []OnlyOldOverwritten
<1>1. Init => OnlyOldOverwritten
  BY DEF Init, InitFrom, OnlyOldOverwritten
<1> QED BY <1>1, OverwrittenStep, KnownInv, LinksInv, PTL DEF Spec

\* The inductive invariant of RaftInv holds in every reachable state, for any
\* number of servers, terms, entries, calls in flight and crashes, and whatever
\* the unlocked encoding of arguments reads.  Its parts about entries hold as
\* long as nobody took overwritten ones.
THEOREM InductiveInvariant == Spec => []IInv
<1>1. /\ Known /\ VotesKept /\ Candidates
      /\ EntriesHaveLeaders /\ LinksUnique /\ LeaderHasAll /\ OnlyOldOverwritten
      => IInv
  BY DEF Known, TypeInv, IInv
<1> QED BY <1>1, KnownInv, VotesInv, CandidatesInv, LinksInv, OldArgumentsOnly, PTL
====
