--------------------------------- MODULE Raft ---------------------------------
(***************************************************************************)
(* A cluster of the Raft servers of Raft/code, on the simulated network    *)
(* labrpc, driven by the tester config.go.                                 *)
(*                                                                         *)
(* A server is these goroutines, which share the mutex rf.mu:              *)
(*   statesLoop   where it stands is pc[s]; it reads and writes rf.state   *)
(*                without the mutex, so those reads and writes are steps   *)
(*                of their own;                                            *)
(*   applyLoop    delivers committed entries to the tester;                *)
(*   the handlers of RequestVote and AppendEntries;                        *)
(*   one broadcastRequestVote per election, and one goroutine per call     *)
(*                that waits for the reply and deals with it.              *)
(* An action is one critical section, or one access to rf.state.           *)
(*                                                                         *)
(* A call on the network is executed at most once, late or never, and its  *)
(* reply too may be late or lost.  A call that stays in flight for ever is *)
(* a lost one.                                                             *)
(***************************************************************************)
EXTENDS Integers, Sequences, FiniteSets, FiniteSetsExt, Bags

CONSTANTS
  Server,      \* the peers
  NOBODY,      \* votedFor when there is no vote
  MaxTerm,     \* bound: elections
  MaxLog,      \* bound: entries a log takes from clients
  MaxCalls,    \* bound: calls in flight; a call above it is one that is lost
  MaxRestart,  \* bound: crashes
  Cap          \* bound: tokens in a channel (its capacity is 100 in the code)

ASSUME ServerAssumption == IsFiniteSet(Server) /\ Server # {} /\ NOBODY \notin Server
ASSUME BoundAssumption ==
  MaxTerm \in Nat /\ MaxLog \in Nat /\ MaxCalls \in Nat /\ MaxRestart \in Nat /\ Cap \in Nat \ {0}

VARIABLES
  currentTerm, votedFor, logs,      \* persistent state; entry 0 of logs is implicit
  persisted,                        \* what the Persister of each server holds
  commitIndex, lastApplied,
  nextIndex, matchIndex,            \* of a leader, set in comeToPower
  state, voteCount,
  chanCommit, chanHeartBeat,        \* number of tokens in the channel
  chanBeElected,                    \* its tokens, each as the term it was sent in
  pc,                               \* what statesLoop does next
  broadcasting,                     \* number of broadcastRequestVote not run yet
  ballots,                          \* bag: arguments of those that run and do not ask yet
  incarnation,                      \* how often the tester restarted the server
  calls,                            \* bag of calls in flight
  applied,                          \* cfg.logs: what the tester got from each server
  panicked,                         \* an index was out of range
  votes,                            \* history: <<voter, term, candidate>>
  elected,                          \* history: who came to power in which term
  overwritten,                      \* in-place writes to entries of arguments in flight
  misread                           \* history: a server took entries that were overwritten

persistentVars == <<currentTerm, votedFor, logs, persisted>>
leaderVars == <<nextIndex, matchIndex>>
loopVars == <<pc, broadcasting, ballots>>
historyVars == <<votes, elected, overwritten, misread>>
vars == <<persistentVars, commitIndex, lastApplied, leaderVars, state, voteCount, chanCommit,
          chanHeartBeat, chanBeElected, loopVars, incarnation, calls, applied, panicked,
          historyVars>>

Entry == [LogTerm : 1 .. MaxTerm, Command : Server]

----------------------------------------------------------------------------
\* getLastIndex, and LogTerm of an entry; entry 0 has term 0.
getLastIndex(log) == Len(log)
LogTerm(log, i) == IF i = 0 THEN 0 ELSE log[i].LogTerm
getLastTerm(log) == LogTerm(log, Len(log))

\* Mutant: the early return is missing.
isStaleNever(s, args) == FALSE

\* args.Term < rf.currentTerm: the arguments are of an old term.
isStale(s, args) == args.Term < currentTerm[s]

isMajority(n) == 2 * n > Cardinality(Server)

\* Mutant: the vote is not encoded.
persistWithoutVote(s) ==
  persisted' = [persisted EXCEPT ![s].currentTerm = currentTerm'[s], ![s].logs = logs'[s]]

\* Mutant: the term is not encoded.
persistWithoutTerm(s) ==
  persisted' = [persisted EXCEPT ![s].votedFor = votedFor'[s], ![s].logs = logs'[s]]

\* rf.persist(), at the end of the critical section.
persist(s) ==
  persisted' = [persisted EXCEPT ![s] = [currentTerm |-> currentTerm'[s],
                                         votedFor |-> votedFor'[s],
                                         logs |-> logs'[s]]]

\* A higher term makes the server a follower that has not voted.
newTerm(s, term) ==
  /\ currentTerm' = [currentTerm EXCEPT ![s] = term]
  /\ state' = [state EXCEPT ![s] = "FOLLOWER"]
  /\ votedFor' = [votedFor EXCEPT ![s] = NOBODY]

\* Make for every server: readPersist, and the rest is new.
InitFrom(saved) ==
  /\ persisted = saved
  /\ currentTerm = [s \in Server |-> saved[s].currentTerm]
  /\ votedFor = [s \in Server |-> saved[s].votedFor]
  /\ logs = [s \in Server |-> saved[s].logs]
  /\ commitIndex = [s \in Server |-> 0]
  /\ lastApplied = [s \in Server |-> 0]
  /\ nextIndex = [s \in Server |-> [i \in Server |-> 0]]
  /\ matchIndex = [s \in Server |-> [i \in Server |-> 0]]
  /\ state = [s \in Server |-> "FOLLOWER"]
  /\ voteCount = [s \in Server |-> 0]
  /\ chanCommit = [s \in Server |-> 0]
  /\ chanHeartBeat = [s \in Server |-> 0]
  /\ chanBeElected = [s \in Server |-> <<>>]
  /\ pc = [s \in Server |-> "switch"]
  /\ broadcasting = [s \in Server |-> 0]
  /\ ballots = [s \in Server |-> EmptyBag]
  /\ incarnation = [s \in Server |-> 0]
  /\ calls = EmptyBag
  /\ applied = [s \in Server |-> <<>>]
  /\ panicked = FALSE
  /\ overwritten = {}
  /\ misread = FALSE

\* With an empty Persister, the values of Make's literal stay.
Init ==
  /\ InitFrom([s \in Server |-> [currentTerm |-> 0, votedFor |-> NOBODY, logs |-> <<>>]])
  /\ votes = {}
  /\ elected = {}

----------------------------------------------------------------------------
(* The network: labrpc's Call and ProcessReq.                              *)

noReply == [Term |-> -1]

newCall(rpc, from, to, args) ==
  [rpc |-> rpc, from |-> from, incarnation |-> incarnation[from], to |-> to,
   args |-> args, reply |-> noReply]

\* Goroutines send these calls; some of them get on the network.
Call(C) ==
  \E sent \in SUBSET C :
    /\ Cardinality(sent) + BagCardinality(calls) <= MaxCalls
    /\ calls' = calls (+) SetToBag(sent)

IsRequest(c, rpc, s) == c.rpc = rpc /\ c.to = s /\ c.reply = noReply

\* Only the instance that made the call can get its reply.
IsReply(c, rpc, s) ==
  c.rpc = rpc /\ c.from = s /\ c.incarnation = incarnation[s] /\ c.reply # noReply

\* The handler ends; its reply is on its way to the caller, or lost.
Reply(c, reply) ==
  \/ calls' = calls (-) SetToBag({c})
  \/ /\ c.incarnation = incarnation[c.from]
     /\ calls' = (calls (-) SetToBag({c})) (+) SetToBag({[c EXCEPT !.reply = reply]})

\* The caller takes the reply.
Receive(c) == calls' = calls (-) SetToBag({c})

----------------------------------------------------------------------------
(* statesLoop.                                                             *)

\* switch rf.state, for the two states that do not wait there.
SwitchState(s) ==
  /\ ~panicked
  /\ pc[s] = "switch"
  /\ state[s] # "FOLLOWER"
  /\ pc' = [pc EXCEPT ![s] = IF state[s] = "LEADER" THEN "newHeartBeat" ELSE "newElection"]
  /\ UNCHANGED <<persistentVars, commitIndex, lastApplied, leaderVars, state, voteCount,
                 chanCommit, chanHeartBeat, chanBeElected, broadcasting, ballots,
                 incarnation, calls, applied, panicked, historyVars>>

\* A follower waits for its election timer ...
FollowerTimeout(s) ==
  /\ ~panicked
  /\ pc[s] = "switch"
  /\ state[s] = "FOLLOWER"
  /\ state' = [state EXCEPT ![s] = "CANDIDATE"]
  /\ UNCHANGED <<persistentVars, commitIndex, lastApplied, leaderVars, voteCount,
                 chanCommit, chanHeartBeat, chanBeElected, loopVars, incarnation, calls,
                 applied, panicked, historyVars>>

\* ... or for a token, which restarts the timer.
FollowerHeartBeat(s) ==
  /\ ~panicked
  /\ pc[s] = "switch"
  /\ state[s] = "FOLLOWER"
  /\ chanHeartBeat[s] > 0
  /\ chanHeartBeat' = [chanHeartBeat EXCEPT ![s] = @ - 1]
  /\ UNCHANGED <<persistentVars, commitIndex, lastApplied, leaderVars, state, voteCount,
                 chanCommit, chanBeElected, loopVars, incarnation, calls, applied, panicked,
                 historyVars>>

\* newElection up to its select.  rf.state may have changed since the switch.
newElection(s) ==
  /\ ~panicked
  /\ pc[s] = "newElection"
  /\ currentTerm[s] < MaxTerm
  /\ currentTerm' = [currentTerm EXCEPT ![s] = @ + 1]
  /\ votedFor' = [votedFor EXCEPT ![s] = s]
  /\ voteCount' = [voteCount EXCEPT ![s] = 1]
  /\ UNCHANGED logs
  /\ persist(s)
  /\ broadcasting' = [broadcasting EXCEPT ![s] = @ + 1]
  /\ pc' = [pc EXCEPT ![s] = "candidate"]
  /\ votes' = votes \cup {<<s, currentTerm[s] + 1, s>>}
  /\ UNCHANGED <<commitIndex, lastApplied, leaderVars, state, chanCommit, chanHeartBeat,
                 chanBeElected, ballots, incarnation, calls, applied, panicked, elected,
                 overwritten, misread>>

\* The three cases of the select of newElection.
CandidateTimeout(s) ==
  /\ ~panicked
  /\ pc[s] = "candidate"
  /\ pc' = [pc EXCEPT ![s] = "switch"]
  /\ UNCHANGED <<persistentVars, commitIndex, lastApplied, leaderVars, state, voteCount,
                 chanCommit, chanHeartBeat, chanBeElected, broadcasting, ballots,
                 incarnation, calls, applied, panicked, historyVars>>

CandidateHeartBeat(s) ==
  /\ ~panicked
  /\ pc[s] = "candidate"
  /\ chanHeartBeat[s] > 0
  /\ chanHeartBeat' = [chanHeartBeat EXCEPT ![s] = @ - 1]
  /\ state' = [state EXCEPT ![s] = "FOLLOWER"]
  /\ pc' = [pc EXCEPT ![s] = "switch"]
  /\ UNCHANGED <<persistentVars, commitIndex, lastApplied, leaderVars, voteCount,
                 chanCommit, chanBeElected, broadcasting, ballots, incarnation, calls,
                 applied, panicked, historyVars>>

\* The token says nothing of the term it was sent in, and nothing is checked.
comeToPower(s) ==
  /\ ~panicked
  /\ pc[s] = "candidate"
  /\ chanBeElected[s] # <<>>
  /\ chanBeElected' = [chanBeElected EXCEPT ![s] = Tail(@)]
  /\ state' = [state EXCEPT ![s] = "LEADER"]
  /\ nextIndex' = [nextIndex EXCEPT ![s] = [i \in Server |-> getLastIndex(logs[s]) + 1]]
  /\ matchIndex' = [matchIndex EXCEPT ![s] = [i \in Server |-> 0]]
  /\ pc' = [pc EXCEPT ![s] = "switch"]
  /\ elected' = elected \cup {[leader |-> s, term |-> currentTerm[s],
                               token |-> Head(chanBeElected[s])]}
  /\ UNCHANGED <<persistentVars, commitIndex, lastApplied, voteCount, chanCommit,
                 chanHeartBeat, broadcasting, ballots, incarnation, calls, applied,
                 panicked, votes, overwritten, misread>>

----------------------------------------------------------------------------
(* Elections.                                                              *)

AskForVotes(s, args) == Call({newCall("RequestVote", s, i, args) : i \in Server \ {s}})

\* The goroutine reads the term when it runs, not when it was started.  If
\* the server is a candidate, the calls are made now: a call that is made
\* later is one that takes longer.
broadcastRequestVote(s) ==
  /\ ~panicked
  /\ broadcasting[s] > 0
  /\ broadcasting' = [broadcasting EXCEPT ![s] = @ - 1]
  /\ LET args == [Term |-> currentTerm[s], LastLogTerm |-> getLastTerm(logs[s]),
                  LastLogIndex |-> getLastIndex(logs[s])]
     IN  IF state[s] = "CANDIDATE"
           THEN AskForVotes(s, args) /\ UNCHANGED ballots
           ELSE ballots' = [ballots EXCEPT ![s] = @ (+) SetToBag({args})] /\ UNCHANGED calls
  /\ UNCHANGED <<persistentVars, commitIndex, lastApplied, leaderVars, state, voteCount,
                 chanCommit, chanHeartBeat, chanBeElected, pc, incarnation, applied,
                 panicked, historyVars>>

\* isCandidate is called without the mutex, later: if the server has become
\* a candidate by then, the arguments are old.
lateRequestVote(s) ==
  /\ ~panicked
  /\ state[s] = "CANDIDATE"
  /\ \E args \in BagToSet(ballots[s]) :
       /\ ballots' = [ballots EXCEPT ![s] = @ (-) SetToBag({args})]
       /\ AskForVotes(s, args)
  /\ UNCHANGED <<persistentVars, commitIndex, lastApplied, leaderVars, state, voteCount,
                 chanCommit, chanHeartBeat, chanBeElected, pc, broadcasting, incarnation,
                 applied, panicked, historyVars>>

isUpToDate(args, term, index) ==
  \/ args.LastLogTerm > term
  \/ args.LastLogTerm = term /\ args.LastLogIndex >= index

\* Mutant: an earlier vote is forgotten.
isValidArgsAnyVote(vote, log, candidate, args) ==
  isUpToDate(args, getLastTerm(log), getLastIndex(log))

isValidArgs(vote, log, candidate, args) ==
  /\ vote = NOBODY \/ vote = candidate
  /\ isUpToDate(args, getLastTerm(log), getLastIndex(log))

\* RequestVote: old arguments.
RejectVote(s, c) ==
  /\ ~panicked
  /\ IsRequest(c, "RequestVote", s)
  /\ isStale(s, c.args)
  /\ Reply(c, [Term |-> currentTerm[s], VoteGranted |-> FALSE])
  /\ UNCHANGED <<persistentVars, commitIndex, lastApplied, leaderVars, state, voteCount,
                 chanCommit, chanHeartBeat, chanBeElected, loopVars, incarnation, applied,
                 panicked, historyVars>>

\* RequestVote: the rest of the handler.
RequestVote(s, c) ==
  LET newer == c.args.Term > currentTerm[s]
      vote == IF newer THEN NOBODY ELSE votedFor[s]
      granted == isValidArgs(vote, logs[s], c.from, c.args)
  IN
  /\ ~panicked
  /\ IsRequest(c, "RequestVote", s)
  /\ ~isStale(s, c.args)
  /\ granted => chanHeartBeat[s] < Cap
  /\ currentTerm' = [currentTerm EXCEPT ![s] = IF newer THEN c.args.Term ELSE @]
  /\ state' = [state EXCEPT ![s] = IF newer THEN "FOLLOWER" ELSE @]
  /\ votedFor' = [votedFor EXCEPT ![s] = IF granted THEN c.from ELSE vote]
  /\ chanHeartBeat' = [chanHeartBeat EXCEPT ![s] = IF granted THEN @ + 1 ELSE @]
  /\ UNCHANGED logs
  /\ persist(s)
  /\ Reply(c, [Term |-> currentTerm'[s], VoteGranted |-> granted])
  /\ votes' = IF granted THEN votes \cup {<<s, c.args.Term, c.from>>} ELSE votes
  /\ UNCHANGED <<commitIndex, lastApplied, leaderVars, voteCount, chanCommit, chanBeElected,
                 loopVars, incarnation, applied, panicked, elected, overwritten, misread>>

\* The rest of sendRequestVoteAndDealReply and of
\* sendAppendEntriesAndDealReply when the reply has a higher term.
StepDown(s, c) ==
  /\ ~panicked
  /\ \E rpc \in {"RequestVote", "AppendEntries"} : IsReply(c, rpc, s)
  /\ c.reply.Term > currentTerm[s]
  /\ newTerm(s, c.reply.Term)
  /\ UNCHANGED logs
  /\ persist(s)
  /\ Receive(c)
  /\ UNCHANGED <<commitIndex, lastApplied, leaderVars, voteCount, chanCommit, chanHeartBeat,
                 chanBeElected, loopVars, incarnation, applied, panicked, historyVars>>

\* Mutant: a late vote counts in a later term.
CountsLate(s, c) == c.reply.VoteGranted

\* A vote counts in the term it was asked for.
Counts(s, c) == currentTerm[s] = c.args.Term /\ c.reply.VoteGranted

DealVoteReply(s, c) ==
  /\ ~panicked
  /\ IsReply(c, "RequestVote", s)
  /\ c.reply.Term <= currentTerm[s]
  /\ LET count == IF Counts(s, c) THEN voteCount[s] + 1 ELSE voteCount[s]
         win == Counts(s, c) /\ isMajority(count) /\ state[s] = "CANDIDATE"
     IN  /\ win => Len(chanBeElected[s]) < Cap
         /\ voteCount' = [voteCount EXCEPT ![s] = count]
         /\ chanBeElected' = [chanBeElected EXCEPT
                                 ![s] = IF win THEN Append(@, currentTerm[s]) ELSE @]
  /\ Receive(c)
  /\ UNCHANGED <<persistentVars, commitIndex, lastApplied, leaderVars, state, chanCommit,
                 chanHeartBeat, loopVars, incarnation, applied, panicked, historyVars>>

----------------------------------------------------------------------------
(* Replication.                                                            *)

\* The requests of s whose arguments may not be encoded yet.  Until Call has
\* done so, without the mutex, their Entries lie in the array of rf.logs.
unencoded(s) ==
  {c \in BagToSet(calls) : /\ c.rpc = "AppendEntries" /\ c.from = s /\ c.reply = noReply
                            /\ c.incarnation = incarnation[s]}

\* s writes the entries of its new log from index first on in place: into the
\* array in which these arguments have theirs.
overwriteFrom(s, first) ==
  overwritten' = overwritten \cup
    UNION {{[from |-> s, incarnation |-> incarnation[s], args |-> c.args,
             index |-> i, entry |-> logs'[s][i]] :
              i \in {j \in first .. Len(logs'[s]) :
                       /\ j - c.args.PrevLogIndex \in DOMAIN c.args.Entries
                       /\ c.args.Entries[j - c.args.PrevLogIndex] # logs'[s][j]}} :
           c \in unencoded(s)}

\* Start, called by a client; the command is identified by the server it
\* was given to.
Start(s) ==
  /\ ~panicked
  /\ state[s] = "LEADER"
  /\ Len(logs[s]) < MaxLog
  /\ logs' = [logs EXCEPT ![s] = Append(@, [LogTerm |-> currentTerm[s], Command |-> s])]
  /\ overwriteFrom(s, Len(logs'[s]))
  /\ UNCHANGED <<currentTerm, votedFor>>
  /\ persist(s)
  /\ UNCHANGED <<commitIndex, lastApplied, leaderVars, state, voteCount, chanCommit,
                 chanHeartBeat, chanBeElected, loopVars, incarnation, calls, applied,
                 panicked, votes, elected, misread>>

\* The count of broadcastAppendEntries for one index.
replicas(s, idx) ==
  1 + Cardinality({id \in Server \ {s} : /\ matchIndex[s][id] >= idx
                                         /\ logs[s][idx].LogTerm = currentTerm[s]})

newCommitIndex(s) ==
  Max({0} \cup {idx \in commitIndex[s] + 1 .. getLastIndex(logs[s]) : isMajority(replicas(s, idx))})

\* Mutant: the term of the last entry goes for that of the previous one.
newAppendEntriesArgsLastTerm(s, id, commit) ==
  LET prevLogIndex == nextIndex[s][id] - 1
  IN  [Term |-> currentTerm[s], PrevLogIndex |-> prevLogIndex,
       PrevLogTerm |-> getLastTerm(logs[s]), LeaderCommit |-> commit,
       Entries |-> SubSeq(logs[s], prevLogIndex + 1, Len(logs[s]))]

newAppendEntriesArgs(s, id, commit) ==
  LET prevLogIndex == nextIndex[s][id] - 1
  IN  [Term |-> currentTerm[s], PrevLogIndex |-> prevLogIndex,
       PrevLogTerm |-> LogTerm(logs[s], prevLogIndex), LeaderCommit |-> commit,
       Entries |-> SubSeq(logs[s], prevLogIndex + 1, Len(logs[s]))]

\* newHeartBeat: rf.state may have changed since the switch, but the commit
\* index is computed all the same.
broadcastAppendEntries(s) ==
  LET new == newCommitIndex(s)
      advance == new > commitIndex[s]
      commit == IF advance THEN new ELSE commitIndex[s]
      outOfRange == \E id \in Server \ {s} : nextIndex[s][id] - 1 > getLastIndex(logs[s])
  IN
  /\ ~panicked
  /\ pc[s] = "newHeartBeat"
  /\ advance => chanCommit[s] < Cap
  /\ commitIndex' = [commitIndex EXCEPT ![s] = commit]
  /\ chanCommit' = [chanCommit EXCEPT ![s] = IF advance THEN @ + 1 ELSE @]
  /\ panicked' = (state[s] = "LEADER" /\ outOfRange)
  /\ IF state[s] = "LEADER" /\ ~outOfRange
       THEN Call({newCall("AppendEntries", s, id, newAppendEntriesArgs(s, id, commit))
                    : id \in Server \ {s}})
       ELSE UNCHANGED calls
  /\ pc' = [pc EXCEPT ![s] = "switch"]
  /\ UNCHANGED <<persistentVars, lastApplied, leaderVars, state, voteCount, chanHeartBeat,
                 chanBeElected, broadcasting, ballots, incarnation, applied, historyVars>>

\* AppendEntries: old arguments.
RejectEntries(s, c) ==
  /\ ~panicked
  /\ IsRequest(c, "AppendEntries", s)
  /\ isStale(s, c.args)
  /\ Reply(c, [Term |-> currentTerm[s], Success |-> FALSE, NextIndex |-> 0])
  /\ UNCHANGED <<persistentVars, commitIndex, lastApplied, leaderVars, state, voteCount,
                 chanCommit, chanHeartBeat, chanBeElected, loopVars, incarnation, applied,
                 panicked, historyVars>>

\* What AppendEntries does first with arguments that are not old.
AcceptTerm(s, c) ==
  /\ ~panicked
  /\ IsRequest(c, "AppendEntries", s)
  /\ ~isStale(s, c.args)
  /\ chanHeartBeat[s] < Cap
  /\ chanHeartBeat' = [chanHeartBeat EXCEPT ![s] = @ + 1]
  /\ IF c.args.Term > currentTerm[s]
       THEN newTerm(s, c.args.Term)
       ELSE UNCHANGED <<currentTerm, state, votedFor>>
  /\ UNCHANGED <<lastApplied, leaderVars, voteCount, chanBeElected, loopVars, incarnation,
                 applied, panicked, votes, elected>>

\* Mutant: the term of the previous entry is not compared.
MatchesLength(log, args) == args.PrevLogIndex <= getLastIndex(log)

\* The log has an entry of that term at PrevLogIndex.
Matches(log, args) ==
  /\ args.PrevLogIndex <= getLastIndex(log)
  /\ args.PrevLogIndex > 0 => LogTerm(log, args.PrevLogIndex) = args.PrevLogTerm

\* Mutant: the leader shall try the same again.
conflictIndexSame(log, prev) == prev + 1

\* Where the leader shall try next: after the log, or at the first entry of
\* the term that did not match.
conflictIndex(log, prev) ==
  IF prev > getLastIndex(log)
    THEN getLastIndex(log) + 1
    ELSE 1 + Max({i \in 0 .. prev - 1 : LogTerm(log, i) # LogTerm(log, prev)})

\* AppendEntries: the log does not match.
RefuseEntries(s, c) ==
  /\ AcceptTerm(s, c)
  /\ ~Matches(logs[s], c.args)
  /\ Reply(c, [Term |-> currentTerm'[s], Success |-> FALSE,
               NextIndex |-> conflictIndex(logs[s], c.args.PrevLogIndex)])
  /\ UNCHANGED <<logs, commitIndex, chanCommit, overwritten, misread>>
  /\ persist(s)

\* The log after a match: all that follows PrevLogIndex is replaced.
replaceFrom(log, prev, entries) == SubSeq(log, 1, prev) \o entries

\* What Call may have read at an index of the arguments of c: the entry they
\* were made with, or one written to its place since.  That is a data race:
\* each word may be the old one or a new one.
mayRead(c, k) ==
  LET E == {c.args.Entries[k]} \cup
           {w.entry : w \in {v \in overwritten : /\ v.from = c.from /\ v.args = c.args
                                                /\ v.incarnation = c.incarnation
                                                /\ v.index = c.args.PrevLogIndex + k}}
  IN  [LogTerm : {e.LogTerm : e \in E}, Command : {e.Command : e \in E}]

\* The entries that the request c may bring.
encoded(c) ==
  LET D == DOMAIN c.args.Entries
  IN  {entries \in [D -> UNION {mayRead(c, k) : k \in D}] : \A k \in D : entries[k] \in mayRead(c, k)}

\* Mutant: any other commit index of the leader is taken over.
advancesOrRecedes(args, commit) == args.LeaderCommit # commit

\* The leader's commit index is ahead.
advances(args, commit) == args.LeaderCommit > commit

\* AppendEntries: the entries are taken, the commit index advances.
TakeEntries(s, c, entries) ==
  LET log == replaceFrom(logs[s], c.args.PrevLogIndex, entries)
      advance == advances(c.args, commitIndex[s])
  IN
  /\ logs' = [logs EXCEPT ![s] = log]
  /\ overwriteFrom(s, c.args.PrevLogIndex + 1)
  /\ misread' = (misread \/ entries # c.args.Entries)
  /\ advance => chanCommit[s] < Cap
  /\ commitIndex' = [commitIndex EXCEPT
                       ![s] = IF advance THEN Min({c.args.LeaderCommit, getLastIndex(log)}) ELSE @]
  /\ chanCommit' = [chanCommit EXCEPT ![s] = IF advance THEN @ + 1 ELSE @]
  /\ Reply(c, [Term |-> currentTerm'[s], Success |-> TRUE, NextIndex |-> getLastIndex(log) + 1])
  /\ persist(s)

AppendEntries(s, c) ==
  /\ AcceptTerm(s, c)
  /\ Matches(logs[s], c.args)
  /\ \E entries \in encoded(c) : TakeEntries(s, c, entries)

\* Mutant: off by one.
lastArgsLogIndexPlusOne(args) == args.PrevLogIndex + 1 + Len(args.Entries)

\* LogIndex of the last entry sent.
lastArgsLogIndex(args) == args.PrevLogIndex + Len(args.Entries)

\* The rest of sendAppendEntriesAndDealReply.
DealAppendReply(s, c) ==
  /\ ~panicked
  /\ IsReply(c, "AppendEntries", s)
  /\ c.reply.Term <= currentTerm[s]
  /\ LET last == lastArgsLogIndex(c.args)
         next(n) == nextIndex' = [nextIndex EXCEPT ![s][c.to] = n]
     IN  IF currentTerm[s] # c.args.Term \/ (c.reply.Success /\ c.args.Entries = <<>>)
           THEN UNCHANGED leaderVars
           ELSE IF c.reply.Success
             THEN next(last + 1) /\ matchIndex' = [matchIndex EXCEPT ![s][c.to] = last]
             ELSE next(c.reply.NextIndex) /\ UNCHANGED matchIndex
  /\ Receive(c)
  /\ UNCHANGED <<persistentVars, commitIndex, lastApplied, state, voteCount, chanCommit,
                 chanHeartBeat, chanBeElected, loopVars, incarnation, applied, panicked,
                 historyVars>>

\* The tester's record after it got entries first .. last of a log.
deliver(record, log, first, last) ==
  [i \in 1 .. Max({Len(record), last}) |-> IF i \in first .. last THEN log[i] ELSE record[i]]

\* Mutant: a token is good for one entry.
appliesOne(s) == Min({lastApplied[s] + 1, commitIndex[s], getLastIndex(logs[s])})

\* How far applyLoop gets.
applies(s) == Min({commitIndex[s], getLastIndex(logs[s])})

\* applyLoop: one token, all entries up to the commit index; an entry that
\* the log does not have any more is out of range.
applyLoop(s) ==
  LET last == applies(s)
  IN
  /\ ~panicked
  /\ chanCommit[s] > 0
  /\ chanCommit' = [chanCommit EXCEPT ![s] = @ - 1]
  /\ lastApplied' = [lastApplied EXCEPT ![s] = Max({@, last})]
  /\ applied' = [applied EXCEPT ![s] = deliver(@, logs[s], lastApplied[s] + 1, last)]
  /\ panicked' = (commitIndex[s] > lastApplied[s] /\ commitIndex[s] > getLastIndex(logs[s]))
  /\ UNCHANGED <<persistentVars, commitIndex, leaderVars, state, voteCount, chanHeartBeat,
                 chanBeElected, loopVars, incarnation, calls, historyVars>>

----------------------------------------------------------------------------
\* crash1 and start1 of the tester, and Make: a new instance reads what the
\* old one persisted; replies to the old instance reach nobody.
Restart(s) ==
  /\ ~panicked
  /\ MapThenSumSet(LAMBDA t : incarnation[t], Server) < MaxRestart
  /\ incarnation' = [incarnation EXCEPT ![s] = @ + 1]
  /\ currentTerm' = [currentTerm EXCEPT ![s] = persisted[s].currentTerm]
  /\ votedFor' = [votedFor EXCEPT ![s] = persisted[s].votedFor]
  /\ logs' = [logs EXCEPT ![s] = persisted[s].logs]
  /\ commitIndex' = [commitIndex EXCEPT ![s] = 0]
  /\ lastApplied' = [lastApplied EXCEPT ![s] = 0]
  /\ nextIndex' = [nextIndex EXCEPT ![s] = [i \in Server |-> 0]]
  /\ matchIndex' = [matchIndex EXCEPT ![s] = [i \in Server |-> 0]]
  /\ state' = [state EXCEPT ![s] = "FOLLOWER"]
  /\ voteCount' = [voteCount EXCEPT ![s] = 0]
  /\ chanCommit' = [chanCommit EXCEPT ![s] = 0]
  /\ chanHeartBeat' = [chanHeartBeat EXCEPT ![s] = 0]
  /\ chanBeElected' = [chanBeElected EXCEPT ![s] = <<>>]
  /\ pc' = [pc EXCEPT ![s] = "switch"]
  /\ broadcasting' = [broadcasting EXCEPT ![s] = 0]
  /\ ballots' = [ballots EXCEPT ![s] = EmptyBag]
  /\ LET lost == {c \in BagToSet(calls) : c.from = s /\ c.reply # noReply}
     IN  calls' = [c \in BagToSet(calls) \ lost |-> calls[c]]
  /\ UNCHANGED <<persisted, applied, panicked, historyVars>>

----------------------------------------------------------------------------
StatesLoop(s) ==
  \/ SwitchState(s)
  \/ FollowerTimeout(s)
  \/ FollowerHeartBeat(s)
  \/ newElection(s)
  \/ CandidateTimeout(s)
  \/ CandidateHeartBeat(s)
  \/ comeToPower(s)
  \/ broadcastAppendEntries(s)

HandleCall(s, c) ==
  \/ RejectVote(s, c)
  \/ RequestVote(s, c)
  \/ RejectEntries(s, c)
  \/ RefuseEntries(s, c)
  \/ AppendEntries(s, c)

DealReply(s, c) ==
  \/ StepDown(s, c)
  \/ DealVoteReply(s, c)
  \/ DealAppendReply(s, c)

Next ==
  \E s \in Server :
    \/ StatesLoop(s)
    \/ broadcastRequestVote(s)
    \/ lateRequestVote(s)
    \/ Start(s)
    \/ applyLoop(s)
    \/ Restart(s)
    \/ \E c \in BagToSet(calls) : HandleCall(s, c) \/ DealReply(s, c)

Spec == Init /\ [][Next]_vars

\* No server calls a peer before its earlier call to it has returned.
InTurn ==
  \A s, id \in Server :
    MapThenSumSet(LAMBDA c : calls[c], {c \in BagToSet(calls) : c.from = s /\ c.to = id}) <= 1

\* A steady period: the heartbeats reach the followers before their election
\* timers fire, nobody crashes, and a call takes less time than passes between
\* two broadcasts.
SteadyNext ==
  /\ \E s \in Server :
       \/ SwitchState(s)
       \/ FollowerHeartBeat(s)
       \/ broadcastAppendEntries(s)
       \/ Start(s)
       \/ applyLoop(s)
       \/ \E c \in BagToSet(calls) : HandleCall(s, c) \/ DealReply(s, c)
  /\ InTurn'

\* A step that puts a call from s to id on the network, or a reply of s.
Sends(s, id) == \E c \in BagToSet(calls') \ BagToSet(calls) :
                  c.from = s /\ c.to = id /\ c.reply = noReply
Answers(s) == \E c \in BagToSet(calls') \ BagToSet(calls) : c.to = s /\ c.reply # noReply

\* The loops go on, and so does the goroutine of each call.  A call or a reply
\* may be lost, but not every time: labrpc drops one in ten, by chance.
SteadyFairness ==
  \A s \in Server :
    /\ WF_vars(SwitchState(s) \/ FollowerHeartBeat(s) \/ broadcastAppendEntries(s))
    /\ WF_vars(applyLoop(s))
    /\ WF_vars(\E c \in BagToSet(calls) : HandleCall(s, c))
    /\ SF_vars((\E c \in BagToSet(calls) : HandleCall(s, c)) /\ Answers(s))
    /\ \A id \in Server \ {s} :
         /\ WF_vars(\E c \in BagToSet(calls) : c.to = id /\ DealReply(s, c))
         /\ SF_vars(broadcastAppendEntries(s) /\ Sends(s, id))

----------------------------------------------------------------------------
Log == {log \in Seq(Entry) : Len(log) <= MaxLog}
Saved == [currentTerm : 0 .. MaxTerm, votedFor : Server \cup {NOBODY}, logs : Log]

AppendArgs == {args \in [Term : 1 .. MaxTerm, PrevLogIndex : 0 .. MaxLog, PrevLogTerm : 0 .. MaxTerm,
                         LeaderCommit : 0 .. MaxLog, Entries : Seq(Entry)] :
                 args.PrevLogIndex + Len(args.Entries) <= MaxLog}
VoteArgs == [Term : 1 .. MaxTerm, LastLogTerm : 0 .. MaxTerm, LastLogIndex : 0 .. MaxLog]
AppendReply == [Term : 0 .. MaxTerm, Success : BOOLEAN, NextIndex : 0 .. MaxLog + 1]
VoteReply == [Term : 0 .. MaxTerm, VoteGranted : BOOLEAN]

AppendCall == [rpc : {"AppendEntries"}, from : Server, incarnation : Nat, to : Server,
               args : AppendArgs, reply : AppendReply \cup {noReply}]
VoteCall == [rpc : {"RequestVote"}, from : Server, incarnation : Nat, to : Server,
             args : VoteArgs, reply : VoteReply \cup {noReply}]

Overwriting == [from : Server, incarnation : Nat, args : AppendArgs, index : 1 .. MaxLog, entry : Entry]

\* Types of the variables: the indices and terms in logs, calls and leaders'
\* tables stay within what clients and elections produced.
TypeOK ==
  /\ currentTerm \in [Server -> 0 .. MaxTerm]
  /\ votedFor \in [Server -> Server \cup {NOBODY}]
  /\ logs \in [Server -> Log]
  /\ persisted \in [Server -> Saved]
  /\ commitIndex \in [Server -> 0 .. MaxLog]
  /\ lastApplied \in [Server -> 0 .. MaxLog]
  /\ nextIndex \in [Server -> [Server -> 0 .. MaxLog + 1]]
  /\ matchIndex \in [Server -> [Server -> 0 .. MaxLog]]
  /\ state \in [Server -> {"LEADER", "CANDIDATE", "FOLLOWER"}]
  /\ voteCount \in [Server -> Nat]
  /\ chanCommit \in [Server -> 0 .. Cap]
  /\ chanHeartBeat \in [Server -> 0 .. Cap]
  /\ chanBeElected \in [Server -> Seq(1 .. MaxTerm)]
  /\ pc \in [Server -> {"switch", "newElection", "candidate", "newHeartBeat"}]
  /\ broadcasting \in [Server -> Nat]
  /\ DOMAIN ballots = Server
  /\ \A s \in Server : BagToSet(ballots[s]) \subseteq VoteArgs
  /\ incarnation \in [Server -> Nat]
  /\ BagToSet(calls) \subseteq AppendCall \cup VoteCall
  /\ applied \in [Server -> Seq(Entry)]
  /\ panicked \in BOOLEAN
  /\ votes \subseteq Server \X (1 .. MaxTerm) \X Server
  /\ elected \subseteq [leader : Server, term : 1 .. MaxTerm, token : 1 .. MaxTerm]
  /\ overwritten \subseteq Overwriting
  /\ misread \in BOOLEAN

\* The comment at currentTerm, votedFor and logs: once changed, persisted.
\* What a crash would leave is what the server has, whenever the mutex is
\* free.
PersistedIsCurrent ==
  \A s \in Server : persisted[s] = [currentTerm |-> currentTerm[s], votedFor |-> votedFor[s],
                                    logs |-> logs[s]]

\* A server votes for one candidate in a term, also when it crashed and
\* restarted in between.
OneVotePerTerm ==
  \A v, w \in votes : v[1] = w[1] /\ v[2] = w[2] => v[3] = w[3]

\* A server never goes back to an earlier term, crashes included.
TermMonotonic == [][\A s \in Server : currentTerm[s] <= currentTerm'[s]]_vars

\* comeToPower was caused by votes of the term the server then had.
Timely(e) == e.token = e.term

\* Two servers that came to power in one term, each by votes of that term,
\* are the same server.
TimelyElectionSafety ==
  \A e, f \in elected : Timely(e) /\ Timely(f) /\ e.term = f.term => e.leader = f.leader

\* The comment in TestReElection2A: without a quorum no leader is elected.
\* A server that came to power by votes of its term has the votes of a
\* majority in that term.
ElectedByMajority ==
  \A e \in elected :
    Timely(e) => isMajority(Cardinality({v[1] : v \in {w \in votes : w[2] = e.term /\ w[3] = e.leader}}))

\* No term had two leaders so far.
SingleLeaders == \A e, f \in elected : e.term = f.term => e.leader = f.leader

\* As long as no term had two leaders and no server took entries that were
\* overwritten on their way, logs that agree on the term of an entry agree on
\* everything up to it, whatever was truncated.
LogMatching ==
  SingleLeaders /\ ~misread =>
    \A s, t \in Server : \A i \in 1 .. Min({Len(logs[s]), Len(logs[t])}) :
      LogTerm(logs[s], i) = LogTerm(logs[t], i) => SubSeq(logs[s], 1, i) = SubSeq(logs[t], 1, i)

\* The slice in newAppendEntriesArgs shares the array of rf.logs with handlers
\* that truncate and append: as long as no term had two leaders, entries that
\* are on their way are overwritten only when their sender has left the term
\* they were sent in.
OnlyOldOverwritten ==
  SingleLeaders => \A w \in overwritten : w.args.Term < currentTerm[w.from]

\* As long as no term had two leaders, the index newAppendEntriesArgs reads
\* is in the leader's log, after any sequence of late and reordered replies.
NextIndexInRange ==
  SingleLeaders =>
    \A s, id \in Server : state[s] = "LEADER" => nextIndex[s][id] \in 1 .. getLastIndex(logs[s]) + 1

\* As long as no term had two leaders, a leader only appends to its log.
LeaderAppendOnly ==
  [][SingleLeaders' =>
       \A s \in Server : state[s] = "LEADER" /\ state'[s] = "LEADER" =>
         /\ Len(logs'[s]) >= Len(logs[s])
         /\ SubSeq(logs'[s], 1, Len(logs[s])) = logs[s]]_vars

\* The comment at commitIndex and lastApplied: they increase monotonically (a
\* new instance starts from 0).  That is so but for one case: a log from which
\* late arguments took committed entries is shorter than commitIndex, and
\* AppendEntries then takes over the end of the log.
CommitMonotonic ==
  [][\A s \in Server : incarnation'[s] = incarnation[s] =>
       /\ lastApplied[s] <= lastApplied'[s]
       /\ commitIndex[s] <= commitIndex'[s] \/ commitIndex'[s] = Len(logs'[s])]_vars

\* No wake-up is lost: while entries are committed and not applied, applyLoop
\* has a token to take.
NoLostCommit ==
  \A s \in Server : commitIndex[s] > lastApplied[s] => chanCommit[s] > 0 \/ panicked

\* Handlers send to chanHeartBeat with the mutex held, and nobody receives
\* from it at a leader: if the channel filled up there, the server would
\* block for ever.  As long as no term had two leaders, a server that leads
\* by votes of its term gets no token until it is deposed.
LeaderGetsNoToken ==
  [][SingleLeaders' =>
       \A s \in Server :
         /\ state[s] = "LEADER" /\ state'[s] = "LEADER" /\ currentTerm'[s] = currentTerm[s]
         /\ [leader |-> s, term |-> currentTerm[s], token |-> currentTerm[s]] \in elected
         => chanHeartBeat'[s] <= chanHeartBeat[s]]_vars

\* An entry that a leader took in its term and that s did not apply yet.
Unapplied(s) ==
  \E l \in Server : \E i \in DOMAIN logs[l] :
    /\ state[l] = "LEADER"
    /\ LogTerm(logs[l], i) = currentTerm[l]
    /\ i \in DOMAIN applied[s] => applied[s][i] # logs[l][i]

\* In a steady period in which no two calls of a server to the same peer
\* overlap, a leader brings every log into agreement with its own, however it
\* diverged and whichever calls are lost: what the leader took from a client in
\* its term is applied by every server.  Nothing in broadcastAppendEntries
\* makes it wait for an earlier call, and without the condition this fails: a
\* late heartbeat takes a committed entry away, and applyLoop panics.
EntriesApplied == []InTurn => \A s \in Server : []<>(~Unapplied(s))

\* checkOneLeader of the tester: no term has more than one leader.
ElectionSafety ==
  \A s, t \in Server :
    state[s] = "LEADER" /\ state[t] = "LEADER" /\ currentTerm[s] = currentTerm[t] => s = t

\* The tester at the channels applyCh: what two servers apply at an index is
\* the same command.
StateMachineSafety ==
  \A s, t \in Server : \A i \in DOMAIN applied[s] \cap DOMAIN applied[t] :
    applied[s][i].Command = applied[t][i].Command
=============================================================================
