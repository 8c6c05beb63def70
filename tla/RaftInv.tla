-------------------------------- MODULE RaftInv --------------------------------
(***************************************************************************)
(* The inductive invariant behind the theorems about Raft.  Each part      *)
(* is kept by every step of Raft, given the parts before it.               *)
(***************************************************************************)
EXTENDS Raft

\* What the types leave open: a server that leads or asks for votes is in a
\* term, a leader's nextIndex is positive, what was applied was delivered.
Started ==
  \A s \in Server :
    /\ state[s] = "LEADER" => /\ currentTerm[s] > 0
                              /\ \A id \in Server : nextIndex[s][id] > 0
    /\ broadcasting[s] > 0 => currentTerm[s] > 0
    /\ pc[s] = "candidate" => currentTerm[s] > 0
    /\ lastApplied[s] <= Len(applied[s])

\* The peers that a call connects are two servers.  Where AppendEntries told
\* a leader of the term to try next, there is an entry the leader has sent.
IsAppend(c) == c.rpc = "AppendEntries"
WellFormed(c) ==
  /\ c.from # c.to
  /\ IsAppend(c) =>
       /\ c.args.PrevLogIndex = 0 => c.args.PrevLogTerm = 0
       /\ c.reply # noReply /\ ~c.reply.Success /\ c.reply.Term <= c.args.Term
            => c.reply.NextIndex \in 1 .. c.args.PrevLogIndex
CallsTyped == \A c \in BagToSet(calls) : WellFormed(c)

\* A vote is not of a later term than the voter's, and in its term it is the
\* one the voter remembers.
VotesKept ==
  \A v \in votes :
    /\ v[2] <= currentTerm[v[1]]
    /\ v[2] = currentTerm[v[1]] => votedFor[v[1]] = v[3]

\* A granted vote is a vote.
GrantsAreVotes ==
  \A c \in BagToSet(calls) :
    ~IsAppend(c) /\ c.reply # noReply /\ c.reply.VoteGranted =>
      <<c.to, c.args.Term, c.from>> \in votes

\* s has its own vote in a term and that of another server.
TwoVotes(s, term) ==
  /\ <<s, term, s>> \in votes
  /\ \E v \in Server \ {s} : <<v, term, s>> \in votes

\* The terms of the tokens in chanBeElected.
Tokens(s) == {chanBeElected[s][k] : k \in DOMAIN chanBeElected[s]}

\* A candidate whose loop waits for the outcome has voted for itself.  A
\* token of the current term that it may take was sent with two votes, and
\* who came to power with such a token had them.
Candidates ==
  /\ \A s \in Server : pc[s] = "candidate" /\ state[s] = "CANDIDATE" =>
       <<s, currentTerm[s], s>> \in votes
  /\ \A s \in Server : \A term \in Tokens(s) :
       /\ term <= currentTerm[s]
       /\ term = currentTerm[s] /\ pc[s] = "candidate" => TwoVotes(s, term)
  /\ \A e \in elected : Timely(e) => TwoVotes(e.leader, e.term)

\* s came to power in a term.
Led(s, term) == \E e \in elected : e.leader = s /\ e.term = term

\* A leader came to power in its term and is in no election; a server whose
\* loop waits for the outcome of one did not lead its term before.
Leaders ==
  /\ \A e \in elected : e.term <= currentTerm[e.leader]
  /\ \A s \in Server : state[s] = "LEADER" =>
       pc[s] \in {"switch", "newHeartBeat"} /\ Led(s, currentTerm[s])
  /\ \A s \in Server : pc[s] = "candidate" => ~Led(s, currentTerm[s])
  /\ \A c \in BagToSet(calls) : IsAppend(c) => Led(c.from, c.args.Term)

\* An entry with its position and the term of the entry before it, as it is
\* in a log and as it travels in the arguments of AppendEntries.
Link(prev, prevTerm, entries, k) ==
  [index |-> prev + k, entry |-> entries[k],
   before |-> IF k = 1 THEN prevTerm ELSE entries[k - 1].LogTerm]
Links(prev, prevTerm, entries) == {Link(prev, prevTerm, entries, k) : k \in 1 .. Len(entries)}

LogLinks(s) == Links(0, 0, logs[s])
CallLinks(c) == Links(c.args.PrevLogIndex, c.args.PrevLogTerm, c.args.Entries)

AllLinks ==
  UNION ({LogLinks(s) : s \in Server} \cup {CallLinks(c) : c \in {d \in BagToSet(calls) : IsAppend(d)}})

\* As long as nobody took entries that were overwritten on their way: every
\* entry, in a log or on its way, is of a term that had a leader.
EntriesHaveLeaders == ~misread => \A l \in AllLinks : \E e \in elected : e.term = l.entry.LogTerm

\* If, moreover, no term had two leaders: the index and the term of an entry
\* determine the entry and the term of the one before, and a leader's log
\* has everything of its term that is in a log or on its way.
LinksUnique ==
  SingleLeaders /\ ~misread =>
    \A l, m \in AllLinks :
      l.index = m.index /\ l.entry.LogTerm = m.entry.LogTerm => l = m
LeaderHasAll ==
  SingleLeaders =>
    \A s \in Server : state[s] = "LEADER" =>
      /\ ~misread => \A l \in AllLinks : l.entry.LogTerm = currentTerm[s] => l.index <= Len(logs[s])
      /\ \A c \in BagToSet(calls) :
           IsAppend(c) /\ c.args.Term = currentTerm[s] =>
             c.args.PrevLogIndex + Len(c.args.Entries) <= Len(logs[s])

\* The inductive invariant: each part is kept by every step, given the parts
\* before it.
IInv ==
  /\ TypeOK
  /\ Started
  /\ CallsTyped
  /\ PersistedIsCurrent
  /\ VotesKept
  /\ GrantsAreVotes
  /\ Candidates
  /\ Leaders
  /\ EntriesHaveLeaders
  /\ LinksUnique
  /\ LeaderHasAll
  /\ OnlyOldOverwritten
=============================================================================
