-------------------------------- MODULE MCRaft --------------------------------
(***************************************************************************)
(* Instances of Raft for TLC.                                              *)
(***************************************************************************)
EXTENDS RaftInv

\* Servers differ in nothing but their names.
Symmetry == Permutations(Server)

\* A state in which some servers lead, the loops of all servers are about to
\* begin a round, and nothing was committed in this instance of the cluster.
\* next[s] and match[s] are the tables of a leader s.
LedFrom(leaders, saved, next, match, inFlight) ==
  /\ persisted = saved
  /\ currentTerm = [s \in Server |-> saved[s].currentTerm]
  /\ votedFor = [s \in Server |-> saved[s].votedFor]
  /\ logs = [s \in Server |-> saved[s].logs]
  /\ commitIndex = [s \in Server |-> 0]
  /\ lastApplied = [s \in Server |-> 0]
  /\ nextIndex = [s \in Server |-> IF s \in leaders THEN next[s] ELSE [i \in Server |-> 0]]
  /\ matchIndex = [s \in Server |-> IF s \in leaders THEN match[s] ELSE [i \in Server |-> 0]]
  /\ state = [s \in Server |-> IF s \in leaders THEN "LEADER" ELSE "FOLLOWER"]
  /\ voteCount = [s \in Server |-> IF s \in leaders THEN 2 ELSE 0]
  /\ chanCommit = [s \in Server |-> 0]
  /\ chanHeartBeat = [s \in Server |-> 0]
  /\ chanBeElected = [s \in Server |-> <<>>]
  /\ pc = [s \in Server |-> "switch"]
  /\ broadcasting = [s \in Server |-> 0]
  /\ ballots = [s \in Server |-> EmptyBag]
  /\ incarnation = [s \in Server |-> 0]
  /\ calls = SetToBag(inFlight)
  /\ applied = [s \in Server |-> <<>>]
  /\ panicked = FALSE
  /\ overwritten = {}
  /\ misread = FALSE

\* The arguments of AppendEntries that a leader of a term made when it knew
\* nothing of a peer's log, on their way.
appendAll(term, from, to, entries) ==
  [rpc |-> "AppendEntries", from |-> from, incarnation |-> 0, to |-> to,
   args |-> [Term |-> term, PrevLogIndex |-> 0, PrevLogTerm |-> 0, LeaderCommit |-> 0,
             Entries |-> entries],
   reply |-> noReply]

\* a led term 1, b leads term 2 and a leads term 3, each with the vote of c; b
\* has not heard of term 3.  Each took entries from clients that it could not
\* replicate; those of b are on their way to c.
DivergedInit ==
  \E a, b, c \in Server :
    LET entry(term, s) == [LogTerm |-> term, Command |-> s]
        saved == a :> [currentTerm |-> 3, votedFor |-> a, logs |-> <<entry(1, a), entry(3, a)>>]
              @@ b :> [currentTerm |-> 2, votedFor |-> b, logs |-> <<entry(2, b), entry(2, b)>>]
              @@ c :> [currentTerm |-> 3, votedFor |-> a, logs |-> <<>>]
        next == a :> [i \in Server |-> 2] @@ b :> [i \in Server |-> 1]
        match == [s \in {a, b} |-> [i \in Server |-> 0]]
    IN
    /\ a # b /\ b # c /\ a # c
    /\ LedFrom({a, b}, saved, next, match, {appendAll(2, b, c, saved[b].logs)})
    /\ votes = {<<a, 1, a>>, <<c, 1, a>>, <<b, 2, b>>, <<c, 2, b>>, <<a, 3, a>>, <<c, 3, a>>}
    /\ elected = {[leader |-> a, term |-> 1, token |-> 1], [leader |-> b, term |-> 2, token |-> 2],
                  [leader |-> a, term |-> 3, token |-> 3]}

DivergedSpec == DivergedInit /\ [][Next]_vars

\* a leads term 1 with the vote of b.  Its first heartbeat to b is still on
\* its way; a later one brought b the entry of a client, and a has the reply.
\* c heard of none of this.
LateHeartBeatInit ==
  \E a, b, c \in Server :
    LET log == <<[LogTerm |-> 1, Command |-> a]>>
        saved == a :> [currentTerm |-> 1, votedFor |-> a, logs |-> log]
              @@ b :> [currentTerm |-> 1, votedFor |-> a, logs |-> log]
              @@ c :> [currentTerm |-> 0, votedFor |-> NOBODY, logs |-> <<>>]
    IN
    /\ a # b /\ b # c /\ a # c
    /\ LedFrom({a}, saved, a :> (a :> 1 @@ b :> 2 @@ c :> 1), a :> (a :> 0 @@ b :> 1 @@ c :> 0),
               {appendAll(1, a, b, <<>>)})
    /\ votes = {<<a, 1, a>>, <<b, 1, a>>}
    /\ elected = {[leader |-> a, term |-> 1, token |-> 1]}

LateHeartBeatSpec == LateHeartBeatInit /\ [][Next]_vars

\* b, which led term 2, has come to power again, in term 3, with the vote of
\* c.  a has two entries of term 1, b has one of term 2, and c has none.
SteadyInit ==
  \E a, b, c \in Server :
    LET entry(term, s) == [LogTerm |-> term, Command |-> s]
        saved == a :> [currentTerm |-> 2, votedFor |-> NOBODY, logs |-> <<entry(1, a), entry(1, a)>>]
              @@ b :> [currentTerm |-> 3, votedFor |-> b, logs |-> <<entry(2, b)>>]
              @@ c :> [currentTerm |-> 3, votedFor |-> b, logs |-> <<>>]
    IN
    /\ <<a, b, c>> = CHOOSE order \in Server \X Server \X Server :
                         Cardinality({order[1], order[2], order[3]}) = 3
    /\ LedFrom({b}, saved, b :> [i \in Server |-> 2], b :> [i \in Server |-> 0], {})
    /\ votes = {<<a, 1, a>>, <<c, 1, a>>, <<b, 2, b>>, <<c, 2, b>>, <<b, 3, b>>, <<c, 3, b>>}
    /\ elected = {[leader |-> a, term |-> 1, token |-> 1], [leader |-> b, term |-> 2, token |-> 2],
                  [leader |-> b, term |-> 3, token |-> 3]}

SteadySpec == SteadyInit /\ [][SteadyNext]_vars /\ SteadyFairness
=============================================================================
