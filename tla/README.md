# Formal models of Distributed-Algorithms

TLA+ models, TLC runs and TLAPS proofs for the two programs of this repository:
Lamport's mutual exclusion (`Mutual-Exclusion/code`) and Raft (`Raft/code`).
`PROJECT.json` lists the runs, the source lines behind every definition, the
hazards, the findings and the theorems.

## The system

### Mutual exclusion

| part | state | operations |
|---|---|---|
| process | clock, received times, request queue, `isOccupying`, `requestTimestamp`, wait group | `Listening` (a goroutine), `Request`, `checkRule5`, `releaseResource` (a goroutine per occupation) |
| timestamp, clock | a pair time/process; a counter | `Less`, `IsEqual`, `IsBefore`; `Tick`, `Update` |
| request queue, received time | heaps with an index | `Push`, `Remove`, `Min`; `Update`, `Min` |
| resource | current and last occupier, wait group | `Occupy`, `Release` (both panic on misuse), `wait` |
| driver `run` | loop counters | makes every process request n times |
| `observer.Property` (library) | the stream of messages | `Update`, `Observe`, `Next` |

The processes interact through one broadcast stream, which everybody reads in
the same order at its own pace, and through the resource.  What is hard: the
listener pushes into the queue without the mutex of the process, rule 5 is
decided from what a process has read so far and at the roots of two heaps whose
elements carry their own index, `receivedTime.Update` overwrites, `Remove` panics
on an absent request, and rule 5 is checked only when a message arrives.  Correct
means: nothing panics, the resource is occupied by one process at a time and in
the order of the timestamps, every request is granted.

### Raft

| part | state | operations |
|---|---|---|
| server | term, vote, log, commit index, last applied, next and match index, state, vote count, three channels | `Make`, `statesLoop`, `newElection`, `comeToPower`, `newHeartBeat`, `applyLoop`, `Start` |
| elections | | `broadcastRequestVote`, `RequestVote`, the reply's goroutine |
| replication | | `broadcastAppendEntries`, `AppendEntries`, the reply's goroutine |
| persistence | bytes in a `Persister` | `persist`, `readPersist` |
| `labrpc` | ends, servers, calls in flight | `Call`, `ProcessReq`, `dispatch`, `Enable`, `AddServer`, `DeleteServer`, `Reliable`, `Cleanup` |
| tester `config.go` | connected servers, end names, persisters, applied entries | `makeConfig`, `crash1`, `start1`, `connect`, `disconnect`, `setunreliable`, `cleanup`, the checks |

What is hard: `statesLoop` reads and writes `rf.state` without the mutex, the
channel tokens carry no term, a goroutine reads the term long after it was
started, calls and replies are reordered and lost, servers crash and restart.  A
call is three goroutines that look at the network's tables at different times while
the tester changes them one entry at a time, and a crashed instance keeps running.
Correct means: one vote per server and term, one leader per term, logs that
agree, indices that stay in range, entries that are applied once and in order, persisted state that is
never behind, entries that reach everybody; and of the network that a call is
executed at most once, returns, and reports success only for what was persisted.

## Modules

| module | what it is |
|---|---|
| `Timestamp` | timestamps and their total order |
| `OrderedLock` | what the program promises: a lock granted in timestamp order |
| `MutualExclusion` | processes, resource and driver; refines `OrderedLock` |
| `MutualExclusionInv` | the inductive invariant |
| `MutualExclusion_proofs` | the theorems |
| `MCMutualExclusion` | the view used by TLC |
| `AbstractQueues` | what rule 5 needs of a process's queues: a set of requests, a time per other process |
| `Heap` | the queues' methods and `container/heap` on elements that know their index |
| `Heap_proofs` | lemmas: recursive functions, one misplaced element, what each heap operation keeps |
| `ProcessQueues` | the request queue and the received times of one process, as heaps; refines `AbstractQueues` |
| `ProcessQueues_proofs` | the theorems |
| `Raft` | servers, calls in flight, persisters and the tester's crashes |
| `RaftInv` | the inductive invariant, in layers |
| `Raft_proofs` | theorems: types, persistence, terms, votes, commit and apply |
| `RaftElection_proofs` | theorems: grants, candidates, timely elections, leaders |
| `RaftLog_proofs` | theorems: logs, the leader's indices and channel |
| `MCRaft` | symmetry, and the start states of the runs that begin late |
| `RemoteCall` | what a caller may rely on: at most one execution, success only after it |
| `Network` | `labrpc`: tables, calls and their goroutines |
| `Tester` | `config.go` and the instances' calls on `Network`; refines `RemoteCall` |
| `TesterInv` | the inductive invariant: scripts, tables, calls |
| `Tester_proofs` | proofs: what the tester's commands do to the tables |
| `TesterCalls_proofs` | proofs: the calls meanwhile; the theorems and the refinement |

`Raft` does not extend `Network`: its calls are those of `RemoteCall` (executed at
most once, late or never; the reply late or lost), which `Tester` shows `labrpc` to
implement under everything the tester does.  In the same way `MutualExclusion` uses a
set and a function where the code has the heaps of `ProcessQueues`.  `AbstractQueues` stands
between the two: the heaps implement it (`ImplementsQueues`), as long as nobody pushes a second
request of a process, removes an absent one or sets a time back, and the processes do none of
this (`UsesQueues`).  Both are theorems.

### How `MutualExclusion` corresponds to the code

An action is one critical section of `p.mutex` (or one call that runs without
it).  `handleRequestMessage` is two actions, `PushRequest` and `Acknowledge`,
because it pushes before it locks.  `Receive` is one iteration of `Listening` up
to `updateTime`, together with the messages before it that the loop skips:
skipping one changes nothing but the reader's position.  `checkRule5` and
`occupyResource` are `CheckRule5`; the goroutine it starts is `ReleaseResource`,
enabled exactly while `isOccupying` holds.  `wg.Wait` and `wg.Add` are fused with
the critical section of `Request` and `wg.Done` with that of `releaseResource`:
nobody but the requester of the same process looks at the wait group.  The wait group of the
resource is different: the driver waits on it without any process's mutex, and `Release` counts
(`resource.go:68`) before `releaseResource` clears `requestTimestamp` (`process.go:169`), so
`rsc.wait()` may return while the last releaser is still at work.  `WaitReturnsLast` is stated so
that it is true in between as well.  The queue
is the set of its timestamps (a timestamp is pushed once, by a process, with its
own time), its `Min` the least element, `receivedTime.Min()` a quantifier over
the other processes.  A panic sets `panicked`, which disables everything.  The
sender's process and the time identify a `*timestamp`, so the pointer keys of
`requestOf` are the pairs.

### How `ProcessQueues` and `Heap` correspond to the code

A heap is the slice and the index fields of the elements.  `Swap`, `PushLast` and
`PopLast` are the methods of the two queues, which are the same but for the
element; `up`, `down`, `Push`, `Fix` and `RemoveAt` are `container/heap`, external
code that is modelled because the index fields are kept only through the calls
it makes.  The loops of `up` and `down` are the recursive functions `run`, of which `run[m]` is the
heap and the position after m iterations (`rise`, `sink`); an iteration that would leave the
loop changes nothing, so any number of iterations that is large enough gives the result.  `down`
returns its position, from which `settle` sees whether the element moved, as Go's `down` reports.
`requestOf` is the set of the map's keys, a process has one request at
a time, and times of a sender increase: both are what `MutualExclusion` shows
(`UsesQueues`).  Each method is one action, as its mutex
makes it.

### How `Network` and `Tester` correspond to the code

`call[c].stage` is where the caller and `ProcessReq` are: at the `select` of `Call`,
accepted, past `ReadEndnameInfo` (`process`), waiting for the handler, before the
second `IsServerDead` (`check`), with a reply to give (`true`, `false`), returned
(`ok`, `failed`).  `handler[c]` is the goroutine of the dispatcher.  `Process` lists
the steps; each is one critical section of `rn.mu` or one communication.  What
`ReadEndnameInfo` returned is kept in `call[c]` and not read again, as in the code.
`longDelays` and `longReordering` make steps later, which any step may be.

The tester is one goroutine.  A command fixes its operations from the tables at
its beginning, which only the tester changes, and `Operation` executes them one at
a time: `Enable` per end, `DeleteServer`, the copy of the persister, `Make` with the new
ends, `AddServer`.  The script of `makeConfig` is `startAll`, which has nothing to crash, and then
`connectAll`.  `saved[i]` holds the calls whose effect is in the persister that the next
instance of i will read; a handler of an instance that is not `attached` to it
writes to a persister nobody reads.  One assumption is about the tests and not in `config.go`:
`connect` is called only for a server that was started since its last `crash1`.  Every caller in
`test_test.go` does so, and `GhostsDoNotCall` needs it: after `crash1` alone the current end names are
still those of the crashed instance, and `connect` would enable them.  Instances are never stopped (`Kill` does
nothing), so `instanceCall` may be of any incarnation.

### How `Raft` corresponds to the code

An action is one critical section of `rf.mu`, or one access to `rf.state` outside
of it.

* `statesLoop`: `SwitchState` is the read of `rf.state`; the write
  `rf.state = CANDIDATE` is `FollowerTimeout`; between the read and the critical
  section of `newElection` or `broadcastAppendEntries` anything may happen.
  Receiving a token and what follows it are one step (`comeToPower`,
  `CandidateHeartBeat`): only this loop reads the channels, so a token received
  earlier is one received now.  Timers may fire at any time.
* `broadcastRequestVote` reads the term when it is scheduled.  The check of
  `isCandidate` comes later and without the mutex: a server that is a candidate at
  the read makes its calls at once (a later call is one that takes longer), the
  others keep the arguments and `lateRequestVote` uses them if the server becomes
  a candidate.
* A call is in flight until its handler ran and its reply was taken.  Every
  handler may lose its reply; a call nobody executes is a lost one.  `Call` sends
  any subset of a broadcast, so disconnected servers are covered.  The two
  reply goroutines share `StepDown`; the early returns of the handlers are actions
  of their own (`RejectVote`, `RejectEntries`, `RefuseEntries`).
* `Restart` is `crash1`, `start1` and `Make`.  A new instance has what was
  persisted; replies to the old one reach nobody, calls of the old one may still be
  executed.  What an old instance does after the crash reaches nobody either.
* `LogIndex` is the position in the log and `getBaseIndex` is 0: nothing in the
  code cuts a log at its front.  Entry 0 is implicit.
* `SteadyNext` is `Next` without the timers of followers and candidates, late vote
  requests and crashes, none of which happen while heartbeats arrive in time, and with `InTurn`:
  a server's calls to one peer do not overlap.  The code does not enforce that, it starts a
  call to every peer on every tick; it is so while a call takes less time than a tick.
* `newAppendEntriesArgs` takes a slice of `rf.logs`, and `Call` encodes it later without the
  mutex; `AppendEntries` cuts `rf.logs` and appends in place (lines 180-181).  `args.Entries` in
  the model is what the slice held when it was made, and `overwritten` collects what the sender
  has since written to the places of those entries (`overwriteFrom`, in `AppendEntries` and
  `Start`) while the request is in flight.  The handler takes one of the entries `Call` may have read
  (`encoded`): at each index the original or an overwritten one, term and command separately,
  since it is a data race on several words.  Two things are abstracted.  Whether `append`
  finds room in the old array depends on its capacity; the model lets every write be in place, which
  includes the one that is not, as the original may always be read.  And the moment of encoding is
  left open until the handler runs.  `LogIndex`, the third word, is the same for all of them.
  `misread` records that a server took entries other than the ones the arguments were made with.
* A command is named after the server that took it.  `votes`, `elected`, `misread` and the
  terms in `chanBeElected` are history: no action but the ones that write them
  reads them.
* An index out of range sets `panicked`.

Operators whose comment begins with "Mutant" are broken variants of the definition
that follows them: with one in its place, the property that `PROJECT.json` names is
violated.  No action uses them.

## Runs

| run | instance | shows |
|---|---|---|
| `mutex3` | 3 processes, 1 request, equal clocks | no panic, the first request occupies, the resource's record is right, `OrderedLock` is implemented, the queues are used as their heaps expect |
| `mutex_live` | 2 processes, 2 requests, clocks 1 or 3, fair | the inductive invariant, types, queue bound, `wait` returns last, received times never go back; every request is granted, the driver ends |
| `queues` | 6 processes, request times 1, received times to 2 | the inductive invariant; indices are positions; the roots decide rule 5; `AbstractQueues` is implemented |
| `raft_election` | 3 servers, 2 terms, 1 call | one timely winner per term, with the votes of a majority |
| `raft_log` | 2 servers, 2 terms, 1 entry, 2 calls, 1 crash | persisted state, one vote per term, terms; leaders only append, and get no heartbeat tokens |
| `raft_diverged` | 3 servers with diverged logs, 3 terms, 2 entries, 2 calls, one of them an old leader's | logs match; entries on their way are overwritten only after their term |
| `raft_reorder` | 2 servers, 1 term, 2 entries, 2 calls, 1 crash | the inductive invariant; indices; `applyLoop` misses no wake-up |
| `raft_steady` | 3 servers with diverged logs and a leader, 2 calls, one to a peer, fair | the leader's entries are applied everywhere; no deadlock |
| `network` | 2 servers, 1 call, 3 commands of the tester, fair | the inductive invariant; at most one execution, success is persisted, failure has a cause, calls return, old instances are cut off |
| `raft_two_leaders` | 2 servers, 2 terms, 2 calls | violated: two leaders in a term |
| `raft_double_vote` | 5 servers, 2 terms, 2 calls | violated: a leader without a majority |
| `raft_applied` | 3 servers, 2 terms, 1 entry, from a late heartbeat | violated: two commands at one index |

### Bounds

Mutual exclusion: three processes are the least with a third party between a
request and its competitor; equal clocks make ties, 1 and 3 make one clock jump;
two requests make a process use its queue again after others were granted.
With the view of `MCMutualExclusion`, states that differ only in messages
everybody has handled are one state: no action reads those messages, nor
`timestamps`.  `mutex_live`, whose invariant speaks of the whole stream, does
without the view.

Queues: six requests make a heap of three levels, the least in which the element
that takes a removed one's place may have to go up; the timestamps of requests
differ by process, and a timestamp that comes back stands for a later one.  Five
received times with values 0, 1 and 2 have ties and every order.

Network: one call meets everything the tester can do in three commands: a crash, a
start and a connect are enough for a server to come back under the same name with
another instance.  Calls share nothing but the tables, which they do not change, so a second
call adds no behaviour of the first one.  The run ends when the commands are used up, so it does
not check deadlock; `CallReturns` and `DispatcherEnds` say what must not block.

Raft: `MaxTerm` ends elections, `MaxLog` the commands of clients, `MaxCalls` the
calls in flight (a call above it is lost), `MaxRestart` the crashes, `Cap` the
tokens in a channel, of which the code's channels take 100: a step that needs more
tokens is not explored.  Two calls in flight are the least that can be reordered,
two terms the least in which a message is late for its term.  Conflicting
entries need three servers and three terms; `raft_diverged` begins in the third, which the code
reaches by the elections that the comment at `DivergedInit` names.  The leader of the second has not
heard of it, and its arguments to the third server are still in flight: when the new
leader's entries reach it, they overwrite what it is sending (1.2 million states).  The receiver refuses these
arguments, because it voted in the new term.  A receiver that takes them although no term had two leaders
must have missed two elections, which needs seven servers, or five with a vote counted twice: out of
TLC's reach.  With two leaders in a term `raft_log` reaches it (`misread`).
`raft_applied` and `raft_steady` begin after an election for the same reason, in
the states the comments at `LateHeartBeatInit` and `SteadyInit` describe.
In `raft_steady` only the leader calls, and under `InTurn` at most once to each of the two peers, so
two calls in flight bound nothing.  Without `InTurn` the property is false of the code: `labrpc` may
delay a heartbeat past the next one (`longReordering`, and any slow goroutine), the late heartbeat
truncates a committed entry as in `raft_applied`, `applyLoop` panics, and nothing is live.
`EntriesApplied` therefore names the condition.  The run
goes on for ever and checks deadlock; the other Raft runs end at the bounds and do not.

### Fairness

`FairSpec` asks that each goroutine of each process runs when it can: Go's
scheduler is fair to runnable goroutines and `sync.Mutex` does not starve
waiters.  That the releaser runs is the README's premise that occupation is
finite.

`Tester`'s `FairSpec` asks the same of the goroutines of `labrpc` and of the tester
inside a command.  Handlers get no fairness, since `labrpc` cannot rely on
them: `CallReturns` excludes exactly the call whose handler hangs in a server that
is alive.  Nothing forces the tester to give commands.

`SteadyFairness` asks that the loops, handlers and reply goroutines of every server run
(weak fairness, the replies of each peer on their own), and that a call to a peer that is sent again and again, and its
reply, are not lost every time (strong fairness): `labrpc` drops one in ten at random.
`SteadyNext` assumes that election timers do not fire, which is the timing Raft itself
presupposes for progress (heartbeats well below the election timeout); nothing is claimed
about how long an election takes, which depends on the random timers.

### Conditions in the Raft properties

Since the code can have two leaders in a term (`raft_two_leaders`), what Raft
builds on single leaders is stated under `SingleLeaders`: no term had two leaders
so far.  What it builds on the leader's entries arriving as they were sent also needs `~misread`: a
deposed leader's arguments may change in its array before they are encoded, and a server that takes
them has, under their old term, entries which no leader of that term had.  `OnlyOldOverwritten` says
how far this can go: never while the sender is still in the term of the arguments.
`TimelyElectionSafety` says how far the votes protect: two servers that
came to power on tokens of their own term are one.  The tokens' terms are
history, so the property separates the stale tokens, which the code does not,
from everything else an election can do wrong.  With three servers a vote counted
twice is harmless (the candidate and one voter are a majority); with four or
more it is not (`raft_double_vote`).  `LeaderGetsNoToken` is the reason why the channel
`chanHeartBeat`, which a leader does not drain, does not fill and block the
handlers with the mutex held: a legitimate leader is sent no valid heartbeat of its term.

## Findings

1. `raft_two_leaders`: a stale token in `chanBeElected` makes a second leader in a
   term, which the tester's `checkOneLeader` calls a failure (`config.go:318`).
2. `raft_double_vote`: two broadcasts of vote requests may both read the later term;
   the voter grants both and is counted twice (`raft-RequestVote.go:130`).  One of five
   servers comes to power with two voters, against `test_test.go:67`.
3. `raft_applied`: a late heartbeat of the same leader cuts off an entry that the
   leader goes on to commit (`raft-AppendEntries.go:180`); the follower then helps to elect
   a server without it, and two servers apply different commands at one index,
   which the tester calls an apply error (`config.go:181`).  On the way `commitIndex` may
   point beyond the log, where `applyLoop` panics.

Three smaller disagreements have no run.  `matchIndex` does not increase monotonically
(`raft-Raft.go:45`), since a late reply sets it to the end of its own arguments.
`commitIndex` does not either (`raft-Raft.go:36`): late arguments may cut a log below it, and
`AppendEntries` then sets it to the end of that log (`raft-AppendEntries.go:188`).
`CommitMonotonic` states what is left of the comment and is proved: `lastApplied` never goes
back, and `commitIndex` only to the end of the log.  The argument of line 110 of the mutual
exclusion README, that an occupier's request is the first in every queue, is stronger than
what the algorithm has: the request need not have reached the other queues.  What does hold,
and is proved, is `OccupierIsFirst`: it is the least of all open requests.

## Proofs

TLAPS checks every theorem below for all values of the constants; the runs check the same
definitions, and the four inductive invariants, on small instances (`mutex_live`, `queues`,
`raft_reorder`, `network`).

### Mutual exclusion

`MutualExclusion_proofs` proves, for every `N >= 2`, every number of requests and
every set of positive initial clocks (`NAssumption`, `TimesAssumption`,
`InitTimeAssumption`, and `NilAssumption`: nil is no timestamp):

| theorem | states |
|---|---|
| `InductiveInvariant` | `Spec => []IInv` |
| `TypeCorrect` | `Spec => []TypeOK` |
| `NeverPanics` | `Spec => []NoPanic` |
| `FirstComeFirstServed` | `Spec => []OccupierIsFirst` |
| `Agreement` | `Spec => []ResourceAgrees` |
| `QueueBounded` | `Spec => []OneRequestPerProcess` |
| `ReceivedTimesGrow` | `Spec => ReceivedTimeMonotonic` |
| `Refinement` | `Spec => ImplementsOrderedLock` |
| `WaitIsLast` | `Spec => []WaitReturnsLast` |
| `QueuesUsed` | `Spec => UsesQueues` |

`OccupierIsFirst` is not inductive: that a process which passes rule 5 is first
depends on what it has read.  `IInv` therefore describes the stream.  Times of one
sender grow (`TimesGrow`); a release follows its request, once, and a process
requests again only after it (`RequestsAndReleases`, `RequestsAlternate`,
`Outstanding`); what a listener has handled decides its queue (`Cursor`, `Queues`);
and a recorded time is behind everything of that sender not yet read
(`ReceivedTimes`).  The argument at rule 5: let p pass it and q have an open
request.  If p has handled q's request message, the request is in p's queue and p's
own, its minimum, is smaller.  If not, the message is unread, so its time is larger
than the recorded time of q, which rule 5.2 made larger than p's.  `LastIsPast`
carries the order over releases: clocks never fall behind the last occupation.
There is one lemma per action that it keeps `IInv`, and one per action that it maps
to a step of `OrderedLock` or changes nothing of it.

`WaitReturnsLast` needs a count: the resource's wait group is the number of occupations that
the driver will still ask for or that are not released (`Counted`).  A release takes one
element out of that finite set and decrements the group, so at zero the set is empty and the
release was the last.

`QueuesUsed` is the side of the processes in the contract with the heaps.  That a received time
only grows is `ReceivedTimes`; that no second request of a process is pushed and none removed
that is absent follows from where the listener stands in the stream (`Cursor`, `Queues`), since a
request and its release alternate there.

### The heaps

For any number of processes and any times (`QueuesAssumption`):

| theorem of `ProcessQueues_proofs` | states |
|---|---|
| `QueuesAreHeaps` | `Spec => []IInv` |
| `IndicesArePositions` | `Spec => []IndexIsPosition` |
| `RootsDecideRule5` | `Spec => []Rule5Decided` |
| `QueuesImplemented` | `Spec => ImplementsQueues` |

`IInv` is inductive and says that both slices are heaps whose elements know their positions, with
the content of the map and one record of every other process.  `Heap_proofs` carries the weight;
it is about any strict weak order `Precedes` and any elements that `Id` tells apart:

* The library's induction theorems take the property as a parameter, which no installed prover
  can instantiate.  `LeastNat` replaces them: a set of numbers that is not empty has a least one
  (from the library's theorem on well-founded relations), so the least number at which a claim
  fails follows one at which it holds.  `Recursion` proves with it that the function `run` exists
  and satisfies its equations, `RunStays` that its values stay in a set that the iteration keeps,
  and `LoopEnds` that a loop whose position moves has stopped after as many iterations as
  the positions allow.
* Inside `up` and `down` the slice is no heap.  The loop invariants are `UpReady` and
  `DownReady`: everything is in order but the element at the position against its parent, or against its
  children, and those children are in order with that parent, so that the swap leaves no fault
  behind (`RiseReady`, `SinkReady`).  When the loop has stopped the slice is a heap, or `down` has not moved the element
  and it may have to go up (`RiseDone`, `SinkDone`).
* Swaps rearrange: the elements and their number stay, and the indices follow
  (`SwapRearranges`, `RearrangedTwice`).
* `settle` is correct for an element that is too large or too small (`SettleFacts`): if it did not
  sink, it precedes or equals its children, and only its parent can be out of order.  This is why
  `heap.Remove` from the middle and `heap.Fix` need both directions, and what the mutant
  `RemoveAtDown` violates.
* The root of a heap is least (`RootIsLeast`): the least position holding an element that
  precedes the root would have a parent at a smaller position.

### Raft

For every finite non-empty set of servers, `NOBODY` not among them (`ServerAssumption`), and
all bounds (`BoundAssumption`, with `Cap` at least 1):

| module | theorem | states |
|---|---|---|
| `Raft_proofs` | `TypeCorrect` | `Spec => []TypeOK` |
| | `Persistence` | `Spec => []PersistedIsCurrent` |
| | `TermsIncrease` | `Spec => TermMonotonic` |
| | `OneVote` | `Spec => []OneVotePerTerm` |
| | `NoWakeUpLost` | `Spec => []NoLostCommit` |
| | `CommitIncreases` | `Spec => CommitMonotonic` |
| `RaftElection_proofs` | `TimelyElections` | `Cardinality(Server) <= 3 => (Spec => []TimelyElectionSafety)` |
| | `SmallMajorities` | `Cardinality(Server) <= 3 => (Spec => []ElectedByMajority)` |
| | `MajoritiesMeet` | `Spec => [](ElectedByMajority => TimelyElectionSafety)` |
| | `TwoGaps` | `Spec => [](AllTimely /\ ElectedByMajority => SingleLeaders /\ ElectionSafety)` |
| | `OneGap` | `Cardinality(Server) <= 3 => (Spec => [](AllTimely => SingleLeaders /\ ElectionSafety))` |
| `RaftLog_proofs` | `LogsMatch` | `Spec => []LogMatching` |
| | `OldArgumentsOnly` | `Spec => []OnlyOldOverwritten` |
| | `LeadersAppend` | `Spec => LeaderAppendOnly` |
| | `IndexInRange` | `Spec => []NextIndexInRange` |
| | `NoTokenForLeader` | `Spec => LeaderGetsNoToken` |
| | `InductiveInvariant` | `Spec => []IInv` |

The invariant is a tower, each floor kept by every step given the ones below it, and each
proved once (`Types`, `Persistence`, `VotesInv`, `Grants`, `CandidatesInv`, `LeadersInv`,
`LinksInv`):

* types, with what a refusal may say: `NextIndex` is an index the leader has sent
  (`Started`, `CallsTyped`);
* persistence, from which terms and votes survive a crash;
* `VotesKept`: a vote of the current term is the one `votedFor` remembers, so there is no
  second one;
* `GrantsAreVotes` and `Candidates`: a token of the current term was sent with two votes,
  the candidate's and another server's.  Two timely leaders of a term would need four
  voters, hence the bound of three servers; it is the largest for which the statement is
  true, since a vote may count twice (`raft_double_vote`);
* from `Candidates`, too, that a timely leader of up to three servers has the votes of a majority
  (`SmallMajorities`).  For any number of servers majorities have a voter in common, and one
  vote per term makes the two leaders one (`MajoritiesMeet`).  With `Leaders`, a token left from an earlier
  election (finding 1) and a reply counted twice (finding 2) are therefore the only ways to two leaders of a
  term: exclude both and `SingleLeaders` and `ElectionSafety` hold (`TwoGaps`); up to three
  servers the tokens are the only one (`OneGap`);
* `Leaders`: who leads or has sent `AppendEntries` came to power in that term, and nobody
  comes to power twice in a term;
* `OnlyOldOverwritten`: a write in place at another entry than the arguments have is a truncation by
  `AppendEntries`.  In the term of the arguments their sender leads or has led, and the only other
  sender of calls of that term would be a second leader; a later term is what the invariant says.
  With `LeaderHasAll` a leader's `Start` writes behind everything it has sent;
* `Links`: an entry with its index and the term before it, in a log or in a call.  Under
  `SingleLeaders` and `~misread` index and term determine the link (`LinksUnique`), and the leader's log
  reaches to every link of its term (`LeaderHasAll`).  `LogMatching` follows by walking two
  logs back from a common term to the first place where they differ.  `~misread` is needed here and
  nowhere else: an entry that was overwritten on its way has no leader whose log contains it.  `NextIndexInRange` and
  `LeaderAppendOnly` follow from `LeaderHasAll` and from `Leaders`.

### The network and the tester

For every finite set of servers, any set of calls, and any number of commands
(`TesterAssumption`: `nil` is no number):

| theorem of `TesterCalls_proofs` | states |
|---|---|
| `InductiveInvariant` | `Spec => []IInv` |
| `RepliesSurvive` | `Spec => []RepliedIsSaved` |
| `GhostsAreSilent` | `Spec => []GhostsDoNotCall` |
| `ConnectionsAgree` | `Spec => []ConnectedIsEnabled` |
| `FailuresExcused` | `Spec => []FailureHasCause` |
| `Refinement` | `Spec => ImplementsRemoteCall` |

None of these is inductive, because a command changes the tables entry by entry.  `TesterInv`
says what the operations that are left of a command promise.  They are ordered: disable,
delete, copy, make, register, enable (`IsOrdered`).  While a copy is to come its server is cut
off or the script still disables the end (`CutOff`); when the delete is done nobody is
registered; the ends of instances that lost their persister are disabled for good
(`OldEndsDisabled`); and after the rest of the script exactly the ends between connected
servers are enabled (`Toggles`, `Settles`).  `Tester_proofs` shows that every operation and
every command keeps this, and that tables only evolve: ends stay, a persister goes from an
instance to a newer one, a name is freed before it is used again (`TablesEvolve`).

The calls are proved against `TablesEvolve` only (`Undisturbed`), so that no step of a call
has to look at scripts: what a handler did is saved unless its instance had lost the
persister, and an instance that is still registered at the second check had not; a call
that may fail was excused when the tables turned against it.  For the refinement, a call in stage
`true` has its reply, hence its handler ran, once; a handler that has not run leaves the caller
without a reply.

### Only model-checked

Liveness under fairness (`RequestGranted`, `DriverFinishes`, `EntriesApplied`, `CallReturns`,
`DispatcherEnds`), which is out of the prover's reach like `ENABLED`.  Every safety property of a
passing run is a theorem.  The three properties that the code violates have their runs;
`ElectionSafety` and `ElectedByMajority` are proved under the conditions above, `StateMachineSafety`
under none, since a late heartbeat breaks it without a second leader.  The proofs
hold for Raft started by `Make` on empty persisters; `raft_diverged` begins later.

## Not modelled

`resource.report` and the statistics, `String` methods, debug output, `PoW.zip`.
`labgob` encodes and warns about lower-case fields and non-default values; it keeps
no state of the protocol.  The RPC counters of `labrpc` and the tester's counting and timing (`begin`,
`end`, `one`, `wait`, `nCommitted`) only read; the checks they end in are properties.
The lengths of timers are left out, a timer may fire at any time.  The capacity of the array under
`rf.logs` is left out, every append may be in place.  A full channel
is not explored, only that a leader's does not fill.  What a crashed instance
still sends to its old `applyCh` is left out: it gets no new calls, no replies and no
commands, so it can only deliver what it had committed, as if before the crash.

## Plan

Done: the modules above, and a theorem for every safety property that a passing run checks.
Left: what follows after a server took overwritten entries (`misread`) while every term had one leader,
for which nothing is claimed about logs; a run of that case needs five servers or more.
