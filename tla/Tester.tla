-------------------------------- MODULE Tester --------------------------------
(***************************************************************************)
(* The tester config.go on the network: it crashes, restarts, connects and *)
(* disconnects servers, while instances of Raft, the crashed ones too,     *)
(* call each other.  Of an instance only its calls and its handlers are    *)
(* modelled, and of a handler that it persists what it did.                *)
(*                                                                         *)
(* The tester is one goroutine.  A command of it is a sequence of          *)
(* operations on the network and the persisters; between two of them every *)
(* other goroutine may run.  script is what is left of the command.        *)
(* Ends from a server to itself are left out: nobody calls itself.         *)
(***************************************************************************)
EXTENDS Network, Sequences, FiniteSets, SequencesExt

CONSTANT MaxCommands  \* bound: commands after makeConfig

ASSUME TesterAssumption == IsFiniteSet(Server) /\ nil \notin Nat /\ MaxCommands \in Nat

VARIABLES
  script,
  commands,     \* how many commands were given
  connected,    \* cfg.connected
  incarnation,  \* how many instances a server had; names cfg.endnames[i], nil at 0
  saved,        \* what cfg.saved[i] holds: the calls whose effect is persisted
  attached,     \* the instance that has cfg.saved[i] for its persister, or nil
  ghosts,       \* history: calls of instances that were crashed before
  excused       \* history: calls the network or the tester disturbed

testerVars == <<script, commands, connected, incarnation, saved, attached>>
vars == <<networkVars, testerVars, ghosts, excused>>

----------------------------------------------------------------------------
(* The commands.                                                           *)

others(i) == Server \ {i}

\* Mutant: the ends of a new instance have the names of the old one's.
endnameReused(i, k, j) == <<i, 1, j>>

\* cfg.endnames[i][j] of the k-th instance; randstring makes it unique.
endname(i, k, j) == <<i, k, j>>

outgoing(i) == {endname(i, incarnation[i], j) : j \in others(i)}
incoming(i) == {endname(j, incarnation[j], i) : j \in others(i)}

setEnable(E, on) == SetToSeq({[op |-> "Enable", end |-> e, on |-> on] : e \in E})

do(op, i) == <<[op |-> op, server |-> i]>>

\* Mutant: the incoming ends stay enabled.
disableOutgoing(i) == setEnable(outgoing(i) \cap DOMAIN enabled, FALSE)

\* disconnect: all ends from and to i that exist.
disable(i) == setEnable(outgoing(i) \cap DOMAIN enabled, FALSE)
                \o setEnable(incoming(i) \cap DOMAIN enabled, FALSE)

\* connect: the ends between i and the connected servers.
enable(i) ==
  LET on == {j \in others(i) : connected[j]}
  IN  setEnable({endname(i, incarnation[i], j) : j \in on}, TRUE)
        \o setEnable({endname(j, incarnation[j], i) : j \in on}, TRUE)

\* Mutant: the persister is copied while the server is still registered.
crashCopyFirst(i) == disable(i) \o do("Copy", i) \o do("DeleteServer", i)

\* crash1: cut off, deleted, and only then the persister is copied.
crash(i) == disable(i) \o do("DeleteServer", i) \o do("Copy", i)

\* The new ends, the second copy of the persister and Make are one
\* operation: nothing else can reach what they work on.
start(i) == crash(i) \o do("Make", i) \o do("AddServer", i)

Command(ops, conn) ==
  /\ script = <<>>
  /\ ~done
  /\ commands < MaxCommands
  /\ commands' = commands + 1
  /\ script' = ops
  /\ connected' = conn
  /\ UNCHANGED <<networkVars, incarnation, saved, attached>>

crash1(i) == Command(crash(i), [connected EXCEPT ![i] = FALSE])
start1(i) == Command(start(i), [connected EXCEPT ![i] = FALSE])
disconnect(i) == Command(disable(i), [connected EXCEPT ![i] = FALSE])

\* Assumption, which connect itself does not check: the test connects only a
\* server it has started since its last crash1 (every caller in test_test.go
\* does).  After a crash1 alone the ends of the crashed instance still have the
\* names of the current ones, and connect would enable them again.
connect(i) == attached[i] # nil /\ Command(enable(i), [connected EXCEPT ![i] = TRUE])

setunreliable(unRel) ==
  /\ script = <<>>
  /\ ~done
  /\ commands < MaxCommands
  /\ commands' = commands + 1
  /\ Reliable(~unRel)
  /\ UNCHANGED <<done, serving, call, handler, runs, script, connected, incarnation, saved,
                 attached>>

cleanup ==
  /\ script = <<>>
  /\ ~done
  /\ Cleanup
  /\ UNCHANGED testerVars

----------------------------------------------------------------------------
(* The operations.                                                         *)

\* cfg.saved[i] is replaced by a copy: what the old instance persists from
\* now on reaches nobody.
Copy(i) == attached' = [attached EXCEPT ![i] = nil]

\* A new instance, with new ends and the copy for its persister.
Make(i) ==
  LET k == incarnation[i] + 1
  IN
  /\ incarnation' = [incarnation EXCEPT ![i] = k]
  /\ attached' = [attached EXCEPT ![i] = k]
  /\ MakeEnds([e \in {endname(i, k, j) : j \in others(i)} |-> e[3]])

\* The k-th instance of i persists the effect of a call.
SaveRaftState(i, k, c) ==
  saved' = [saved EXCEPT ![i] = IF attached[i] = k THEN @ \cup {c} ELSE @]

\* One operation of the script.
Operation ==
  LET o == Head(script)
  IN
  /\ script # <<>>
  /\ script' = Tail(script)
  /\ \/ /\ o.op = "Enable"
        /\ Enable(o.end, o.on)
        /\ UNCHANGED <<incarnation, attached>>
     \/ /\ o.op = "DeleteServer"
        /\ SetServer(o.server, nil)
        /\ UNCHANGED <<incarnation, attached>>
     \/ /\ o.op = "Copy"
        /\ Copy(o.server)
        /\ UNCHANGED <<tableVars, incarnation>>
     \/ /\ o.op = "Make"
        /\ Make(o.server)
     \/ /\ o.op = "AddServer"
        /\ SetServer(o.server, incarnation[o.server])
        /\ UNCHANGED <<incarnation, attached>>
  /\ UNCHANGED <<done, serving, call, handler, runs, commands, connected, saved>>

\* makeConfig starts the servers one after the other; there is nothing to
\* crash yet.
startAll ==
  LET all == SetToSeq(Server)
  IN  [n \in 1 .. 2 * Len(all) |->
         [op |-> IF n % 2 = 1 THEN "Make" ELSE "AddServer", server |-> all[(n + 1) \div 2]]]

\* Then it connects them.
connectAll == setEnable(UNION {{endname(i, 1, j) : j \in others(i)} : i \in Server}, TRUE)

Init ==
  /\ NetworkInit
  /\ incarnation = [i \in Server |-> 0]
  /\ script = startAll \o connectAll
  /\ commands = 0
  /\ connected = [i \in Server |-> TRUE]
  /\ saved = [i \in Server |-> {}]
  /\ attached = [i \in Server |-> nil]
  /\ ghosts = {}
  /\ excused = {}

----------------------------------------------------------------------------
(* The instances.                                                          *)

\* The k-th instance of i makes a call; once made, an instance never ends.
instanceCall(c, i, k, j) ==
  /\ Call(c, endname(i, k, j))
  /\ ghosts' = IF attached[i] = k THEN ghosts ELSE ghosts \cup {c}
  /\ UNCHANGED testerVars

\* The handler runs in the instance that was registered when the request
\* was processed, and persists to the persister of that instance.
instanceHandle(c) ==
  LET i == connections[call[c].end]
  IN
  /\ Handle(c)
  /\ SaveRaftState(i, call[c].server, c)
  /\ UNCHANGED <<script, commands, connected, incarnation, attached>>

InFlight(c) == call[c].stage \notin {"none", "ok", "failed"}

\* The call could not be expected to succeed.
Disturbed(c) ==
  \/ ~reliable \/ done
  \/ ~enabled[call[c].end]
  \/ servers[connections[call[c].end]] = nil

CallStep ==
  \/ \E c \in Calls, i \in Server, j \in Server : \E k \in 1 .. incarnation[i] :
       i # j /\ instanceCall(c, i, k, j)
  \/ /\ \E c \in Calls : \/ Process(c) /\ UNCHANGED testerVars
                         \/ instanceHandle(c)
     /\ UNCHANGED ghosts

TesterStep ==
  /\ \/ \E i \in Server : crash1(i) \/ start1(i) \/ connect(i) \/ disconnect(i)
     \/ \E unRel \in BOOLEAN : setunreliable(unRel)
     \/ Operation
     \/ cleanup
     \/ StopServing /\ UNCHANGED testerVars
  /\ UNCHANGED ghosts

Next ==
  /\ CallStep \/ TesterStep
  /\ excused' = excused \cup {c \in Calls : InFlight(c)' /\ Disturbed(c)'}

Spec == Init /\ [][Next]_vars

\* Every goroutine of the network goes on, and so does the tester with a
\* command it began.  A handler may block for ever.
FairSpec ==
  /\ Spec
  /\ \A c \in Calls : WF_vars(Next /\ Process(c))
  /\ WF_vars(Next /\ Operation)
  /\ WF_vars(Next /\ StopServing)

----------------------------------------------------------------------------
(* Properties.                                                             *)

\* What Raft takes for granted of its calls.
Results == [c \in Calls |-> CASE call[c].stage = "none" -> "none"
                              [] Returned(c) -> call[c].stage
                              [] OTHER -> "pending"]
Abstract == INSTANCE RemoteCall WITH result <- Results, runs <- runs

\* The comment at package labrpc: Call returns true to indicate that the
\* server executed the request.
\* Through all the goroutines of a call, the handler runs at most once, and
\* before the caller sees true.
ImplementsRemoteCall == Abstract!Spec

\* The comment at the second check of ProcessReq: what a caller was told was
\* done is not lost with a crash.  The effect is in the persister that the
\* next instance gets, whatever steps of a crash the handler ran between.
RepliedIsSaved ==
  \A c \in Calls : call[c].stage \in {"true", "ok"} => c \in saved[connections[call[c].end]]

\* The comment at the fresh names in start1: an instance that was crashed
\* cannot send, also after its server is back, given that no server is
\* connected before it is started again (see connect).
GhostsDoNotCall == \A c \in ghosts : runs[c] = 0

\* Between two commands, the two ends between servers are enabled exactly
\* when both are connected, after any sequence of commands.
ConnectedIsEnabled ==
  script = <<>> =>
    \A i, j \in Server : i # j =>
      (enabled[endname(i, incarnation[i], j)] <=> connected[i] /\ connected[j])

\* The package comment on false: the network lost something or the server is
\* down.  A call fails only if, at some time while it was in flight, the network
\* was unreliable or gone, or one of the two servers disconnected or down.
FailureHasCause == \A c \in Calls : call[c].stage = "failed" => c \in excused

\* The package comment: Call is guaranteed to return, except if the handler
\* does not; and when the server is dead, it returns all the same.
CallReturns ==
  \A c \in Calls :
    \/ []<>(~InFlight(c))
    \/ <>[](handler[c] = "started" /\ ~IsServerDead(c))

\* No goroutine is left behind with a reply that nobody takes.
DispatcherEnds == \A c \in Calls : handler[c] = "returned" ~> handler[c] = "ended"
=============================================================================
