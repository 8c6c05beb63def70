------------------------------- MODULE Network -------------------------------
(***************************************************************************)
(* The simulated network labrpc: client ends, servers, and what becomes of *)
(* a Call.  A call is three goroutines that talk over channels without     *)
(* buffers:                                                                *)
(*   the caller      in Call, until it gets a replyMsg;                    *)
(*   ProcessReq      started by the goroutine of MakeNetwork; it reads the *)
(*                   tables of the network under rn.mu, several times;     *)
(*   the dispatcher  started by ProcessReq, runs the handler and sends the *)
(*                   reply on ech.                                         *)
(* An action is one critical section of rn.mu, one run of a handler, or    *)
(* one communication.  Every delay of the code (short, long, reordered) is *)
(* a step that comes later.  The RPC counters are left out.                *)
(***************************************************************************)
EXTENDS Naturals

CONSTANTS
  Server,  \* names of servers
  Calls,   \* the calls that are made
  nil

VARIABLES
  enabled,      \* enabled[e] for every end made so far
  connections,  \* the name of the server it is connected to
  servers,      \* the Server registered under a name, or nil
  reliable,
  done,         \* closed by Cleanup
  serving,      \* the goroutine of MakeNetwork runs
  call,         \* what Call and ProcessReq know of a call
  handler,      \* the dispatcher: "none", "started", "returned", "ended"
  runs          \* history: how often the handler of a call was executed

tableVars == <<enabled, connections, servers, reliable>>
networkVars == <<tableVars, done, serving, call, handler, runs>>

noCall == [stage |-> "none", end |-> nil, server |-> nil, reliable |-> TRUE, replyOK |-> FALSE]

NetworkInit ==
  /\ enabled = <<>>
  /\ connections = <<>>
  /\ servers = [s \in Server |-> nil]
  /\ reliable \in BOOLEAN
  /\ done = FALSE
  /\ serving = TRUE
  /\ call = [c \in Calls |-> noCall]
  /\ handler = [c \in Calls |-> "none"]
  /\ runs = [c \in Calls |-> 0]

----------------------------------------------------------------------------
(* The tables.                                                             *)

\* MakeEnd and Connect, for fresh ends and the names of their servers: nobody
\* can use an end in between.
MakeEnds(names) ==
  LET ends == DOMAIN names \cup DOMAIN enabled
  IN
  /\ enabled' = [e \in ends |-> e \notin DOMAIN names /\ enabled[e]]
  /\ connections' = [e \in ends |-> IF e \in DOMAIN names THEN names[e] ELSE connections[e]]
  /\ UNCHANGED <<servers, reliable>>

Enable(e, on) ==
  /\ enabled' = [enabled EXCEPT ![e] = on]
  /\ UNCHANGED <<connections, servers, reliable>>

\* AddServer, and DeleteServer when rs is nil.
SetServer(s, rs) ==
  /\ servers' = [servers EXCEPT ![s] = rs]
  /\ UNCHANGED <<enabled, connections, reliable>>

Reliable(yes) ==
  /\ reliable' = yes
  /\ UNCHANGED <<enabled, connections, servers>>

----------------------------------------------------------------------------
(* A call.                                                                 *)

goTo(c, stage) == call' = [call EXCEPT ![c].stage = stage]

\* Call up to its select.
Call(c, e) ==
  /\ call[c].stage = "none"
  /\ call' = [call EXCEPT ![c].stage = "select", ![c].end = e]
  /\ UNCHANGED <<tableVars, done, serving, handler, runs>>

\* The goroutine of MakeNetwork takes the request and starts ProcessReq ...
Accept(c) ==
  /\ call[c].stage = "select"
  /\ serving
  /\ goTo(c, "accepted")
  /\ UNCHANGED <<tableVars, done, serving, handler, runs>>

\* ... or the network is gone.
CallDone(c) ==
  /\ call[c].stage = "select"
  /\ done
  /\ goTo(c, "failed")
  /\ UNCHANGED <<tableVars, done, serving, handler, runs>>

\* ReadEndnameInfo, and the outermost condition of ProcessReq.  What it read
\* is not read again.
ReadEndnameInfo(c) ==
  LET e == call[c].end
      server == servers[connections[e]]
  IN
  /\ call[c].stage = "accepted"
  /\ call' = [call EXCEPT ![c].stage = IF enabled[e] /\ server # nil THEN "process" ELSE "false",
                          ![c].server = server,
                          ![c].reliable = reliable]
  /\ UNCHANGED <<tableVars, done, serving, handler, runs>>

\* Mutant: requests are lost on a reliable network too.
MayDropAlways(c) == TRUE

\* reliable == false && rand: the request, or later the reply, may be lost.
MayDrop(c) == ~call[c].reliable

DropRequest(c) ==
  /\ call[c].stage = "process"
  /\ MayDrop(c)
  /\ goTo(c, "false")
  /\ UNCHANGED <<tableVars, done, serving, handler, runs>>

\* Starts the dispatcher.
Dispatch(c) ==
  /\ call[c].stage = "process"
  /\ goTo(c, "wait")
  /\ handler' = [handler EXCEPT ![c] = "started"]
  /\ UNCHANGED <<tableVars, done, serving, runs>>

\* server.dispatch: the handler is executed and its reply encoded.
Handle(c) ==
  /\ handler[c] = "started"
  /\ handler' = [handler EXCEPT ![c] = "returned"]
  /\ runs' = [runs EXCEPT ![c] = @ + 1]
  /\ UNCHANGED <<tableVars, done, serving, call>>

\* reply = <-ech
TakeReply(c) ==
  /\ call[c].stage = "wait"
  /\ handler[c] = "returned"
  /\ handler' = [handler EXCEPT ![c] = "ended"]
  /\ call' = [call EXCEPT ![c].stage = "check", ![c].replyOK = TRUE]
  /\ UNCHANGED <<tableVars, done, serving, runs>>

\* Mutant: the table of servers is not asked.
IsServerDeadByEnd(c) == ~enabled[call[c].end]

IsServerDead(c) ==
  \/ ~enabled[call[c].end]
  \/ servers[connections[call[c].end]] # call[c].server

\* Mutant: the request is sent once more.
StopWaitingRetry(c) ==
  /\ call[c].stage = "wait"
  /\ IsServerDead(c)
  /\ goTo(c, "accepted")
  /\ UNCHANGED <<tableVars, done, serving, handler, runs>>

\* Mutant: ProcessReq waits for the handler only.
StopWaitingNever(c) == FALSE

\* time.After: the server is dead, a goroutine is left to drain ech.
StopWaiting(c) ==
  /\ call[c].stage = "wait"
  /\ IsServerDead(c)
  /\ goTo(c, "check")
  /\ UNCHANGED <<tableVars, done, serving, handler, runs>>

\* Mutant: nobody is left to take the reply.
DrainNever(c) == FALSE

Drain(c) ==
  /\ ~call[c].replyOK
  /\ call[c].stage \in {"check", "false", "failed"}
  /\ handler[c] = "returned"
  /\ handler' = [handler EXCEPT ![c] = "ended"]
  /\ UNCHANGED <<tableVars, done, serving, call, runs>>

\* The rest of ProcessReq: the server is checked again.
CheckReply(c) ==
  LET alive == call[c].replyOK /\ ~IsServerDead(c)
  IN
  /\ call[c].stage = "check"
  /\ \/ goTo(c, "true") /\ alive
     \/ goTo(c, "false") /\ (MayDrop(c) \/ ~alive)
  /\ UNCHANGED <<tableVars, done, serving, handler, runs>>

\* The caller gets the replyMsg.
Return(c) ==
  /\ \/ call[c].stage = "true" /\ goTo(c, "ok")
     \/ call[c].stage = "false" /\ goTo(c, "failed")
  /\ UNCHANGED <<tableVars, done, serving, handler, runs>>

\* What the goroutines of a call do, the handler aside.
Process(c) ==
  \/ Accept(c)
  \/ CallDone(c)
  \/ ReadEndnameInfo(c)
  \/ DropRequest(c)
  \/ Dispatch(c)
  \/ TakeReply(c)
  \/ StopWaiting(c)
  \/ Drain(c)
  \/ CheckReply(c)
  \/ Return(c)

----------------------------------------------------------------------------
Cleanup ==
  /\ done' = TRUE
  /\ UNCHANGED <<tableVars, serving, call, handler, runs>>

\* The goroutine of MakeNetwork sees that done is closed; until then it may
\* still take requests.
StopServing ==
  /\ done
  /\ serving
  /\ serving' = FALSE
  /\ UNCHANGED <<tableVars, done, call, handler, runs>>

Returned(c) == call[c].stage \in {"ok", "failed"}
=============================================================================
