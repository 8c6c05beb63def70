------------------------------- MODULE TesterInv -------------------------------
(***************************************************************************)
(* The inductive invariant of Tester: what the rest of a command promises  *)
(* about the tables, and what the tables promise about the calls.          *)
(***************************************************************************)
EXTENDS Tester

\* The names of ends: who calls, in which instance, and whom.
End == Server \X Nat \X Server

\* The ends that were made: one to every other server, for every instance.
MadeOf(inc) == UNION {{endname(i, k, j) : k \in 1 .. inc[i], j \in others(i)} : i \in Server}
Made == MadeOf(incarnation)

\* The operations of a script.
EnableOps == [op : {"Enable"}, end : End, on : BOOLEAN]
ServerOps == [op : {"DeleteServer", "Copy", "Make", "AddServer"}, server : Server]

\* Where a call can be.
Stages == {"none", "select", "accepted", "process", "wait", "check", "true", "false", "ok", "failed"}

\* The tester's state and the tables of the network.
TableTypes ==
  /\ incarnation \in [Server -> Nat]
  /\ attached \in [Server -> Nat \cup {nil}]
  /\ servers \in [Server -> Nat \cup {nil}]
  /\ connected \in [Server -> BOOLEAN]
  /\ reliable \in BOOLEAN
  /\ done \in BOOLEAN
  /\ enabled \in [Made -> BOOLEAN]
  /\ connections = [e \in Made |-> e[3]]
  /\ script \in Seq(EnableOps \cup ServerOps)

\* The calls, and what is known of them.
CallTypes ==
  /\ saved \in [Server -> SUBSET Calls]
  /\ call \in [Calls -> [stage : Stages, end : End \cup {nil}, server : Nat \cup {nil},
                         reliable : BOOLEAN, replyOK : BOOLEAN]]
  /\ handler \in [Calls -> {"none", "started", "returned", "ended"}]
  /\ runs \in [Calls -> Nat]
  /\ ghosts \subseteq Calls
  /\ excused \subseteq Calls

Types == TableTypes /\ CallTypes

----------------------------------------------------------------------------
(* What is left of a command.                                              *)

\* One operation of a script.
Toggle(e, on) == [op |-> "Enable", end |-> e, on |-> on]
ServerOp(op, i) == [op |-> op, server |-> i]

\* The operations that are left, in any order.
Ops == ToSet(script)

\* A command disables ends first and enables ends last.
Rank(o) == CASE o.op = "Enable" -> IF o.on THEN 5 ELSE 0
             [] o.op = "DeleteServer" -> 1
             [] o.op = "Copy" -> 2
             [] o.op = "Make" -> 3
             [] o.op = "AddServer" -> 4

\* makeConfig makes the servers one after the other.
MayPrecede(o, p) ==
  \/ Rank(o) < Rank(p)
  \/ o \in EnableOps /\ p \in EnableOps /\ Rank(o) = Rank(p)
  \/ o \in ServerOps /\ p \in ServerOps /\ o.server # p.server

IsOrdered(ops) == \A m, n \in DOMAIN ops : m < n => MayPrecede(ops[m], ops[n])

----------------------------------------------------------------------------
(* The tables.                                                             *)

\* The instance that is registered is the one attached to the persister, and
\* both are the last one: a server is deleted before the persister is copied,
\* copied before the next instance is made, made before it is registered.
Registered(i) ==
  LET has(op) == ServerOp(op, i) \in Ops
  IN
  /\ servers[i] # nil => servers[i] = attached[i]
  /\ attached[i] # nil => attached[i] = incarnation[i] /\ incarnation[i] > 0
  /\ incarnation[i] = 0 => has("Make")
  /\ has("DeleteServer") => has("Copy")
  /\ has("Copy") /\ ~has("DeleteServer") => servers[i] = nil
  /\ has("Copy") /\ has("AddServer") => has("Make")
  /\ has("Make") /\ ~has("Copy") => servers[i] = nil /\ attached[i] = nil
  /\ has("AddServer") /\ ~has("Make") => servers[i] = nil /\ attached[i] # nil
  /\ has("Copy") => ~connected[i]
  /\ connected[i] => attached[i] # nil \/ has("Make")

\* The instance there will be after the command.
next == [i \in Server |->
  IF ServerOp("Make", i) \in Ops THEN incarnation[i] + 1 ELSE incarnation[i]]

\* The ends of crashed instances are disabled for good.
OldEndsDisabled == \A e \in Made : e[2] # attached[e[1]] => ~enabled[e]

\* What a command still enables it should, and what it still disables too.
Toggles ==
  \A o \in Ops : o.op = "Enable" =>
    LET e == o.end
        both == connected[e[1]] /\ connected[e[3]]
    IN  IF o.on
          THEN e[1] # e[3] /\ e[2] = next[e[1]] /\ both
          ELSE e \in Made /\ ~both

\* After the command, ends are enabled exactly between connected servers.
Settles ==
  \A i \in Server : \A j \in others(i) :
    LET e == endname(i, next[i], j)
    IN  IF connected[i] /\ connected[j]
          THEN Toggle(e, TRUE) \in Ops \/ (e \in Made /\ enabled[e])
          ELSE e \in Made => ~enabled[e] \/ Toggle(e, FALSE) \in Ops

\* Before the persister is copied, the instance is cut off.
CutOff ==
  \A i \in Server : \A j \in others(i) :
    LET e == endname(i, incarnation[i], j)
    IN  ServerOp("Copy", i) \in Ops /\ e \in Made => ~enabled[e] \/ Toggle(e, FALSE) \in Ops

\* All that holds of the tables.
Tables ==
  /\ IsOrdered(script)
  /\ \A i \in Server : Registered(i)
  /\ OldEndsDisabled
  /\ Toggles
  /\ Settles
  /\ CutOff

----------------------------------------------------------------------------
(* The calls.                                                              *)

\* The server that a call is for.
target(c) == call[c].end[3]

\* Where the goroutines of a call are together, and what they know.
Goroutines(c) ==
  LET stage == call[c].stage
      begun == stage \notin {"none", "select", "accepted"}
  IN
  /\ stage # "none" => call[c].end \in Made
  /\ ~begun => call[c].reliable
  /\ stage \in {"none", "select", "accepted", "process"} => handler[c] = "none"
  /\ stage = "wait" => handler[c] \in {"started", "returned"} /\ ~call[c].replyOK
  /\ stage \in {"true", "ok"} => call[c].replyOK
  /\ stage \in {"process", "wait", "check"} \/ handler[c] # "none" =>
       call[c].server \in 1 .. incarnation[target(c)]
  /\ handler[c] \in {"none", "started"} => runs[c] = 0 /\ ~call[c].replyOK
  /\ handler[c] \in {"returned", "ended"} => runs[c] = 1

\* What a handler did is persisted, unless its instance was crashed before.
Saved(c) ==
  /\ runs[c] = 1 => c \in saved[target(c)] \/ attached[target(c)] # call[c].server
  /\ call[c].stage \in {"true", "ok"} => c \in saved[target(c)]

\* A call is excused as soon as it may fail.
Excuses(c) ==
  /\ InFlight(c) /\ Disturbed(c) => c \in excused
  /\ ~call[c].reliable => c \in excused
  /\ call[c].stage \in {"process", "wait", "check"} =>
       servers[target(c)] = call[c].server \/ c \in excused
  /\ call[c].stage = "check" /\ ~call[c].replyOK => c \in excused
  /\ call[c].stage \in {"false", "failed"} => c \in excused

\* The calls of crashed instances end at ReadEndnameInfo.
Ghost(c) ==
  LET e == call[c].end
  IN
  /\ call[c].stage \in {"select", "accepted", "false", "failed"}
  /\ e \in Made /\ e[2] # attached[e[1]]
  /\ handler[c] = "none"

\* The inductive invariant: the parts above, for every call.
IInv ==
  /\ Types
  /\ Tables
  /\ \A c \in Calls : Goroutines(c) /\ Saved(c) /\ Excuses(c)
  /\ \A c \in ghosts : Ghost(c)
=============================================================================
