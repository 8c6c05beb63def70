-------------------------- MODULE TesterCalls_proofs --------------------------
(***************************************************************************)
(* Proofs about Tester, second part: the calls, whatever the tester does   *)
(* with the tables meanwhile, and the theorems.                            *)
(***************************************************************************)
EXTENDS Tester_proofs

\* What the invariant says of one call.
CallInv(c) == Goroutines(c) /\ Saved(c) /\ Excuses(c)

\* What every step does about excuses.
Excusing == excused' = excused \cup {c \in Calls : InFlight(c)' /\ Disturbed(c)'}

\* What is known of a call and its end.
LEMMA CallFacts ==
  ASSUME Types, NEW c \in Calls
  PROVE  /\ call[c].stage \in Stages /\ call[c].server \in Nat \cup {nil}
         /\ call[c].reliable \in BOOLEAN /\ call[c].replyOK \in BOOLEAN
         /\ handler[c] \in {"none", "started", "returned", "ended"} /\ runs[c] \in Nat
         /\ call[c].end \in Made =>
              /\ target(c) \in Server /\ connections[call[c].end] = target(c)
              /\ call[c].end[1] \in Server /\ call[c].end[2] \in 1 .. incarnation[call[c].end[1]]
              /\ call[c].end[2] \in Nat /\ enabled[call[c].end] \in BOOLEAN
<1>1. /\ call[c].stage \in Stages /\ call[c].server \in Nat \cup {nil}
      /\ call[c].reliable \in BOOLEAN /\ call[c].replyOK \in BOOLEAN
      /\ handler[c] \in {"none", "started", "returned", "ended"} /\ runs[c] \in Nat
  BY DEF Types, CallTypes
<1>2. /\ incarnation \in [Server -> Nat] /\ enabled \in [Made -> BOOLEAN]
      /\ connections = [e \in Made |-> e[3]]
  BY DEF Types, TableTypes
<1>3. ASSUME call[c].end \in Made
      PROVE  /\ target(c) \in Server /\ connections[call[c].end] = target(c)
             /\ call[c].end[1] \in Server /\ call[c].end[2] \in 1 .. incarnation[call[c].end[1]]
             /\ call[c].end[2] \in Nat /\ enabled[call[c].end] \in BOOLEAN
  BY <1>2, <1>3, MadeFacts DEF Made, target
<1> QED BY <1>1, <1>3

\* A call to which nothing happens, whatever happens to the tables.
LEMMA Undisturbed ==
  ASSUME Types, TableTypes', TablesEvolve, Excusing, NEW d \in Calls, CallInv(d),
         call'[d] = call[d], handler'[d] = handler[d], runs'[d] = runs[d],
         \A i \in Server : saved[i] \subseteq saved'[i]
  PROVE  CallInv(d)' /\ (Ghost(d) => Ghost(d)')
<1>1. /\ call[d].stage \in Stages /\ call[d].server \in Nat \cup {nil}
      /\ call[d].end \in Made =>
              /\ target(d) \in Server
              /\ call[d].end[1] \in Server /\ call[d].end[2] \in 1 .. incarnation[call[d].end[1]]
              /\ call[d].end[2] \in Nat
  BY CallFacts
<1>2. /\ Made \subseteq Made'
      /\ \A i \in Server :
           /\ incarnation[i] <= incarnation'[i]
           /\ attached'[i] \in {attached[i], nil, incarnation[i] + 1}
           /\ servers'[i] \in {servers[i], nil} \/ servers[i] = nil
  BY DEF TablesEvolve
<1>3. /\ incarnation \in [Server -> Nat] /\ incarnation' \in [Server -> Nat]
      /\ connections' = [e \in Made' |-> e[3]]
  BY DEF Types, TableTypes
<1>4. Goroutines(d) /\ Saved(d) /\ Excuses(d)
  BY DEF CallInv
<1>5. target(d)' = target(d)
  BY DEF target
<1>6. \A i \in Server, k \in Nat : k \in 1 .. incarnation[i] =>
        k \in 1 .. incarnation'[i] /\ k # nil /\ (k # attached[i] => k # attached'[i])
  BY <1>2, <1>3, TesterAssumption
<1>7. call[d].stage # "none" => call[d].end \in Made
  BY <1>4 DEF Goroutines
<1>8. call[d].server \in 1 .. incarnation[target(d)] => call[d].server \in Nat
  OBVIOUS
<1>9. Goroutines(d)'
  <2>1. call[d].stage \in {"process", "wait", "check"} \/ handler[d] # "none" =>
          call[d].stage # "none" /\ call[d].server \in 1 .. incarnation[target(d)]
    BY <1>4 DEF Goroutines
  <2>2. call[d].stage \in {"process", "wait", "check"} \/ handler[d] # "none" =>
          call[d].server \in 1 .. incarnation'[target(d)]
    BY <1>1, <1>6, <1>7, <1>8, <2>1
  <2> QED BY <1>2, <1>4, <1>5, <2>2 DEF Goroutines
<1>10. Saved(d)'
  <2>1. runs[d] = 1 => handler[d] # "none"
    BY <1>4 DEF Goroutines
  <2>2. runs[d] = 1 => call[d].stage # "none" /\ call[d].server \in 1 .. incarnation[target(d)]
    BY <1>4, <2>1 DEF Goroutines
  <2>3. call[d].stage \in {"true", "ok"} => d \in saved[target(d)] /\ target(d) \in Server
    BY <1>1, <1>4, <1>7 DEF Saved
  <2>4. runs[d] = 1 => d \in saved'[target(d)] \/ attached'[target(d)] # call[d].server
    BY <1>1, <1>4, <1>6, <1>7, <1>8, <2>2 DEF Saved
  <2> QED BY <1>5, <2>3, <2>4 DEF Saved
<1>11. Excuses(d)'
  <2>1. /\ excused \subseteq excused'
        /\ InFlight(d)' /\ Disturbed(d)' => d \in excused'
    BY DEF Excusing
  <2>2. ASSUME call[d].stage \in {"process", "wait", "check"}
        PROVE  servers'[target(d)] = call[d].server \/ d \in excused'
    <3>1. call[d].end \in Made /\ target(d) \in Server
      BY <1>1, <1>7, <2>2
    <3>2. call[d].server # nil
      BY <1>4, <1>6, <1>8, <2>2, <3>1 DEF Goroutines
    <3>3. servers[target(d)] = call[d].server \/ d \in excused
      BY <1>4, <2>2 DEF Excuses
    <3>4. CASE servers'[target(d)] = nil
      <4>1. connections'[call'[d].end] = target(d)
        BY <1>2, <1>3, <3>1 DEF target
      <4>2. InFlight(d)' /\ Disturbed(d)'
        BY <2>2, <3>4, <4>1 DEF InFlight, Disturbed
      <4> QED BY <2>1, <4>2
    <3> QED BY <1>2, <2>1, <3>1, <3>2, <3>3, <3>4
  <2> QED BY <1>4, <1>5, <2>1, <2>2 DEF Excuses
<1>12. Ghost(d) => Ghost(d)'
  BY <1>1, <1>2, <1>6 DEF Ghost
<1> QED BY <1>9, <1>10, <1>11, <1>12 DEF CallInv

\* Steps that leave the tables alone.
LEMMA TablesFrame ==
  ASSUME Types, Tables, reliable' \in BOOLEAN, done' \in BOOLEAN,
         UNCHANGED <<enabled, connections, servers, script, connected, incarnation, attached>>
  PROVE  TableTypes' /\ Tables' /\ TablesEvolve
<1>1. Made' = Made /\ Ops' = Ops /\ next' = next
  BY DEF Made, Ops, next
<1>2. TableTypes'
  BY <1>1 DEF Types, TableTypes
<1>3. TablesEvolve
  <2>1. incarnation \in [Server -> Nat]
    BY DEF Types, TableTypes
  <2> QED BY <1>1, <2>1 DEF TablesEvolve
<1>4. ASSUME NEW i \in Server PROVE Registered(i)'
  BY <1>1 DEF Tables, Registered
<1>5. OldEndsDisabled' /\ Toggles' /\ Settles' /\ CutOff'
  BY <1>1 DEF Tables, OldEndsDisabled, Toggles, Settles, CutOff
<1> QED BY <1>2, <1>3, <1>4, <1>5 DEF Tables

\* A step of one call: it is enough to look at that call.
LEMMA Acting ==
  ASSUME IInv, Excusing, NEW c \in Calls,
         UNCHANGED <<tableVars, done, script, connected, incarnation, attached>>,
         CallTypes', \A i \in Server : saved[i] \subseteq saved'[i],
         \A d \in Calls : d # c => call'[d] = call[d] /\ handler'[d] = handler[d] /\ runs'[d] = runs[d],
         ghosts' \subseteq ghosts \cup {c},
         CallInv(c)', c \in ghosts' => Ghost(c)'
  PROVE  IInv'
<1>1. /\ Types /\ Tables /\ ghosts \subseteq Calls
      /\ \A d \in Calls : CallInv(d)
      /\ \A d \in ghosts : Ghost(d)
  BY DEF IInv, CallInv, Types, CallTypes
<1>2. reliable' \in BOOLEAN /\ done' \in BOOLEAN
  BY <1>1 DEF Types, TableTypes, tableVars
<1>3. TableTypes' /\ Tables' /\ TablesEvolve
  BY <1>1, <1>2, TablesFrame DEF tableVars
<1>4. ASSUME NEW d \in Calls, d # c PROVE CallInv(d)' /\ (Ghost(d) => Ghost(d)')
  BY <1>1, <1>3, <1>4, Undisturbed
<1>5. \A d \in Calls : CallInv(d)'
  BY <1>4
<1>6. \A d \in ghosts' : Ghost(d)'
  BY <1>1, <1>4
<1>7. Types'
  BY <1>3 DEF Types
<1>8. \A d \in Calls : Goroutines(d)' /\ Saved(d)' /\ Excuses(d)'
  BY <1>5 DEF CallInv
<1> QED BY <1>3, <1>6, <1>7, <1>8 DEF IInv

\* goTo changes the stage of one call.
LEMMA GoToFacts ==
  ASSUME CallTypes, NEW c \in Calls, NEW stage \in Stages, goTo(c, stage)
  PROVE  /\ call'[c].stage = stage /\ call'[c].end = call[c].end
         /\ call'[c].server = call[c].server /\ call'[c].reliable = call[c].reliable
         /\ call'[c].replyOK = call[c].replyOK
         /\ \A d \in Calls : d # c => call'[d] = call[d]
         /\ call' \in [Calls -> [stage : Stages, end : End \cup {nil}, server : Nat \cup {nil},
                                 reliable : BOOLEAN, replyOK : BOOLEAN]]
<1> DEFINE R == [stage : Stages, end : End \cup {nil}, server : Nat \cup {nil},
                 reliable : BOOLEAN, replyOK : BOOLEAN]
<1>1. call \in [Calls -> R]
  BY DEF CallTypes
<1>2. call' = [call EXCEPT ![c] = [call[c] EXCEPT !.stage = stage]]
  BY DEF goTo
<1>3. call[c] \in R
  BY <1>1
<1> DEFINE r == [call[c] EXCEPT !.stage = stage]
<1>4. /\ r \in R /\ r.stage = stage /\ r.end = call[c].end /\ r.server = call[c].server
      /\ r.reliable = call[c].reliable /\ r.replyOK = call[c].replyOK
  BY <1>3
<1> HIDE DEF r, R
<1>5. call'[c] = r /\ \A d \in Calls : d # c => call'[d] = call[d]
  BY <1>1, <1>2 DEF r
<1>6. call' \in [Calls -> R]
  BY <1>1, <1>2, <1>4 DEF r
<1> QED BY <1>4, <1>5, <1>6 DEF R

\* What is known when a step changes only the stage of one call.
Moves(c, stage) ==
  /\ Types /\ Tables /\ Goroutines(c) /\ Saved(c) /\ Excuses(c)
  /\ c \in ghosts => Ghost(c)
  /\ call'[c].stage = stage /\ call'[c].end = call[c].end
  /\ call'[c].server = call[c].server /\ call'[c].reliable = call[c].reliable
  /\ call'[c].replyOK = call[c].replyOK
  /\ UNCHANGED <<enabled, connections, servers, reliable, done, incarnation, attached, saved,
                 handler, runs, ghosts>>
  /\ target(c)' = target(c) /\ Made' = Made
  /\ excused \subseteq excused'
  /\ InFlight(c)' /\ Disturbed(c)' => c \in excused'
  /\ CallInv(c)' /\ (c \in ghosts => Ghost(c)') => IInv'

\* A step that changes only the stage of one call.
LEMMA StageStep ==
  ASSUME IInv, Excusing, NEW c \in Calls, NEW stage \in Stages, goTo(c, stage),
         UNCHANGED <<tableVars, done, handler, runs, testerVars, ghosts>>
  PROVE  Moves(c, stage)
<1>1. Types /\ Tables /\ CallTypes /\ Goroutines(c) /\ Saved(c) /\ Excuses(c)
  BY DEF IInv, Types
<1>2. c \in ghosts => Ghost(c)
  BY DEF IInv
<1>3. /\ call'[c].stage = stage /\ call'[c].end = call[c].end
      /\ call'[c].server = call[c].server /\ call'[c].reliable = call[c].reliable
      /\ call'[c].replyOK = call[c].replyOK
      /\ \A d \in Calls : d # c => call'[d] = call[d]
      /\ call' \in [Calls -> [stage : Stages, end : End \cup {nil}, server : Nat \cup {nil},
                              reliable : BOOLEAN, replyOK : BOOLEAN]]
  BY <1>1, GoToFacts
<1>4. UNCHANGED <<enabled, connections, servers, reliable, done, incarnation, attached, saved,
                  handler, runs, ghosts, script, connected>>
  BY DEF tableVars, testerVars
<1>5. excused' \subseteq Calls /\ excused \subseteq excused'
      /\ (InFlight(c)' /\ Disturbed(c)' => c \in excused')
  BY <1>1 DEF Excusing, CallTypes
<1>6. CallTypes'
  BY <1>1, <1>3, <1>4, <1>5 DEF CallTypes
<1>7. target(c)' = target(c) /\ Made' = Made
  BY <1>3, <1>4 DEF target, Made
<1>8. ASSUME CallInv(c)', c \in ghosts => Ghost(c)' PROVE IInv'
  <2>1. /\ \A i \in Server : saved[i] \subseteq saved'[i]
        /\ \A d \in Calls : d # c => call'[d] = call[d] /\ handler'[d] = handler[d] /\ runs'[d] = runs[d]
        /\ ghosts' \subseteq ghosts \cup {c} /\ (c \in ghosts' => Ghost(c)')
    BY <1>3, <1>4, <1>8
  <2>2. UNCHANGED <<tableVars, done, script, connected, incarnation, attached>>
    BY <1>4
  <2> QED BY <1>6, <1>8, <2>1, <2>2, Acting
<1> QED BY <1>1, <1>2, <1>3, <1>4, <1>5, <1>6, <1>7, <1>8 DEF Moves

\* The request is taken.
LEMMA AcceptInv ==
  ASSUME IInv, Excusing, NEW c \in Calls, Accept(c), UNCHANGED <<testerVars, ghosts>>
  PROVE  IInv'
<1>0. call[c].stage = "select"
  BY DEF Accept
<1>1. Moves(c, "accepted")
  BY StageStep DEF Accept, Stages
<1>2. Goroutines(c)'
  BY <1>0, <1>1 DEF Goroutines, Moves
<1>3. Saved(c)'
  BY <1>0, <1>1 DEF Saved, Moves
<1>4. Excuses(c)'
  BY <1>0, <1>1 DEF Excuses, Moves
<1>5. c \in ghosts => Ghost(c)'
  BY <1>0, <1>1 DEF Ghost, Moves
<1> QED BY <1>1, <1>2, <1>3, <1>4, <1>5 DEF CallInv, Moves

\* The network is gone, which excuses the call.
LEMMA CallDoneInv ==
  ASSUME IInv, Excusing, NEW c \in Calls, CallDone(c), UNCHANGED <<testerVars, ghosts>>
  PROVE  IInv'
<1>0. call[c].stage = "select" /\ done
  BY DEF CallDone
<1>1. Moves(c, "failed")
  BY StageStep DEF CallDone, Stages
<1>2. Goroutines(c)'
  BY <1>0, <1>1 DEF Goroutines, Moves
<1>3. Saved(c)'
  BY <1>0, <1>1 DEF Saved, Moves
<1>4. Excuses(c)'
  <2>1. InFlight(c) /\ Disturbed(c)
    BY <1>0 DEF InFlight, Disturbed
  <2> QED BY <1>0, <1>1, <2>1 DEF Excuses, Moves
<1>5. c \in ghosts => Ghost(c)'
  BY <1>0, <1>1 DEF Ghost, Moves
<1> QED BY <1>1, <1>2, <1>3, <1>4, <1>5 DEF CallInv, Moves

\* The request is lost, which happens on an unreliable network only.
LEMMA DropRequestInv ==
  ASSUME IInv, Excusing, NEW c \in Calls, DropRequest(c), UNCHANGED <<testerVars, ghosts>>
  PROVE  IInv'
<1>0. call[c].stage = "process" /\ ~call[c].reliable
  BY DEF DropRequest, MayDrop
<1>1. Moves(c, "false")
  BY StageStep DEF DropRequest, Stages
<1>2. Goroutines(c)'
  BY <1>0, <1>1 DEF Goroutines, Moves
<1>3. Saved(c)'
  BY <1>0, <1>1 DEF Saved, Moves
<1>4. Excuses(c)'
  BY <1>0, <1>1 DEF Excuses, Moves
<1>5. c \notin ghosts
  BY <1>0, <1>1 DEF Ghost, Moves
<1> QED BY <1>1, <1>2, <1>3, <1>4, <1>5 DEF CallInv, Moves

\* ProcessReq waits no longer: the server is dead, which excuses the call.
LEMMA StopWaitingInv ==
  ASSUME IInv, Excusing, NEW c \in Calls, StopWaiting(c), UNCHANGED <<testerVars, ghosts>>
  PROVE  IInv'
<1>0. call[c].stage = "wait" /\ IsServerDead(c)
  BY DEF StopWaiting
<1>1. Moves(c, "check")
  BY StageStep DEF StopWaiting, Stages
<1>2. Goroutines(c)'
  BY <1>0, <1>1 DEF Goroutines, Moves
<1>3. Saved(c)'
  BY <1>0, <1>1 DEF Saved, Moves
<1>4. Excuses(c)'
  <2>1. call[c].end \in Made
    BY <1>0, <1>1 DEF Goroutines, Moves
  <2>2. connections[call[c].end] = target(c)
    BY <1>1, <2>1, CallFacts DEF Moves
  <2>3. CASE ~enabled[call[c].end]
    <3>1. InFlight(c)' /\ Disturbed(c)'
      BY <1>1, <2>3 DEF InFlight, Disturbed, Moves
    <3> QED BY <1>0, <1>1, <3>1 DEF Excuses, Moves
  <2>4. CASE servers[target(c)] # call[c].server
    <3>1. c \in excused
      BY <1>0, <1>1, <2>4 DEF Excuses, Moves
    <3> QED BY <1>0, <1>1, <3>1 DEF Excuses, Moves
  <2> QED BY <1>0, <2>2, <2>3, <2>4 DEF IsServerDead
<1>5. c \notin ghosts
  BY <1>0, <1>1 DEF Ghost, Moves
<1> QED BY <1>1, <1>2, <1>3, <1>4, <1>5 DEF CallInv, Moves

\* The second check: a reply passes when its server is still registered, and
\* then what the handler did is in the persister.
LEMMA ReplyPassesInv ==
  ASSUME IInv, Excusing, NEW c \in Calls, call[c].stage = "check", call[c].replyOK,
         ~IsServerDead(c), goTo(c, "true"),
         UNCHANGED <<tableVars, done, handler, runs, testerVars, ghosts>>
  PROVE  IInv'
<1>1. Moves(c, "true")
  BY StageStep DEF Stages
<1>2. Goroutines(c)'
  BY <1>1 DEF Goroutines, Moves
<1>3. Saved(c)'
  <2>1. call[c].end \in Made /\ call[c].server \in 1 .. incarnation[target(c)]
    BY <1>1 DEF Goroutines, Moves
  <2>2. target(c) \in Server /\ connections[call[c].end] = target(c)
    BY <1>1, <2>1, CallFacts DEF Moves
  <2>3. servers[target(c)] = call[c].server
    BY <2>2 DEF IsServerDead
  <2>4. call[c].server # nil
    <3>1. call[c].server \in Nat
      BY <2>1
    <3> QED BY <3>1, TesterAssumption
  <2>5. attached[target(c)] = call[c].server
    <3>1. Registered(target(c))
      BY <1>1, <2>2 DEF Tables, Moves
    <3> QED BY <2>3, <2>4, <3>1 DEF Registered
  <2>6. handler[c] \in {"none", "started", "returned", "ended"}
    BY <1>1, CallFacts DEF Moves
  <2>7. runs[c] = 1
    BY <1>1, <2>6 DEF Goroutines, Moves
  <2>8. c \in saved[target(c)]
    BY <1>1, <2>5, <2>7 DEF Saved, Moves
  <2> QED BY <1>1, <2>8 DEF Saved, Moves
<1>4. Excuses(c)'
  BY <1>1 DEF Excuses, Moves
<1>5. c \notin ghosts
  BY <1>1 DEF Ghost, Moves
<1> QED BY <1>1, <1>2, <1>3, <1>4, <1>5 DEF CallInv, Moves

\* The second check: everything else ends as a failure that is excused.
LEMMA ReplyFailsInv ==
  ASSUME IInv, Excusing, NEW c \in Calls, call[c].stage = "check",
         MayDrop(c) \/ ~call[c].replyOK \/ IsServerDead(c), goTo(c, "false"),
         UNCHANGED <<tableVars, done, handler, runs, testerVars, ghosts>>
  PROVE  IInv'
<1>1. Moves(c, "false")
  BY StageStep DEF Stages
<1>2. Goroutines(c)'
  BY <1>1 DEF Goroutines, Moves
<1>3. Saved(c)'
  BY <1>1 DEF Saved, Moves
<1>4. c \in excused'
  <2>1. call[c].end \in Made
    BY <1>1 DEF Goroutines, Moves
  <2>2. connections[call[c].end] = target(c)
    BY <1>1, <2>1, CallFacts DEF Moves
  <2>3. CASE MayDrop(c) \/ ~call[c].replyOK
    BY <1>1, <2>3 DEF Excuses, MayDrop, Moves
  <2>4. CASE ~enabled[call[c].end]
    <3>1. InFlight(c)' /\ Disturbed(c)'
      BY <1>1, <2>4 DEF InFlight, Disturbed, Moves
    <3> QED BY <1>1, <3>1 DEF Moves
  <2>5. CASE servers[target(c)] # call[c].server
    BY <1>1, <2>5 DEF Excuses, Moves
  <2> QED BY <2>2, <2>3, <2>4, <2>5 DEF IsServerDead
<1>5. Excuses(c)'
  BY <1>1, <1>4 DEF Excuses, Moves
<1>6. c \notin ghosts
  BY <1>1 DEF Ghost, Moves
<1> QED BY <1>1, <1>2, <1>3, <1>5, <1>6 DEF CallInv, Moves

\* The second check.
LEMMA CheckReplyInv ==
  ASSUME IInv, Excusing, NEW c \in Calls, CheckReply(c), UNCHANGED <<testerVars, ghosts>>
  PROVE  IInv'
<1>1. /\ call[c].stage = "check"
      /\ UNCHANGED <<tableVars, done, handler, runs, testerVars, ghosts>>
  BY DEF CheckReply
<1>2. CASE goTo(c, "true") /\ call[c].replyOK /\ ~IsServerDead(c)
  BY <1>1, <1>2, ReplyPassesInv
<1>3. CASE goTo(c, "false") /\ (MayDrop(c) \/ ~call[c].replyOK \/ IsServerDead(c))
  BY <1>1, <1>3, ReplyFailsInv
<1> QED BY <1>2, <1>3 DEF CheckReply

\* The caller learns the result.
LEMMA ReturnInv ==
  ASSUME IInv, Excusing, NEW c \in Calls, Return(c), UNCHANGED <<testerVars, ghosts>>
  PROVE  IInv'
<1>0. UNCHANGED <<tableVars, done, handler, runs, testerVars, ghosts>>
  BY DEF Return
<1>t. CASE call[c].stage = "true" /\ goTo(c, "ok")
  <2>1. Moves(c, "ok")
  BY <1>0, <1>t, StageStep DEF Stages
  <2>2. Goroutines(c)'
    BY <1>t, <2>1 DEF Goroutines, Moves
  <2>3. Saved(c)'
    BY <1>t, <2>1 DEF Saved, Moves
  <2>4. Excuses(c)'
    BY <1>t, <2>1 DEF Excuses, Moves
  <2>5. c \notin ghosts
    BY <1>t, <2>1 DEF Ghost, Moves
  <2> QED BY <2>1, <2>2, <2>3, <2>4, <2>5 DEF CallInv, Moves
<1>f. CASE call[c].stage = "false" /\ goTo(c, "failed")
  <2>1. Moves(c, "failed")
  BY <1>0, <1>f, StageStep DEF Stages
  <2>2. Goroutines(c)'
    BY <1>f, <2>1 DEF Goroutines, Moves
  <2>3. Saved(c)'
    BY <1>f, <2>1 DEF Saved, Moves
  <2>4. Excuses(c)'
    BY <1>f, <2>1 DEF Excuses, InFlight, Moves
  <2>5. c \in ghosts => Ghost(c)'
    BY <1>f, <2>1 DEF Ghost, Moves
  <2> QED BY <2>1, <2>2, <2>3, <2>4, <2>5 DEF CallInv, Moves
<1> QED BY <1>t, <1>f DEF Return

\* What is known before any step, and of a step of one call that leaves the
\* tables alone.
LEMMA BeforeStep ==
  ASSUME IInv, Excusing, NEW c \in Calls,
         UNCHANGED <<tableVars, done, script, connected, incarnation, attached>>
  PROVE  /\ Types /\ Tables /\ CallTypes /\ Goroutines(c) /\ Saved(c) /\ Excuses(c)
         /\ (c \in ghosts => Ghost(c))
         /\ UNCHANGED <<enabled, connections, servers, reliable>> /\ Made' = Made
         /\ excused' \subseteq Calls /\ excused \subseteq excused'
         /\ (InFlight(c)' /\ Disturbed(c)' => c \in excused')
<1>1. /\ Types /\ Tables /\ CallTypes /\ Goroutines(c) /\ Saved(c) /\ Excuses(c)
      /\ (c \in ghosts => Ghost(c))
  BY DEF IInv, Types
<1>2. UNCHANGED <<enabled, connections, servers, reliable>> /\ Made' = Made
  BY DEF tableVars, Made
<1>3. /\ excused' \subseteq Calls /\ excused \subseteq excused'
      /\ (InFlight(c)' /\ Disturbed(c)' => c \in excused')
  BY <1>1 DEF Excusing, CallTypes
<1> QED BY <1>1, <1>2, <1>3

\* ReadEndnameInfo: an instance that was crashed has no enabled end; what is
\* registered is the instance that has the persister.
LEMMA ReadEndnameInfoInv ==
  ASSUME IInv, Excusing, NEW c \in Calls, ReadEndnameInfo(c), UNCHANGED <<testerVars, ghosts>>
  PROVE  IInv'
<1> DEFINE e == call[c].end
           server == servers[connections[e]]
           stage == IF enabled[e] /\ server # nil THEN "process" ELSE "false"
           r == [call[c] EXCEPT !.stage = stage, !.server = server, !.reliable = reliable]
           R == [stage : Stages, end : End \cup {nil}, server : Nat \cup {nil},
                 reliable : BOOLEAN, replyOK : BOOLEAN]
<1>0. /\ call[c].stage = "accepted" /\ call' = [call EXCEPT ![c] = r]
      /\ UNCHANGED <<tableVars, done, handler, runs, testerVars, ghosts>>
  BY DEF ReadEndnameInfo
<1>1. UNCHANGED <<tableVars, done, script, connected, incarnation, attached, saved>>
  BY <1>0 DEF testerVars
<1>2. /\ Types /\ Tables /\ CallTypes /\ Goroutines(c) /\ Saved(c) /\ Excuses(c)
      /\ (c \in ghosts => Ghost(c))
      /\ UNCHANGED <<enabled, connections, servers, reliable>> /\ Made' = Made
      /\ excused' \subseteq Calls /\ excused \subseteq excused'
      /\ (InFlight(c)' /\ Disturbed(c)' => c \in excused')
  BY <1>1, BeforeStep
<1>3. e \in Made
  BY <1>0, <1>2 DEF Goroutines
<1>4. /\ target(c) \in Server /\ connections[e] = target(c) /\ e[1] \in Server
      /\ enabled[e] \in BOOLEAN
  BY <1>2, <1>3, CallFacts
<1>5. /\ servers \in [Server -> Nat \cup {nil}] /\ reliable \in BOOLEAN
      /\ incarnation \in [Server -> Nat] /\ call \in [Calls -> R]
  BY <1>2 DEF Types, TableTypes, CallTypes
<1>6. server = servers[target(c)] /\ server \in Nat \cup {nil} /\ stage \in Stages
      /\ call[c] \in R
  BY <1>4, <1>5 DEF Stages
<1> HIDE DEF server, stage
<1>7. /\ r \in R /\ r.stage = stage /\ r.end = e /\ r.server = server
      /\ r.reliable = reliable /\ r.replyOK = call[c].replyOK
  BY <1>5, <1>6
<1> HIDE DEF r, R
<1>8. /\ call' \in [Calls -> R] /\ call'[c] = r
      /\ \A d \in Calls : d # c => call'[d] = call[d]
  BY <1>0, <1>5, <1>7
<1>9. CallTypes'
  BY <1>0, <1>1, <1>2, <1>8 DEF CallTypes, R
<1>10. target(c)' = target(c)
  BY <1>7, <1>8 DEF target
<1>11. stage \in {"process", "false"} /\ (stage = "process" <=> enabled[e] /\ server # nil)
  BY DEF stage
<1>12. stage = "process" => server \in 1 .. incarnation[target(c)]
  <2>1. Registered(target(c))
    BY <1>2, <1>4 DEF Tables
  <2>2. server # nil => server = incarnation[target(c)] /\ incarnation[target(c)] > 0
    BY <1>6, <2>1 DEF Registered
  <2> QED BY <1>4, <1>5, <1>11, <2>2
<1>13. Goroutines(c)'
  BY <1>0, <1>1, <1>2, <1>3, <1>7, <1>8, <1>10, <1>11, <1>12 DEF Goroutines
<1>14. Saved(c)'
  BY <1>0, <1>1, <1>2, <1>7, <1>8, <1>10, <1>11 DEF Saved, Goroutines
<1>15. Excuses(c)'
  <2>1. InFlight(c)'
    BY <1>7, <1>8, <1>11 DEF InFlight
  <2>2. ~reliable => c \in excused'
    BY <1>2, <2>1 DEF Disturbed
  <2>3. stage = "false" => c \in excused'
    <3>1. stage = "false" => ~enabled[e] \/ server = nil
      BY <1>11
    <3>2. stage = "false" => Disturbed(c)'
      BY <1>2, <1>4, <1>6, <1>7, <1>8, <3>1 DEF Disturbed
    <3> QED BY <1>2, <2>1, <3>2
  <2> QED BY <1>2, <1>6, <1>7, <1>8, <1>10, <1>11, <2>2, <2>3 DEF Excuses
<1>16. c \in ghosts' => Ghost(c)'
  <2> SUFFICES ASSUME c \in ghosts PROVE Ghost(c)'
    BY <1>0
  <2>1. e[2] # attached[e[1]] /\ handler[c] = "none"
    BY <1>2 DEF Ghost
  <2>2. ~enabled[e]
    BY <1>2, <1>3, <2>1 DEF Tables, OldEndsDisabled
  <2> QED BY <1>0, <1>1, <1>2, <1>3, <1>7, <1>8, <1>11, <2>1, <2>2 DEF Ghost
<1>17. /\ \A i \in Server : saved[i] \subseteq saved'[i]
       /\ \A d \in Calls : d # c => call'[d] = call[d] /\ handler'[d] = handler[d] /\ runs'[d] = runs[d]
       /\ ghosts' \subseteq ghosts \cup {c}
  BY <1>0, <1>1, <1>8
<1>18. CallInv(c)'
  BY <1>13, <1>14, <1>15 DEF CallInv
<1> QED BY <1>1, <1>9, <1>16, <1>17, <1>18, Acting

\* The dispatcher is started.
LEMMA DispatchInv ==
  ASSUME IInv, Excusing, NEW c \in Calls, Dispatch(c), UNCHANGED <<testerVars, ghosts>>
  PROVE  IInv'
<1>0. /\ call[c].stage = "process" /\ goTo(c, "wait")
      /\ handler' = [handler EXCEPT ![c] = "started"]
      /\ UNCHANGED <<tableVars, done, runs, testerVars, ghosts>>
  BY DEF Dispatch
<1>1. UNCHANGED <<tableVars, done, script, connected, incarnation, attached, saved>>
  BY <1>0 DEF testerVars
<1>2. /\ Types /\ Tables /\ CallTypes /\ Goroutines(c) /\ Saved(c) /\ Excuses(c)
      /\ (c \in ghosts => Ghost(c))
      /\ UNCHANGED <<enabled, connections, servers, reliable>> /\ Made' = Made
      /\ excused' \subseteq Calls /\ excused \subseteq excused'
      /\ (InFlight(c)' /\ Disturbed(c)' => c \in excused')
  BY <1>1, BeforeStep
<1>3. /\ call'[c].stage = "wait" /\ call'[c].end = call[c].end
      /\ call'[c].server = call[c].server /\ call'[c].reliable = call[c].reliable
      /\ call'[c].replyOK = call[c].replyOK
      /\ \A d \in Calls : d # c => call'[d] = call[d]
      /\ call' \in [Calls -> [stage : Stages, end : End \cup {nil}, server : Nat \cup {nil},
                              reliable : BOOLEAN, replyOK : BOOLEAN]]
  BY <1>0, <1>2, GoToFacts DEF Stages
<1>4. /\ handler'[c] = "started" /\ handler' \in [Calls -> {"none", "started", "returned", "ended"}]
      /\ \A d \in Calls : d # c => handler'[d] = handler[d]
  BY <1>0, <1>2 DEF CallTypes
<1>5. CallTypes'
  BY <1>0, <1>1, <1>2, <1>3, <1>4 DEF CallTypes
<1>6. target(c)' = target(c)
  BY <1>3 DEF target
<1>7. Goroutines(c)'
  BY <1>0, <1>1, <1>2, <1>3, <1>4, <1>6 DEF Goroutines
<1>8. Saved(c)'
  BY <1>0, <1>1, <1>2, <1>3, <1>4, <1>6 DEF Saved
<1>9. Excuses(c)'
  BY <1>0, <1>1, <1>2, <1>3, <1>6 DEF Excuses
<1>10. c \notin ghosts'
  BY <1>0, <1>2 DEF Ghost
<1>11. /\ \A i \in Server : saved[i] \subseteq saved'[i]
       /\ \A d \in Calls : d # c => call'[d] = call[d] /\ handler'[d] = handler[d] /\ runs'[d] = runs[d]
       /\ ghosts' \subseteq ghosts \cup {c}
  BY <1>0, <1>1, <1>3, <1>4
<1>12. CallInv(c)'
  BY <1>7, <1>8, <1>9 DEF CallInv
<1> QED BY <1>1, <1>5, <1>10, <1>11, <1>12, Acting

\* The reply is taken: it says that the handler was executed.
LEMMA TakeReplyInv ==
  ASSUME IInv, Excusing, NEW c \in Calls, TakeReply(c), UNCHANGED <<testerVars, ghosts>>
  PROVE  IInv'
<1> DEFINE r == [call[c] EXCEPT !.stage = "check", !.replyOK = TRUE]
           R == [stage : Stages, end : End \cup {nil}, server : Nat \cup {nil},
                 reliable : BOOLEAN, replyOK : BOOLEAN]
<1>0. /\ call[c].stage = "wait" /\ call' = [call EXCEPT ![c] = r]
      /\ handler[c] = "returned" /\ handler' = [handler EXCEPT ![c] = "ended"]
      /\ UNCHANGED <<tableVars, done, runs, testerVars, ghosts>>
  BY DEF TakeReply
<1>1. UNCHANGED <<tableVars, done, script, connected, incarnation, attached, saved>>
  BY <1>0 DEF testerVars
<1>2. /\ Types /\ Tables /\ CallTypes /\ Goroutines(c) /\ Saved(c) /\ Excuses(c)
      /\ (c \in ghosts => Ghost(c))
      /\ UNCHANGED <<enabled, connections, servers, reliable>> /\ Made' = Made
      /\ excused' \subseteq Calls /\ excused \subseteq excused'
      /\ (InFlight(c)' /\ Disturbed(c)' => c \in excused')
  BY <1>1, BeforeStep
<1>3. call \in [Calls -> R] /\ call[c] \in R
  BY <1>2 DEF CallTypes
<1>4. /\ r \in R /\ r.stage = "check" /\ r.end = call[c].end /\ r.server = call[c].server
      /\ r.reliable = call[c].reliable /\ r.replyOK = TRUE
  BY <1>3 DEF Stages
<1> HIDE DEF r, R
<1>5. /\ call' \in [Calls -> R] /\ call'[c] = r
      /\ \A d \in Calls : d # c => call'[d] = call[d]
  BY <1>0, <1>3, <1>4
<1>6. /\ handler'[c] = "ended" /\ handler' \in [Calls -> {"none", "started", "returned", "ended"}]
      /\ \A d \in Calls : d # c => handler'[d] = handler[d]
  BY <1>0, <1>2 DEF CallTypes
<1>7. CallTypes'
  BY <1>0, <1>1, <1>2, <1>5, <1>6 DEF CallTypes, R
<1>8. target(c)' = target(c)
  BY <1>4, <1>5 DEF target
<1>9. Goroutines(c)'
  BY <1>0, <1>1, <1>2, <1>4, <1>5, <1>6, <1>8 DEF Goroutines
<1>10. Saved(c)'
  BY <1>0, <1>1, <1>2, <1>4, <1>5, <1>8 DEF Saved
<1>11. Excuses(c)'
  BY <1>0, <1>1, <1>2, <1>4, <1>5, <1>8 DEF Excuses
<1>12. c \notin ghosts'
  BY <1>0, <1>2 DEF Ghost
<1>13. /\ \A i \in Server : saved[i] \subseteq saved'[i]
       /\ \A d \in Calls : d # c => call'[d] = call[d] /\ handler'[d] = handler[d] /\ runs'[d] = runs[d]
       /\ ghosts' \subseteq ghosts \cup {c}
  BY <1>0, <1>1, <1>5, <1>6
<1>14. CallInv(c)'
  BY <1>9, <1>10, <1>11 DEF CallInv
<1> QED BY <1>1, <1>7, <1>12, <1>13, <1>14, Acting

\* A late reply is drained.
LEMMA DrainInv ==
  ASSUME IInv, Excusing, NEW c \in Calls, Drain(c), UNCHANGED <<testerVars, ghosts>>
  PROVE  IInv'
<1>0. /\ call[c].stage \in {"check", "false", "failed"} /\ call' = call
      /\ handler[c] = "returned" /\ handler' = [handler EXCEPT ![c] = "ended"]
      /\ UNCHANGED <<tableVars, done, runs, testerVars, ghosts>>
  BY DEF Drain
<1>1. UNCHANGED <<tableVars, done, script, connected, incarnation, attached, saved>>
  BY <1>0 DEF testerVars
<1>2. /\ Types /\ Tables /\ CallTypes /\ Goroutines(c) /\ Saved(c) /\ Excuses(c)
      /\ (c \in ghosts => Ghost(c))
      /\ UNCHANGED <<enabled, connections, servers, reliable>> /\ Made' = Made
      /\ excused' \subseteq Calls /\ excused \subseteq excused'
      /\ (InFlight(c)' /\ Disturbed(c)' => c \in excused')
  BY <1>1, BeforeStep
<1>3. /\ handler'[c] = "ended" /\ handler' \in [Calls -> {"none", "started", "returned", "ended"}]
      /\ \A d \in Calls : d # c => handler'[d] = handler[d]
  BY <1>0, <1>2 DEF CallTypes
<1>4. CallTypes'
  BY <1>0, <1>1, <1>2, <1>3 DEF CallTypes
<1>5. target(c)' = target(c)
  BY <1>0 DEF target
<1>6. Goroutines(c)'
  BY <1>0, <1>1, <1>2, <1>3, <1>5 DEF Goroutines
<1>7. Saved(c)'
  BY <1>0, <1>1, <1>2, <1>5 DEF Saved
<1>8. Excuses(c)'
  BY <1>0, <1>1, <1>2, <1>5 DEF Excuses
<1>9. c \notin ghosts'
  BY <1>0, <1>2 DEF Ghost
<1>10. /\ \A i \in Server : saved[i] \subseteq saved'[i]
       /\ \A d \in Calls : d # c => call'[d] = call[d] /\ handler'[d] = handler[d] /\ runs'[d] = runs[d]
       /\ ghosts' \subseteq ghosts \cup {c}
  BY <1>0, <1>1, <1>3
<1>11. CallInv(c)'
  BY <1>6, <1>7, <1>8 DEF CallInv
<1> QED BY <1>1, <1>4, <1>9, <1>10, <1>11, Acting

\* The handler persists what it does, unless the persister was taken from its
\* instance before.
LEMMA HandleInv ==
  ASSUME IInv, Excusing, NEW c \in Calls, instanceHandle(c), UNCHANGED ghosts
  PROVE  IInv'
<1> DEFINE i == connections[call[c].end]
<1>0. /\ handler[c] = "started" /\ handler' = [handler EXCEPT ![c] = "returned"]
      /\ runs' = [runs EXCEPT ![c] = runs[c] + 1]
      /\ saved' = [saved EXCEPT ![i] = IF attached[i] = call[c].server THEN saved[i] \cup {c} ELSE saved[i]]
      /\ call' = call /\ ghosts' = ghosts
      /\ UNCHANGED <<tableVars, done, script, connected, incarnation, attached>>
  BY DEF instanceHandle, Handle, SaveRaftState
<1>2. /\ Types /\ Tables /\ CallTypes /\ Goroutines(c) /\ Saved(c) /\ Excuses(c)
      /\ (c \in ghosts => Ghost(c))
      /\ UNCHANGED <<enabled, connections, servers, reliable>> /\ Made' = Made
      /\ excused' \subseteq Calls /\ excused \subseteq excused'
      /\ (InFlight(c)' /\ Disturbed(c)' => c \in excused')
  BY <1>0, BeforeStep
<1>3. call[c].stage # "none" /\ runs[c] = 0 /\ ~call[c].replyOK
  BY <1>0, <1>2 DEF Goroutines
<1>4. call[c].end \in Made
  BY <1>2, <1>3 DEF Goroutines
<1>5. target(c) \in Server /\ i = target(c)
  BY <1>2, <1>4, CallFacts
<1> HIDE DEF i
<1>6. saved \in [Server -> SUBSET Calls] /\ runs \in [Calls -> Nat]
      /\ handler \in [Calls -> {"none", "started", "returned", "ended"}]
  BY <1>2 DEF CallTypes
<1>7. /\ handler'[c] = "returned" /\ handler' \in [Calls -> {"none", "started", "returned", "ended"}]
      /\ \A d \in Calls : d # c => handler'[d] = handler[d]
  BY <1>0, <1>6
<1>8. /\ runs'[c] = 1 /\ runs' \in [Calls -> Nat]
      /\ \A d \in Calls : d # c => runs'[d] = runs[d]
  BY <1>0, <1>3, <1>6
<1>9. /\ saved' \in [Server -> SUBSET Calls]
      /\ \A j \in Server : saved[j] \subseteq saved'[j]
      /\ c \in saved'[target(c)] \/ attached[target(c)] # call[c].server
  BY <1>0, <1>5, <1>6
<1>10. CallTypes'
  BY <1>0, <1>2, <1>7, <1>8, <1>9 DEF CallTypes
<1>11. target(c)' = target(c)
  BY <1>0 DEF target
<1>12. Goroutines(c)'
  BY <1>0, <1>2, <1>3, <1>7, <1>8, <1>11 DEF Goroutines
<1>13. Saved(c)'
  BY <1>0, <1>2, <1>3, <1>9, <1>11 DEF Saved, Goroutines
<1>14. Excuses(c)'
  BY <1>0, <1>2, <1>11 DEF Excuses
<1>15. c \notin ghosts'
  BY <1>0, <1>2 DEF Ghost
<1>16. /\ \A d \in Calls : d # c => call'[d] = call[d] /\ handler'[d] = handler[d] /\ runs'[d] = runs[d]
       /\ ghosts' \subseteq ghosts \cup {c}
  BY <1>0, <1>7, <1>8
<1>17. CallInv(c)'
  BY <1>12, <1>13, <1>14 DEF CallInv
<1> QED BY <1>0, <1>9, <1>10, <1>15, <1>16, <1>17, Acting

\* An instance calls; if it was crashed before, its end is an old one.
LEMMA InstanceCallInv ==
  ASSUME IInv, Excusing, NEW c \in Calls, NEW i \in Server, NEW j \in Server,
         NEW k \in 1 .. incarnation[i], i # j, instanceCall(c, i, k, j)
  PROVE  IInv'
<1> DEFINE e == endname(i, k, j)
           r == [call[c] EXCEPT !.stage = "select", !.end = e]
           R == [stage : Stages, end : End \cup {nil}, server : Nat \cup {nil},
                 reliable : BOOLEAN, replyOK : BOOLEAN]
<1>0. /\ call[c].stage = "none" /\ call' = [call EXCEPT ![c] = r]
      /\ UNCHANGED <<tableVars, done, handler, runs, testerVars>>
      /\ ghosts' = IF attached[i] = k THEN ghosts ELSE ghosts \cup {c}
  BY DEF instanceCall, Call
<1>1. UNCHANGED <<tableVars, done, script, connected, incarnation, attached, saved>>
  BY <1>0 DEF testerVars
<1>2. /\ Types /\ Tables /\ CallTypes /\ Goroutines(c) /\ Saved(c) /\ Excuses(c)
      /\ (c \in ghosts => Ghost(c))
      /\ UNCHANGED <<enabled, connections, servers, reliable>> /\ Made' = Made
      /\ excused' \subseteq Calls /\ excused \subseteq excused'
      /\ (InFlight(c)' /\ Disturbed(c)' => c \in excused')
  BY <1>1, BeforeStep
<1>3. incarnation \in [Server -> Nat] /\ call \in [Calls -> R] /\ call[c] \in R
  BY <1>2 DEF Types, TableTypes, CallTypes
<1>4. e \in Made /\ e \in End /\ e[1] = i /\ e[2] = k
  <2>1. j \in others(i) /\ k \in Nat
    BY <1>3 DEF others
  <2>2. e \in Made
    BY <1>3, <2>1, MadeFacts DEF Made
  <2>3. e[1] = i /\ e[2] = k
    BY DEF endname
  <2> QED BY <1>3, <2>2, <2>3, MadeFacts DEF Made
<1> HIDE DEF e
<1>5. /\ r \in R /\ r.stage = "select" /\ r.end = e /\ r.server = call[c].server
      /\ r.reliable = call[c].reliable /\ r.replyOK = call[c].replyOK
  BY <1>3, <1>4 DEF Stages
<1> HIDE DEF r, R
<1>6. /\ call' \in [Calls -> R] /\ call'[c] = r
      /\ \A d \in Calls : d # c => call'[d] = call[d]
  BY <1>0, <1>3, <1>5
<1>7. ghosts' \subseteq ghosts \cup {c} /\ c \notin ghosts /\ (c \in ghosts' => attached[i] # k)
  BY <1>0, <1>2 DEF Ghost
<1>8. CallTypes'
  BY <1>0, <1>1, <1>2, <1>6, <1>7 DEF CallTypes, R
<1>9. Goroutines(c)'
  BY <1>0, <1>1, <1>2, <1>4, <1>5, <1>6 DEF Goroutines
<1>10. Saved(c)'
  BY <1>0, <1>1, <1>2, <1>5, <1>6 DEF Saved, Goroutines
<1>11. Excuses(c)'
  BY <1>0, <1>1, <1>2, <1>5, <1>6 DEF Excuses
<1>12. c \in ghosts' => Ghost(c)'
  <2>1. handler[c] = "none"
    BY <1>0, <1>2 DEF Goroutines
  <2> QED BY <1>0, <1>1, <1>2, <1>4, <1>5, <1>6, <1>7, <2>1 DEF Ghost
<1>13. /\ \A s \in Server : saved[s] \subseteq saved'[s]
       /\ \A d \in Calls : d # c => call'[d] = call[d] /\ handler'[d] = handler[d] /\ runs'[d] = runs[d]
  BY <1>0, <1>1, <1>6
<1>14. CallInv(c)'
  BY <1>9, <1>10, <1>11 DEF CallInv
<1> QED BY <1>1, <1>7, <1>8, <1>12, <1>13, <1>14, Acting

----------------------------------------------------------------------------
(* All steps together.                                                     *)

\* Before the first step there are no calls.
LEMMA InitInv == Init => IInv
<1> SUFFICES ASSUME Init PROVE IInv
  OBVIOUS
<1> DEFINE R == [stage : Stages, end : End \cup {nil}, server : Nat \cup {nil},
                 reliable : BOOLEAN, replyOK : BOOLEAN]
<1>1. TableTypes /\ Tables
  BY InitTables
<1>2. /\ saved = [i \in Server |-> {}] /\ ghosts = {} /\ excused = {}
      /\ call = [c \in Calls |-> noCall] /\ handler = [c \in Calls |-> "none"]
      /\ runs = [c \in Calls |-> 0]
  BY DEF Init, NetworkInit
<1>3. /\ noCall \in R /\ noCall.stage = "none" /\ noCall.reliable = TRUE
      /\ noCall.replyOK = FALSE
  BY DEF noCall, Stages
<1> HIDE DEF R
<1>4. call \in [Calls -> R]
  BY <1>2, <1>3
<1>5. CallTypes
  BY <1>2, <1>4 DEF CallTypes, R
<1>6. ASSUME NEW c \in Calls PROVE Goroutines(c) /\ Saved(c) /\ Excuses(c)
  <2>1. /\ call[c].stage = "none" /\ call[c].reliable = TRUE /\ call[c].replyOK = FALSE
        /\ handler[c] = "none" /\ runs[c] = 0
    BY <1>2, <1>3
  <2>2. Goroutines(c)
    BY <2>1 DEF Goroutines
  <2>3. Saved(c)
    BY <2>1 DEF Saved
  <2>4. Excuses(c)
    BY <2>1 DEF Excuses, InFlight
  <2> QED BY <2>2, <2>3, <2>4
<1> QED BY <1>1, <1>2, <1>5, <1>6 DEF IInv, Types

\* A step of the tester: the calls see only that the tables change.
LEMMA TesterFrame ==
  ASSUME IInv, Excusing, TableTypes', Tables', TablesEvolve,
         UNCHANGED <<call, handler, runs, saved, ghosts>>
  PROVE  IInv'
<1>1. /\ Types /\ CallTypes /\ ghosts \subseteq Calls
      /\ \A d \in Calls : CallInv(d)
      /\ \A d \in ghosts : Ghost(d)
  BY DEF IInv, CallInv, Types, CallTypes
<1>2. CallTypes'
  BY <1>1 DEF CallTypes, Excusing
<1>3. ASSUME NEW d \in Calls PROVE CallInv(d)' /\ (Ghost(d) => Ghost(d)')
  BY <1>1, Undisturbed
<1>4. \A d \in Calls : Goroutines(d)' /\ Saved(d)' /\ Excuses(d)'
  BY <1>3 DEF CallInv
<1>5. \A d \in ghosts' : Ghost(d)'
  BY <1>1, <1>3
<1> QED BY <1>2, <1>4, <1>5 DEF IInv, Types

\* Every step of the tester and of the goroutine of MakeNetwork.
LEMMA TesterStepInv ==
  ASSUME IInv, Excusing, TesterStep
  PROVE  IInv'
<1>1. Types /\ Tables /\ reliable \in BOOLEAN /\ done \in BOOLEAN
  BY DEF IInv, Types, TableTypes
<1>2. ghosts' = ghosts
  BY DEF TesterStep
<1>3. ASSUME NEW i \in Server, crash1(i) \/ start1(i) \/ connect(i) \/ disconnect(i)
      PROVE  IInv'
  <2>1. TableTypes' /\ Tables' /\ TablesEvolve
    BY <1>1, <1>3, CommandTables
  <2>2. UNCHANGED <<call, handler, runs, saved>>
    BY <1>3 DEF crash1, start1, connect, disconnect, Command, networkVars
  <2> QED BY <1>2, <2>1, <2>2, TesterFrame
<1>4. ASSUME NEW unRel \in BOOLEAN, setunreliable(unRel)
      PROVE  IInv'
  <2>1. /\ UNCHANGED <<enabled, connections, servers, done, call, handler, runs, script,
                       connected, incarnation, saved, attached>>
        /\ reliable' = ~unRel
    BY <1>4 DEF setunreliable, Reliable
  <2>2. reliable' \in BOOLEAN /\ done' \in BOOLEAN
    BY <1>1, <2>1
  <2>3. TableTypes' /\ Tables' /\ TablesEvolve
    BY <1>1, <2>1, <2>2, TablesFrame
  <2> QED BY <1>2, <2>1, <2>3, TesterFrame
<1>5. CASE Operation
  <2>1. TableTypes' /\ Tables' /\ TablesEvolve
    BY <1>1, <1>5, OperationTables
  <2>2. UNCHANGED <<call, handler, runs, saved>>
    BY <1>5 DEF Operation
  <2> QED BY <1>2, <2>1, <2>2, TesterFrame
<1>6. CASE cleanup
  <2>1. /\ UNCHANGED <<enabled, connections, servers, reliable, call, handler, runs, script,
                       connected, incarnation, saved, attached>>
        /\ done' = TRUE
    BY <1>6 DEF cleanup, Cleanup, tableVars, testerVars
  <2>2. reliable' \in BOOLEAN /\ done' \in BOOLEAN
    BY <1>1, <2>1
  <2>3. TableTypes' /\ Tables' /\ TablesEvolve
    BY <1>1, <2>1, <2>2, TablesFrame
  <2> QED BY <1>2, <2>1, <2>3, TesterFrame
<1>7. CASE StopServing /\ UNCHANGED testerVars
  <2>1. UNCHANGED <<enabled, connections, servers, reliable, done, call, handler, runs, script,
                    connected, incarnation, saved, attached>>
    BY <1>7 DEF StopServing, tableVars, testerVars
  <2>2. reliable' \in BOOLEAN /\ done' \in BOOLEAN
    BY <1>1, <2>1
  <2>3. TableTypes' /\ Tables' /\ TablesEvolve
    BY <1>1, <2>1, <2>2, TablesFrame
  <2> QED BY <1>2, <2>1, <2>3, TesterFrame
<1> QED BY <1>3, <1>4, <1>5, <1>6, <1>7 DEF TesterStep

\* Every step of a call.
LEMMA CallStepInv ==
  ASSUME IInv, Excusing, CallStep
  PROVE  IInv'
<1>1. ASSUME NEW c \in Calls, NEW i \in Server, NEW j \in Server, NEW k \in 1 .. incarnation[i],
             i # j, instanceCall(c, i, k, j)
      PROVE  IInv'
  BY <1>1, InstanceCallInv
<1>2. ASSUME NEW c \in Calls, Process(c), UNCHANGED <<testerVars, ghosts>>
      PROVE  IInv'
  BY <1>2, AcceptInv, CallDoneInv, ReadEndnameInfoInv, DropRequestInv, DispatchInv, TakeReplyInv,
     StopWaitingInv, DrainInv, CheckReplyInv, ReturnInv DEF Process
<1>3. ASSUME NEW c \in Calls, instanceHandle(c), UNCHANGED ghosts
      PROVE  IInv'
  BY <1>3, HandleInv
<1> QED BY <1>1, <1>2, <1>3 DEF CallStep

\* The invariant is inductive.
LEMMA StepInv == IInv /\ [Next]_vars => IInv'
<1> SUFFICES ASSUME IInv, [Next]_vars PROVE IInv'
  OBVIOUS
<1>1. CASE Next
  <2>1. Excusing /\ (CallStep \/ TesterStep)
    BY <1>1 DEF Next, Excusing
  <2> QED BY <2>1, CallStepInv, TesterStepInv
<1>2. CASE UNCHANGED vars
  <2>1. UNCHANGED <<enabled, connections, servers, reliable, done, call, handler, runs, script,
                    connected, incarnation, saved, attached, ghosts, excused>>
    BY <1>2 DEF vars, networkVars, tableVars, testerVars
  <2>2. Types /\ Tables /\ reliable \in BOOLEAN /\ done \in BOOLEAN
    BY DEF IInv, Types, TableTypes
  <2>3. TableTypes' /\ Tables'
    BY <2>1, <2>2, TablesFrame
  <2>4. Types'
    BY <2>1, <2>2, <2>3 DEF Types, CallTypes
  <2>5. Made' = Made
    BY <2>1 DEF Made
  <2>6. ASSUME NEW c \in Calls PROVE Goroutines(c)' /\ Saved(c)' /\ Excuses(c)'
    <3>1. Goroutines(c) /\ Saved(c) /\ Excuses(c)
      BY DEF IInv
    <3>2. target(c)' = target(c) /\ (InFlight(c)' <=> InFlight(c)) /\ (Disturbed(c)' <=> Disturbed(c))
      BY <2>1 DEF target, InFlight, Disturbed
    <3> QED BY <2>1, <2>5, <3>1, <3>2 DEF Goroutines, Saved, Excuses
  <2>7. ASSUME NEW c \in ghosts' PROVE Ghost(c)'
    <3>1. Ghost(c)
      BY <2>1, <2>7 DEF IInv
    <3> QED BY <2>1, <2>5, <3>1 DEF Ghost
  <2> QED BY <2>3, <2>4, <2>6, <2>7 DEF IInv
<1> QED BY <1>1, <1>2

----------------------------------------------------------------------------
(* The theorems.                                                           *)

\* The invariant holds for any servers, calls and number of commands: after
\* every operation of every command, and whatever the calls do meanwhile.
THEOREM InductiveInvariant == Spec => []IInv
BY InitInv, StepInv, PTL DEF Spec

\* ProcessReq: a call returns true only if what its handler did is in the
\* persister that the next instance of the server gets, whatever steps of a
\* crash ran between.
THEOREM RepliesSurvive == Spec => []RepliedIsSaved
<1>1. IInv => RepliedIsSaved
  <2> SUFFICES ASSUME IInv, NEW c \in Calls, call[c].stage \in {"true", "ok"}
               PROVE  c \in saved[connections[call[c].end]]
    BY DEF RepliedIsSaved
  <2>1. Types /\ Goroutines(c) /\ Saved(c)
    BY DEF IInv
  <2>2. call[c].end \in Made
    BY <2>1 DEF Goroutines
  <2>3. connections[call[c].end] = target(c)
    BY <2>1, <2>2, CallFacts
  <2> QED BY <2>1, <2>3 DEF Saved
<1> QED BY <1>1, InductiveInvariant, PTL

\* start1 and crash1: no handler runs for a call that an instance makes after
\* its crash, however often its server is restarted and connected.
THEOREM GhostsAreSilent == Spec => []GhostsDoNotCall
<1>1. IInv => GhostsDoNotCall
  <2> SUFFICES ASSUME IInv, NEW c \in ghosts PROVE runs[c] = 0
    BY DEF GhostsDoNotCall
  <2>1. c \in Calls /\ Ghost(c)
    BY DEF IInv, Types, CallTypes
  <2>2. Goroutines(c)
    BY <2>1 DEF IInv
  <2> QED BY <2>1, <2>2 DEF Ghost, Goroutines
<1> QED BY <1>1, InductiveInvariant, PTL

\* connect, disconnect, crash1 and start1: between commands the two ends
\* between servers are enabled exactly when both are connected.
THEOREM ConnectionsAgree == Spec => []ConnectedIsEnabled
<1>1. IInv => ConnectedIsEnabled
  <2> SUFFICES ASSUME IInv, script = <<>>, NEW i \in Server, NEW j \in Server, i # j
               PROVE  enabled[endname(i, incarnation[i], j)] <=> connected[i] /\ connected[j]
    BY DEF ConnectedIsEnabled
  <2>1. Types /\ Tables
    BY DEF IInv
  <2>2. j \in others(i)
    BY DEF others
  <2> QED BY <2>1, <2>2, Between
<1> QED BY <1>1, InductiveInvariant, PTL

\* Call: it returns false only if the network or the tester disturbed it while
\* it was in flight.
THEOREM FailuresExcused == Spec => []FailureHasCause
<1>1. IInv => FailureHasCause
  BY DEF IInv, Excuses, FailureHasCause
<1> QED BY <1>1, InductiveInvariant, PTL

----------------------------------------------------------------------------
(* The network implements RemoteCall.                                      *)

\* The result that a caller sees of a call.
LEMMA ResultFacts ==
  ASSUME NEW c \in Calls, call[c].stage \in Stages
  PROVE  /\ Results[c] = "none" <=> call[c].stage = "none"
         /\ Results[c] = "ok" <=> call[c].stage = "ok"
         /\ Results[c] = "failed" <=> call[c].stage = "failed"
         /\ Results[c] = "pending" <=> call[c].stage \notin {"none", "ok", "failed"}
BY DEF Results, Returned, Stages

\* The result of one call changes, or of none.
LEMMA ResultsChange ==
  ASSUME NEW c \in Calls, \A d \in Calls : d # c => call'[d] = call[d]
  PROVE  Results' = [Results EXCEPT ![c] = Results'[c]]
<1>1. \A d \in Calls : d # c => Results'[d] = Results[d]
  BY DEF Results, Returned
<1>2. Results = [d \in Calls |-> Results[d]] /\ Results' = [d \in Calls |-> Results'[d]]
  BY DEF Results
<1> HIDE DEF Results
<1> QED BY <1>1, <1>2

\* A step that does not return a call, or make one, is hidden from the callers.
LEMMA ResultsHidden ==
  ASSUME NEW c \in Calls, \A d \in Calls : d # c => call'[d] = call[d],
         call[c].stage \in Stages, call'[c].stage \in Stages,
         call[c].stage \notin {"none", "ok", "failed"},
         call'[c].stage \notin {"none", "ok", "failed"}
  PROVE  Results' = Results
<1>1. Results[c] = "pending" /\ Results'[c] = "pending"
  BY DEF Results, Returned, Stages
<1>2. Results' = [Results EXCEPT ![c] = Results'[c]]
  BY ResultsChange
<1>3. Results = [d \in Calls |-> Results[d]]
  BY DEF Results
<1> HIDE DEF Results
<1> QED BY <1>1, <1>2, <1>3

\* What a step of Process does to one call: it goes on, succeeds or fails.
LEMMA ProcessRefines ==
  ASSUME Types, Types', NEW c \in Calls, Goroutines(c), Process(c)
  PROVE  Abstract!Next \/ UNCHANGED <<Results, runs>>
<1>1. /\ call \in [Calls -> [stage : Stages, end : End \cup {nil}, server : Nat \cup {nil},
                             reliable : BOOLEAN, replyOK : BOOLEAN]]
      /\ call[c].stage \in Stages /\ call'[c].stage \in Stages
  BY DEF Types, CallTypes
<1>2. UNCHANGED runs
  BY DEF Process, Accept, CallDone, ReadEndnameInfo, DropRequest, Dispatch, TakeReply, StopWaiting,
         Drain, CheckReply, Return
<1>3. \A d \in Calls : d # c => call'[d] = call[d]
  BY <1>1 DEF Process, Accept, CallDone, ReadEndnameInfo, DropRequest, Dispatch, TakeReply,
              StopWaiting, Drain, CheckReply, Return, goTo
<1>4. \/ call' = call
      \/ /\ call[c].stage \notin {"none", "ok", "failed"}
         /\ call'[c].stage \notin {"none", "ok", "failed"}
      \/ call[c].stage \in {"select", "false"} /\ call'[c].stage = "failed"
      \/ call[c].stage = "true" /\ call'[c].stage = "ok"
  BY <1>1 DEF Process, Accept, CallDone, ReadEndnameInfo, DropRequest, Dispatch, TakeReply,
              StopWaiting, Drain, CheckReply, Return, goTo
<1>5. CASE call' = call
  BY <1>2, <1>5 DEF Results, Returned
<1>6. CASE /\ call[c].stage \notin {"none", "ok", "failed"}
           /\ call'[c].stage \notin {"none", "ok", "failed"}
  BY <1>1, <1>2, <1>3, <1>6, ResultsHidden
<1>7. CASE call[c].stage \in {"select", "false"} /\ call'[c].stage = "failed"
  <2>1. Results[c] = "pending" /\ Results'[c] = "failed"
    BY <1>1, <1>7 DEF Results, Returned, Stages
  <2>2. Results' = [Results EXCEPT ![c] = "failed"]
    BY <1>3, <2>1, ResultsChange
  <2>3. Abstract!Fail(c)
    BY <1>2, <2>1, <2>2 DEF Abstract!Fail
  <2> QED BY <2>3 DEF Abstract!Next
<1>8. CASE call[c].stage = "true" /\ call'[c].stage = "ok"
  <2>1. Results[c] = "pending" /\ Results'[c] = "ok"
    BY <1>1, <1>8 DEF Results, Returned, Stages
  <2>2. Results' = [Results EXCEPT ![c] = "ok"]
    BY <1>3, <2>1, ResultsChange
  <2>3. runs[c] = 1
    <3>1. call[c].replyOK /\ handler[c] \in {"none", "started", "returned", "ended"}
      BY <1>8 DEF Types, CallTypes, Goroutines
    <3> QED BY <3>1 DEF Goroutines
  <2>4. Abstract!Succeed(c)
    BY <1>2, <2>1, <2>2, <2>3 DEF Abstract!Succeed
  <2> QED BY <2>4 DEF Abstract!Next
<1> QED BY <1>4, <1>5, <1>6, <1>7, <1>8

\* Every step is one of RemoteCall or hidden from the callers.
LEMMA StepRefines == IInv /\ IInv' /\ [Next]_vars => [Abstract!Next]_<<Results, runs>>
<1> SUFFICES ASSUME IInv, IInv', [Next]_vars
             PROVE  Abstract!Next \/ UNCHANGED <<Results, runs>>
  OBVIOUS
<1>1. Types /\ Types' /\ \A c \in Calls : Goroutines(c)
  BY DEF IInv
<1>2. ASSUME NEW c \in Calls, NEW i \in Server, NEW j \in Server, NEW k \in 1 .. incarnation[i],
             instanceCall(c, i, k, j)
      PROVE  Abstract!Next
  <2>1. /\ call[c].stage = "none" /\ UNCHANGED runs
        /\ call' = [call EXCEPT ![c].stage = "select", ![c].end = endname(i, k, j)]
    BY <1>2 DEF instanceCall, Call
  <2>2. call \in [Calls -> [stage : Stages, end : End \cup {nil}, server : Nat \cup {nil},
                            reliable : BOOLEAN, replyOK : BOOLEAN]]
    BY <1>1 DEF Types, CallTypes
  <2>3. call'[c].stage = "select" /\ \A d \in Calls : d # c => call'[d] = call[d]
    BY <2>1, <2>2
  <2>4. Results[c] = "none" /\ Results'[c] = "pending"
    BY <2>1, <2>3 DEF Results, Returned
  <2>5. Results' = [Results EXCEPT ![c] = "pending"]
    BY <2>3, <2>4, ResultsChange
  <2>6. Abstract!Make(c)
    BY <2>1, <2>4, <2>5 DEF Abstract!Make
  <2> QED BY <2>6 DEF Abstract!Next
<1>3. ASSUME NEW c \in Calls, Process(c)
      PROVE  Abstract!Next \/ UNCHANGED <<Results, runs>>
  BY <1>1, <1>3, ProcessRefines
<1>4. ASSUME NEW c \in Calls, instanceHandle(c)
      PROVE  Abstract!Next
  <2>1. handler[c] = "started" /\ call' = call /\ runs' = [runs EXCEPT ![c] = runs[c] + 1]
    BY <1>4 DEF instanceHandle, Handle
  <2>2. runs[c] = 0 /\ call[c].stage \notin {"none", "ok"} /\ call[c].stage \in Stages
    <3>1. handler[c] \notin {"none"} /\ Goroutines(c)
      BY <1>1, <2>1
    <3>2. runs[c] = 0 /\ ~call[c].replyOK
      BY <2>1, <3>1 DEF Goroutines
    <3>3. call[c].stage \notin {"none", "ok"}
      BY <3>1, <3>2 DEF Goroutines
    <3>4. call[c].stage \in Stages
      BY <1>1 DEF Types, CallTypes
    <3> QED BY <3>2, <3>3, <3>4
  <2>3. Results[c] \in {"pending", "failed"}
    BY <2>2, ResultFacts DEF Stages
  <2>4. Results' = Results /\ runs' = [runs EXCEPT ![c] = 1]
    BY <2>1, <2>2 DEF Results, Returned
  <2>5. Abstract!Execute(c)
    BY <2>2, <2>3, <2>4 DEF Abstract!Execute
  <2> QED BY <2>5 DEF Abstract!Next
<1>5. ASSUME UNCHANGED <<call, runs>>
      PROVE  UNCHANGED <<Results, runs>>
  BY <1>5 DEF Results, Returned
<1>6. CASE CallStep
  BY <1>2, <1>3, <1>4, <1>6 DEF CallStep
<1>7. CASE TesterStep
  <2>1. UNCHANGED <<call, runs>>
    BY <1>7 DEF TesterStep, crash1, start1, connect, disconnect, Command, setunreliable, Operation,
                cleanup, Cleanup, StopServing, networkVars
  <2> QED BY <1>5, <2>1
<1>8. CASE UNCHANGED vars
  BY <1>5, <1>8 DEF vars, networkVars
<1> QED BY <1>6, <1>7, <1>8 DEF Next

\* The package comment of labrpc: through all the goroutines of a call, the
\* handler runs at most once, and before the caller sees true.
THEOREM Refinement == Spec => ImplementsRemoteCall
<1>1. Init => Abstract!Init
  <2> SUFFICES ASSUME Init PROVE Abstract!Init
    OBVIOUS
  <2>1. /\ call = [c \in Calls |-> noCall] /\ noCall.stage = "none"
        /\ runs = [c \in Calls |-> 0]
    BY DEF Init, NetworkInit, noCall
  <2>2. \A c \in Calls : call[c].stage = "none"
    BY <2>1
  <2>3. Results = [c \in Calls |-> "none"]
    BY <2>2 DEF Results
  <2> QED BY <2>1, <2>3 DEF Abstract!Init
<1>2. IInv /\ IInv' /\ [Next]_vars => [Abstract!Next]_<<Results, runs>>
  BY StepRefines
<1> QED BY <1>1, <1>2, InductiveInvariant, PTL DEF Spec, ImplementsRemoteCall, Abstract!Spec
==============================================================================
