----------------------------- MODULE OrderedLock -----------------------------
(***************************************************************************)
(* What the mutual-exclusion program promises to its users: one lock,      *)
(* granted in the order of the requests' timestamps.  A new request is     *)
(* later than everything that was granted before it, so no request is ever *)
(* overtaken by one with a larger timestamp.                               *)
(***************************************************************************)
EXTENDS Timestamp

VARIABLES
  waiting,  \* timestamps of the requests not granted yet
  holder,   \* timestamp that holds the lock, or nil
  last      \* timestamp that held it before

Init == waiting = {} /\ holder = nil /\ last = newTimestamp(-1, -1)

\* A process with no request of its own asks for the lock.
Request ==
  \E ts \in waiting' :
    /\ ts \in Timestamp
    /\ \A ts2 \in waiting \cup ({holder} \ {nil}) : ts2.process # ts.process
    /\ Less(last, ts)
    /\ holder # nil => Less(holder, ts)
    /\ waiting' = waiting \cup {ts}
    /\ UNCHANGED <<holder, last>>

\* The first of the waiting requests gets the free lock.
Acquire ==
  /\ holder = nil
  /\ \E ts \in waiting :
       /\ \A ts2 \in waiting \ {ts} : Less(ts, ts2)
       /\ Less(last, ts)
       /\ holder' = ts
       /\ waiting' = waiting \ {ts}
  /\ UNCHANGED last

Release ==
  /\ holder # nil
  /\ last' = holder
  /\ holder' = nil
  /\ UNCHANGED waiting

Next == Request \/ Acquire \/ Release

Spec == Init /\ [][Next]_<<waiting, holder, last>>
=============================================================================
