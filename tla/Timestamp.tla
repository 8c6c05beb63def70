------------------------------ MODULE Timestamp ------------------------------
(***************************************************************************)
(* Timestamps <T:P> of the mutual-exclusion program                        *)
(* (Mutual-Exclusion/code/timestamp.go) and the total order Less that      *)
(* extends the order of the logical clocks to requests of different        *)
(* processes.  A pointer to a timestamp is created once per request, so    *)
(* the pointer and the pair it points to are identified.                   *)
(***************************************************************************)
EXTENDS Integers

CONSTANT nil  \* the nil interface value: no timestamp

Timestamp == [time : Int, process : Int]

ASSUME NilAssumption == nil \notin Timestamp

newTimestamp(time, process) == [time |-> time, process |-> process]

\* (ts *timestamp) Less: by time, ties broken by the process number.
Less(ts, ts2) ==
  IF ts.time = ts2.time THEN ts.process < ts2.process ELSE ts.time < ts2.time

\* (ts *timestamp) IsEqual; the argument may be the nil interface.
IsEqual(ts, tsi) == tsi # nil /\ ts.time = tsi.time /\ ts.process = tsi.process

\* (ts *timestamp) IsBefore: compares with a bare clock value.
IsBefore(ts, t) == ts.time < t
=============================================================================
