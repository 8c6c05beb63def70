-------------------------- MODULE MCMutualExclusion --------------------------
(***************************************************************************)
(* Instances of MutualExclusion for TLC.                                   *)
(***************************************************************************)
EXTENDS MutualExclusionInv

\* What process p has still to do with the stream: the message it handles
\* and the ones it will not skip.
Unread(p) ==
  LET first == IF listener[p] = "next" THEN seen[p] + 1 ELSE seen[p]
  IN  SelectSeq(SubSeq(prop, first, Len(prop)), LAMBDA m : ~Ignored(p, m))

\* States that differ only in what every process has already read have the
\* same future; timestamps is written and never read.
View == <<[p \in Proc |-> Unread(p)], listener, procVars, wg, requested,
          occupiedBy, lastOccupiedBy, pending, panicked>>
=============================================================================
