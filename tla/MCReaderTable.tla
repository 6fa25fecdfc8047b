---------------------------- MODULE MCReaderTable ----------------------------
(***************************************************************************)
(* ReaderTable on small instances: two processes whose ids are reused, one *)
(* of them with two threads.                                               *)
(***************************************************************************)
EXTENDS ReaderTable, TLC

CONSTANTS p1, p2, t1, t2, t3

Symmetry == Permutations({t1, t2})
TwoProcesses == [t \in Threads |-> IF t = t3 THEN p2 ELSE p1]
=============================================================================
