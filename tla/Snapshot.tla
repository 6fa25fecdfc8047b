------------------------------ MODULE Snapshot ------------------------------
(***************************************************************************)
(* What the engine promises its users, without pages, meta pages or locks: *)
(* committed versions form one sequence; a read transaction sees, for as   *)
(* long as it lasts, the version that was the newest at one moment of its  *)
(* mdb_txn_begin; a commit takes effect at one moment, and when its        *)
(* process dies in the middle, it takes effect later or never; a crash of  *)
(* the machine undoes only commits that were not yet durable.              *)
(***************************************************************************)
EXTENDS Naturals

CONSTANTS
  Readers, MaxVersion,
  NoView      \* no version: no read transaction

VARIABLES
  cur,      \* the newest committed version
  durable,  \* the version the disk is sure to give back
  inDoubt,  \* a commit has been written and has not taken effect
  view      \* what each read transaction sees

vars == <<cur, durable, inDoubt, view>>

Init ==
  /\ cur \in 0..MaxVersion /\ durable = cur /\ inDoubt = FALSE
  /\ view = [r \in Readers |-> NoView]

Begin(r) ==
  /\ view[r] = NoView /\ view' = [view EXCEPT ![r] = cur]
  /\ UNCHANGED <<cur, durable, inDoubt>>

\* The transaction ends, or its process dies; in the latter case several
\* end at once.
End(R) ==
  /\ view' = [r \in Readers |-> IF r \in R THEN NoView ELSE view[r]]
  /\ UNCHANGED <<durable>>

EndOnly(R) == End(R) /\ UNCHANGED <<cur, inDoubt>>

Write ==
  /\ ~inDoubt /\ inDoubt' = TRUE
  /\ UNCHANGED <<cur, durable, view>>

\* The commit takes effect: its process publishes it, or another one finds
\* it after the writer (and perhaps every reader beside it) died.
Commit(R) ==
  /\ inDoubt /\ cur' = cur + 1 /\ inDoubt' = FALSE
  /\ End(R)

Latest == IF inDoubt THEN cur + 1 ELSE cur

Sync ==
  /\ durable' \in durable..Latest
  /\ UNCHANGED <<cur, inDoubt, view>>

Crash ==
  /\ cur' \in durable..Latest /\ durable' = cur' /\ inDoubt' = FALSE
  /\ view' = [r \in Readers |-> NoView]

Next ==
  \/ \E r \in Readers : Begin(r)
  \/ \E R \in SUBSET Readers : EndOnly(R) \/ Commit(R)
  \/ Write \/ Sync \/ Crash

Spec == Init /\ [][Next]_vars
=============================================================================
