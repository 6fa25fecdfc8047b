------------------------------- MODULE MCMvcc -------------------------------
(***************************************************************************)
(* Mvcc on small instances.  The file is new, or holds what its first      *)
(* commit leaves: transaction 1 wrote page 2.  A page that transaction 2   *)
(* frees is recycled by transaction 4 at the earliest, so MaxTxn is 4 or   *)
(* more where recycling matters.                                           *)
(***************************************************************************)
EXTENDS MvccSnapshot, TLC

CONSTANTS p1, p2

\* All readers in one process.
SingleHome == [r \in Readers |-> p1]

\* Reader 1 shares its process with a writer, the others live in p2.
SpreadHome == [r \in Readers |-> IF r = 1 THEN p1 ELSE p2]

NewFile == [s \in Metas |-> EmptyMeta]

UsedFile ==
  [NewFile EXCEPT ![1] =
     [mm_dbs |-> [ver |-> 1, live |-> {2}, freedb |-> NoRecords],
      mm_last_pg |-> 2, mm_txnid |-> 1]]
=============================================================================
