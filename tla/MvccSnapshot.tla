---------------------------- MODULE MvccSnapshot ----------------------------
(***************************************************************************)
(* Mvcc implements Snapshot: the refinement mapping.                       *)
(***************************************************************************)
EXTENDS MvccInv

CONSTANT NoView

\* The smallest newest transaction a crash of the machine can leave.
DurableTxn ==
  LET sure(s) == IF disk[s].mm_txnid < meta[s].mm_txnid
                 THEN disk[s].mm_txnid ELSE meta[s].mm_txnid
  IN IF sure(0) < sure(1) THEN sure(1) ELSE sure(0)

\* A reader sees the version its slot names; a page that was overwritten or
\* is out of its reach makes that untrue.
Views ==
  [r \in Readers |->
     CASE rpc[r] \in {"pinned", "copied"} -> pin[r]
       [] rpc[r] = "active" ->
            IF /\ rver[r] = pin[r]
               /\ \A q \in rlive[r] : file[q] <= rver[r] /\ q < rnext[r]
            THEN pin[r] ELSE NoTxn
       [] OTHER -> NoView]

Abstract ==
  INSTANCE Snapshot WITH
    MaxVersion <- MaxTxn,
    cur <- IF Up THEN mti ELSE Newest,
    durable <- DurableTxn,
    inDoubt <- Up /\ mti # Newest,
    view <- Views

\* Snapshot isolation and durability as a whole: every behaviour of the
\* engine's meta pages, reader table and page recycling is one of Snapshot
\* (the claims of mdb_txn_begin and mdb_txn_commit).
ImplementsSnapshot == Abstract!Spec
=============================================================================
