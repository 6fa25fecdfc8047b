------------------------ MODULE MvccRefinementProofs ------------------------
(***************************************************************************)
(* Mvcc implements Snapshot, for every value of the constants.  The first  *)
(* part proves FreshInv, what a reader has copied; with it the abstract    *)
(* view of a reader is just the id in its slot.  The second part maps each *)
(* step of the engine to a step of Snapshot or to a stutter.               *)
(***************************************************************************)
EXTENDS MvccSnapshot, MvccProofs, MvccDurabilityProofs

\* The reader's part of FreshInv, given its phase and slot, what it copied,
\* and the meta page the slot selects.
Fresh(ph, t, ver, pages, next, m) ==
  /\ ph \in {"pinned", "copied"} =>
       m.mm_dbs.ver = t /\ \A q \in m.mm_dbs.live : q <= m.mm_last_pg
  /\ ph = "copied" => ver = t /\ pages = m.mm_dbs.live
  /\ ph = "active" => ver = t /\ \A q \in pages : q < next

\* FreshInv is Fresh of every reader, and no reader stalled on the meta page
\* that is being written.
LEMMA FreshSplit ==
  FreshInv <=>
    /\ \A r \in Readers :
         Fresh(rpc[r], pin[r], rver[r], rlive[r], rnext[r], meta[Slot(pin[r])])
    /\ wph = "dbs" => ~StalledOn(Slot(wtxn))
BY DEF FreshInv, Fresh

\* The same of the state after a step.
LEMMA FreshSplitNext ==
  FreshInv' <=>
    /\ \A r \in Readers :
         Fresh(rpc'[r], pin'[r], rver'[r], rlive'[r], rnext'[r], meta'[Slot(pin'[r])])
    /\ wph' = "dbs" =>
         ~\E r \in Readers : rpc'[r] \in {"pinned", "copied"} /\ Slot(pin'[r]) = Slot(wtxn')
BY DEF FreshInv, Fresh, StalledOn

\* What a step must leave alone to keep FreshInv: the roots and the last
\* page of each meta page, and readers, unless they let go of their version.
LEMMA KeepFresh ==
  ASSUME FreshInv, TypeInv,
         \A s \in Metas : /\ meta'[s].mm_dbs = meta[s].mm_dbs
                          /\ meta'[s].mm_last_pg = meta[s].mm_last_pg,
         \A r \in Readers :
           \/ rpc'[r] \notin {"pinned", "copied", "active"}
           \/ /\ rpc'[r] = rpc[r] /\ pin'[r] = pin[r] /\ rver'[r] = rver[r]
              /\ rlive'[r] = rlive[r] /\ rnext'[r] = rnext[r],
         wph' = "dbs" => wph = "dbs" /\ wtxn' = wtxn
  PROVE  FreshInv'
<1>1. ASSUME NEW r \in Readers
      PROVE  Fresh(rpc'[r], pin'[r], rver'[r], rlive'[r], rnext'[r], meta'[Slot(pin'[r])])
  <2>1. CASE rpc'[r] \notin {"pinned", "copied", "active"}
    BY <2>1 DEF Fresh
  <2>2. CASE /\ rpc'[r] = rpc[r] /\ pin'[r] = pin[r] /\ rver'[r] = rver[r]
             /\ rlive'[r] = rlive[r] /\ rnext'[r] = rnext[r]
    <3>1. pin[r] \in Nat
      BY ConstantFacts DEF TypeInv, TypeOK, ReaderType
    <3>2. /\ meta'[Slot(pin[r])].mm_dbs = meta[Slot(pin[r])].mm_dbs
          /\ meta'[Slot(pin[r])].mm_last_pg = meta[Slot(pin[r])].mm_last_pg
      BY <3>1, SlotFacts
    <3>3. Fresh(rpc[r], pin[r], rver[r], rlive[r], rnext[r], meta[Slot(pin[r])])
      BY FreshSplit
    <3> QED
      BY <2>2, <3>2, <3>3 DEF Fresh
  <2> QED
    BY <2>1, <2>2
<1>2. ASSUME wph' = "dbs"
      PROVE  ~\E r \in Readers : rpc'[r] \in {"pinned", "copied"} /\ Slot(pin'[r]) = Slot(wtxn')
  BY <1>2, FreshSplit DEF StalledOn
<1> QED
  BY <1>1, <1>2, FreshSplitNext

\* The version in mti_txnid, which a reader may pin: the meta page it
\* selects holds it, with all its pages, also while a commit is in doubt.
LEMMA MtiFresh ==
  ASSUME IInv, Up
  PROVE  /\ meta[Slot(mti)].mm_dbs.ver = mti
         /\ \A q \in meta[Slot(mti)].mm_dbs.live : q <= meta[Slot(mti)].mm_last_pg
<1>0. /\ TypeInv /\ MetaInv /\ MtiInv
  BY DEF IInv
<1>7. mti \in Nat
  BY <1>0, ConstantFacts DEF TypeInv, TypeOK, ProcType
<1>1. PICK m \in {New, Old} : meta[Slot(mti)] = m /\ Committed(m) /\ m.mm_txnid = mti
  <2>1. CASE mti = Newest
    BY <1>0, <2>1, MetaFacts DEF MetaInv, Newest, New
  <2>2. CASE mti # Newest
    <3>1. mti + 1 = Newest /\ Committed(Old) /\ Old.mm_txnid + 1 = Newest
      BY <1>0, <2>2 DEF MetaInv, MtiInv, OldKept
    <3>2. Slot(mti) = 1 - NewSlot
      BY <1>0, <1>7, <3>1, MetaFacts, SlotFacts DEF MetaInv, Metas
    <3>3. Old.mm_txnid = mti
      BY <1>0, <1>7, <3>1, MetaFacts, MetaPageFields, ConstantFacts DEF MetaInv
    <3> QED
      BY <3>1, <3>2, <3>3 DEF Old
  <2> QED
    BY <2>1, <2>2
<1> QED
  BY <1>0, <1>1, MetaFacts, MetaPageFields DEF Committed, WholeMeta, MetaInv

\* The steps of a reading thread keep FreshInv: mm_dbs and mm_last_pg, which
\* it reads at two moments, belong together.
LEMMA FreshReader ==
  ASSUME IInv, FreshInv, NEW r \in Readers, ReaderStep(r) PROVE FreshInv'
<1>0. TypeInv
  BY DEF IInv
<1>1. UNCHANGED <<meta, wph, wtxn, mti>> /\ alive[Home[r]]
  BY DEF ReaderStep, ReaderLoad, ReaderStore, ReaderPin, ReaderCopyDbs,
         ReaderCopyLastPg, ReaderEnd, RStep, fileVars, txnVars
<1>2. \A o \in Readers \ {r} :
        /\ rpc'[o] = rpc[o] /\ pin'[o] = pin[o] /\ rver'[o] = rver[o]
        /\ rlive'[o] = rlive[o] /\ rnext'[o] = rnext[o]
  BY <1>0 DEF ReaderStep, ReaderLoad, ReaderStore, ReaderPin, ReaderCopyDbs,
         ReaderCopyLastPg, ReaderEnd, RStep, TypeInv, TypeOK, ReaderType
<1>3. \/ rpc'[r] \notin {"pinned", "copied", "active"}
      \/ /\ rpc'[r] = "pinned" /\ pin'[r] = mti
      \/ /\ rpc[r] = "pinned" /\ rpc'[r] = "copied" /\ pin'[r] = pin[r]
         /\ rver'[r] = meta[Slot(pin[r])].mm_dbs.ver
         /\ rlive'[r] = meta[Slot(pin[r])].mm_dbs.live
      \/ /\ rpc[r] = "copied" /\ rpc'[r] = "active" /\ pin'[r] = pin[r]
         /\ rver'[r] = rver[r] /\ rlive'[r] = rlive[r]
         /\ rnext'[r] = meta[Slot(pin[r])].mm_last_pg + 1
  BY <1>0 DEF ReaderStep, ReaderLoad, ReaderStore, ReaderPin, ReaderCopyDbs,
         ReaderCopyLastPg, ReaderEnd, RStep, TypeInv, TypeOK, ReaderType
<1>4. Up
  BY <1>1, ConstantFacts DEF Up
<1>5. \A o \in Readers :
        Fresh(rpc[o], pin[o], rver[o], rlive[o], rnext[o], meta[Slot(pin[o])])
  BY FreshSplit
<1>6. Fresh(rpc'[r], pin'[r], rver'[r], rlive'[r], rnext'[r], meta'[Slot(pin'[r])])
  <2>1. CASE rpc'[r] \notin {"pinned", "copied", "active"}
    BY <2>1 DEF Fresh
  <2>2. CASE rpc'[r] = "pinned" /\ pin'[r] = mti
    BY <1>1, <1>4, <2>2, MtiFresh DEF Fresh
  <2>3. CASE /\ rpc[r] = "pinned" /\ rpc'[r] = "copied" /\ pin'[r] = pin[r]
             /\ rver'[r] = meta[Slot(pin[r])].mm_dbs.ver
             /\ rlive'[r] = meta[Slot(pin[r])].mm_dbs.live
    BY <1>1, <1>5, <2>3 DEF Fresh
  <2>4. CASE /\ rpc[r] = "copied" /\ rpc'[r] = "active" /\ pin'[r] = pin[r]
             /\ rver'[r] = rver[r] /\ rlive'[r] = rlive[r]
             /\ rnext'[r] = meta[Slot(pin[r])].mm_last_pg + 1
    <3> DEFINE m == meta[Slot(pin[r])]
    <3>1. m.mm_last_pg \in Int /\ m.mm_dbs.live \subseteq Int
      <4>1. pin[r] \in Nat
        BY <1>0, ConstantFacts DEF TypeInv, TypeOK, ReaderType
      <4>2. m \in MetaPage
        BY <1>0, <4>1, SlotFacts DEF TypeInv, TypeOK, FileType
      <4> QED
        BY <4>2, MetaPageFields, ConstantFacts DEF Pages
    <3>2. rver[r] = pin[r] /\ rlive[r] = m.mm_dbs.live /\ \A q \in m.mm_dbs.live : q <= m.mm_last_pg
      BY <1>5, <2>4 DEF Fresh
    <3> HIDE DEF m
    <3>3. \A q \in m.mm_dbs.live : q < m.mm_last_pg + 1
      BY <3>1, <3>2
    <3> QED
      BY <2>4, <3>2, <3>3 DEF Fresh, m
  <2> QED
    BY <1>3, <2>1, <2>2, <2>3, <2>4
\* While a meta page is being filled, mti_txnid names the other one.
<1>7. ASSUME wph' = "dbs"
      PROVE  ~\E o \in Readers :
                rpc'[o] \in {"pinned", "copied"} /\ Slot(pin'[o]) = Slot(wtxn')
  <2>1. /\ mti \in Nat /\ wtxn = mti + 1
    BY <1>1, <1>7, WorkFacts DEF Saved
  <2>2. Slot(mti) # Slot(wtxn)
    BY <2>1, SlotFacts DEF Metas
  <2>3. ~StalledOn(Slot(wtxn))
    BY <1>1, <1>7, FreshSplit
  <2> QED
    BY <1>1, <1>2, <1>3, <2>2, <2>3 DEF StalledOn
<1> QED
  BY <1>1, <1>2, <1>5, <1>6, <1>7, FreshSplitNext

\* The meta page is filled while no reader copies it.
LEMMA FreshFill ==
  ASSUME IInv, FreshInv, NoStall, WriteMetaDbs \/ WriteMetaLastPg PROVE FreshInv'
<1>0. TypeInv
  BY DEF IInv
<1>1. /\ UNCHANGED <<pin, rpc, rver, rlive, rnext, wtxn>>
      /\ wph \in {"synced", "dbs"} /\ wph' \in {"dbs", "last_pg"}
      /\ ~StalledOn(Slot(wtxn))
  BY FreshSplit DEF WriteMetaDbs, WriteMetaLastPg, MetaStep, WStep, lockVars, readerVars
<1>2. \A s \in Metas : s # Slot(wtxn) => meta'[s] = meta[s]
  BY <1>0 DEF WriteMetaDbs, WriteMetaLastPg, TypeInv, TypeOK, FileType
<1>3. ASSUME NEW r \in Readers
      PROVE  Fresh(rpc[r], pin[r], rver[r], rlive[r], rnext[r], meta'[Slot(pin[r])])
  <2>1. Fresh(rpc[r], pin[r], rver[r], rlive[r], rnext[r], meta[Slot(pin[r])])
    BY FreshSplit
  <2>2. CASE rpc[r] \in {"pinned", "copied"}
    <3>1. Slot(pin[r]) \in Metas
      BY <1>0, ConstantFacts, SlotFacts DEF TypeInv, TypeOK, ReaderType
    <3>2. meta'[Slot(pin[r])] = meta[Slot(pin[r])]
      BY <1>1, <1>2, <2>2, <3>1 DEF StalledOn
    <3> QED
      BY <2>1, <3>2
  <2>3. CASE rpc[r] \notin {"pinned", "copied"}
    BY <2>1, <2>3 DEF Fresh
  <2> QED
    BY <2>2, <2>3
<1> QED
  BY <1>1, <1>3, FreshSplitNext DEF StalledOn

\* Every step keeps FreshInv.
LEMMA FreshStep ==
  ASSUME NoStall, IInv, FreshInv, [Next]_vars PROVE FreshInv'
<1>0. TypeInv
  BY DEF IInv
<1>1. CASE UNCHANGED vars
  BY <1>0, <1>1, KeepFresh DEF vars, fileVars, lockVars, readerVars, txnVars
<1>2. ASSUME NEW r \in Readers, ReaderStep(r) PROVE FreshInv'
  BY <1>2, FreshReader
<1>3. ASSUME NEW p \in Procs, ProcStep(p) PROVE FreshInv'
  <2>1. /\ UNCHANGED <<meta, rver, rlive, rnext>> \/ ProcessCrash(p)
        /\ UNCHANGED meta
    BY <1>3 DEF ProcStep, WriterBegin, WriterBeginRecover, WriterPanicRecover, Recover,
                ReaderCheck, EnvSync, ProcessCrash, Close, Open, fileVars, readerVars
  <2>2. \A r \in Readers :
          \/ rpc'[r] \notin {"pinned", "copied", "active"}
          \/ /\ rpc'[r] = rpc[r] /\ pin'[r] = pin[r] /\ rver'[r] = rver[r]
             /\ rlive'[r] = rlive[r] /\ rnext'[r] = rnext[r]
    <3>1. CASE WriterBegin(p) \/ EnvSync(p) \/ Close(p)
      BY <3>1 DEF WriterBegin, EnvSync, Close, lockVars, readerVars
    <3>2. CASE WriterBeginRecover(p) \/ WriterPanicRecover(p) \/ ReaderCheck(p)
      BY <3>2 DEF WriterBeginRecover, WriterPanicRecover, Recover, ReaderCheck,
                  ClearDeadSlots
    <3>3. CASE ProcessCrash(p)
      BY <3>3 DEF ProcessCrash, LoseMemory
    <3>4. CASE Open(p)
      BY <3>4 DEF Open
    <3> QED
      BY <1>3, <3>1, <3>2, <3>3, <3>4 DEF ProcStep
  <2>3. wph' = "dbs" => wph = "dbs" /\ wtxn' = wtxn
    BY <1>3 DEF ProcStep, WriterBegin, WriterBeginRecover, WriterPanicRecover, StartTxn,
                ReaderCheck, EnvSync, ProcessCrash, LoseMemory, ForgetTxn, Close, Open, txnVars
  <2> QED
    BY <1>0, <2>1, <2>2, <2>3, KeepFresh
<1>4. CASE OperationStep
  <2>1. UNCHANGED <<meta, pin, rpc, rver, rlive, rnext, wtxn>>
    BY <1>4 DEF OperationStep, NewPage, AllocFail, ScanBegin, ScanSlot, ScanEnd, PageStep,
                Touch, LoosePage, FreePage, FreeOverflow, DropPage, DirtyPage,
                fileVars, lockVars, readerVars
  <2>2. wph' # "dbs"
    BY <1>4 DEF OperationStep, NewPage, AllocFail, ScanBegin, ScanSlot, ScanEnd, PageStep,
                Touch, LoosePage, FreePage, FreeOverflow, DropPage, DirtyPage, PageAlloc,
                MayAllocate, Operating
  <2> QED
    BY <1>0, <2>1, <2>2, KeepFresh
<1>5. CASE CommitStep
  <2>1. CASE WriteMetaDbs \/ WriteMetaLastPg
    BY <2>1, FreshFill
  <2>2. CASE WriteMetaTxnid
    <3>1. UNCHANGED <<pin, rpc, rver, rlive, rnext>> /\ wph' # "dbs"
      BY <2>2 DEF WriteMetaTxnid, MetaStep, WStep, lockVars, readerVars
    <3>2. \A s \in Metas : /\ meta'[s].mm_dbs = meta[s].mm_dbs
                           /\ meta'[s].mm_last_pg = meta[s].mm_last_pg
      BY <1>0, <2>2 DEF WriteMetaTxnid, TypeInv, TypeOK, FileType, MetaPage
    <3> QED
      BY <1>0, <3>1, <3>2, KeepFresh
  <2>3. CASE FreelistSave \/ PageFlush \/ EnvSync0 \/ SyncMeta \/ Publish
    BY <1>0, <2>3, KeepFresh
       DEF FreelistSave, PageFlush, EnvSync0, SyncMeta, Publish, WStep, fileVars, lockVars,
           readerVars
  <2>4. CASE CommitReturn \/ WriteMetaFail \/ SyncMetaFail
    BY <1>0, <2>4, KeepFresh
       DEF CommitReturn, WriteMetaFail, SyncMetaFail, TxnEnd, ForgetTxn, fileVars, readerVars
  <2> QED
    BY <1>5, <2>1, <2>2, <2>3, <2>4 DEF CommitStep
<1>6. CASE Abort
  BY <1>0, <1>6, KeepFresh DEF Abort, TxnEnd, ForgetTxn, fileVars, readerVars
<1>7. CASE SystemCrash
  <2>1. \A r \in Readers : rpc'[r] \in {"idle", "dead"}
    BY <1>7, ConstantFacts DEF SystemCrash, LoseMemory
  <2>2. wph' = "none"
    BY <1>0, <1>7 DEF SystemCrash, LoseMemory, ForgetTxn, txnVars, TypeInv, TypeOK
  <2> QED
    BY <2>1, <2>2, FreshSplitNext DEF Fresh
<1> QED
  BY <1>1, <1>2, <1>3, <1>4, <1>5, <1>6, <1>7 DEF Next

\* A reader that is not suspended within mdb_txn_renew0 for two commits gets
\* the version its slot names, whole, and reads no page beyond the end it
\* was told.
THEOREM ReadersCopyOneVersion ==
  ASSUME Guarded, NoStall
  PROVE  Spec => []FreshInv
<1>1. Init => IInv /\ FreshInv
  <2>1. Init => FreshInv
    BY DEF Init, FreshInv, NoWriter
  <2> QED
    BY <2>1, InvInit
<1>2. IInv /\ FreshInv /\ [Next]_vars => IInv' /\ FreshInv'
  BY InvNext, FreshStep
<1> QED
  BY <1>1, <1>2, PTL DEF Spec

-----------------------------------------------------------------------------
(***************************************************************************)
(* The refinement.                                                         *)
(***************************************************************************)

\* The refinement mapping of MvccSnapshot, as the invariants simplify it.
Cur == IF Up THEN mti ELSE Newest
Doubt == Up /\ mti # Newest
Seen == [r \in Readers |-> IF Holding(r) THEN pin[r] ELSE NoView]

A == INSTANCE Snapshot WITH
       MaxVersion <- MaxTxn, cur <- Cur, durable <- OnDisk, inDoubt <- Doubt, view <- Seen

\* The two mappings agree: no page of a reader is overwritten or out of its
\* reach, and the disk is never ahead of the map.
LEMMA SameMapping ==
  IInv /\ FreshInv => Views = Seen /\ DurableTxn = OnDisk
<1> SUFFICES ASSUME IInv, FreshInv PROVE Views = Seen /\ DurableTxn = OnDisk
  OBVIOUS
<1>1. ASSUME NEW r \in Readers PROVE Views[r] = Seen[r]
  <2>1. CASE rpc[r] = "active"
    <3>1. rver[r] = pin[r] /\ \A q \in rlive[r] : q < rnext[r]
      BY <2>1 DEF FreshInv
    <3>2. \A q \in rlive[r] : file[q] <= rver[r]
      BY <2>1, <3>1 DEF IInv, ReaderInv, Protected, Safe
    <3> QED
      BY <2>1, <3>1, <3>2 DEF Views, Seen, Holding
  <2>2. CASE rpc[r] \in {"pinned", "copied"}
    BY <2>2 DEF Views, Seen, Holding
  <2>3. CASE rpc[r] \notin {"pinned", "copied", "active"}
    BY <2>3 DEF Views, Seen, Holding
  <2> QED
    BY <2>1, <2>2, <2>3
<1>2. Views = Seen
  BY <1>1 DEF Views, Seen
<1>3. DurableTxn = OnDisk
  <2>1. \A s \in Metas : /\ disk[s].mm_txnid <= meta[s].mm_txnid
                         /\ disk[s].mm_txnid \in Nat /\ meta[s].mm_txnid \in Nat
    BY PickMax DEF IInv, DiskInv, TypeInv, TypeOK, FileType
  <2> QED
    BY <2>1 DEF DurableTxn, OnDisk, PickMeta, Metas
<1> QED
  BY <1>2, <1>3

\* So they do after a step.
LEMMA SameMappingNext ==
  IInv' /\ FreshInv' => Views' = Seen' /\ DurableTxn' = OnDisk'
<1>1. (IInv /\ FreshInv => Views = Seen /\ DurableTxn = OnDisk)'
  BY SameMapping, PTL
<1> QED
  BY <1>1

\* The ids of the mapping; a commit in doubt is one ahead of mti_txnid.
LEMMA MapFacts ==
  ASSUME IInv
  PROVE  /\ Cur \in Nat /\ Newest \in Nat /\ OnDisk \in Nat
         /\ OnDisk <= Newest
         /\ Newest = IF Doubt THEN Cur + 1 ELSE Cur
<1>1. TypeInv /\ MetaInv /\ MtiInv /\ DiskInv
  BY DEF IInv
<1>2. Newest \in Nat /\ mti \in Nat /\ PickMeta(meta).mm_txnid = Newest
  BY <1>1, MetaFacts, ConstantFacts DEF MetaInv, TypeInv, TypeOK, ProcType, Newest
<1>3. OnDisk \in Nat /\ OnDisk <= Newest
  <2>1. /\ meta \in [Metas -> MetaPage] /\ disk \in [Metas -> MetaPage]
        /\ \A s \in Metas : disk[s].mm_txnid <= meta[s].mm_txnid
    BY <1>1 DEF DiskInv, TypeInv, TypeOK, FileType
  <2>2. \A s \in Metas : meta[s].mm_txnid \in Nat /\ meta[s].mm_txnid <= Newest
    BY <1>2, <2>1, PickMax
  <2>3. OnDisk \in Nat /\ \E s \in Metas : OnDisk = disk[s].mm_txnid
    BY <2>1, PickMax DEF OnDisk
  <2> QED
    BY <1>2, <2>1, <2>2, <2>3
<1>4. Newest = IF Doubt THEN Cur + 1 ELSE Cur
  BY <1>1, <1>2 DEF MtiInv, Doubt, Cur
<1>5. Cur \in Nat
  BY <1>2 DEF Cur
<1> QED
  BY <1>2, <1>3, <1>4, <1>5

\* What readers see depends on their phases and slots only.
LEMMA SeenSame ==
  ASSUME \A r \in Readers : /\ Holding(r)' <=> Holding(r)
                            /\ Holding(r) => pin'[r] = pin[r]
  PROVE  Seen' = Seen
<1>1. \A r \in Readers : (IF Holding(r)' THEN pin'[r] ELSE NoView)
                           = (IF Holding(r) THEN pin[r] ELSE NoView)
  OBVIOUS
<1> QED
  BY <1>1 DEF Seen

\* A step that leaves alone the ids of the meta pages, the disk, mti_txnid,
\* the processes and what readers see is a stutter.
LEMMA Stutter ==
  ASSUME \A s \in Metas : meta'[s].mm_txnid = meta[s].mm_txnid,
         UNCHANGED <<disk, mti, alive, Seen>>
  PROVE  UNCHANGED A!vars
<1>1. Newest' = Newest
  BY DEF Newest, New, NewSlot, Metas
<1>2. Up' <=> Up
  BY DEF Up
<1>3. Cur' = Cur /\ (Doubt' <=> Doubt) /\ OnDisk' = OnDisk
  BY <1>1, <1>2 DEF Cur, Doubt, OnDisk
<1> QED
  BY <1>3 DEF A!vars

\* A step that ends the transactions of R and leaves the file alone, and
\* after which mti_txnid is what it was or the newest id, or no process is
\* left: it ends these transactions and nothing else, or a commit that was
\* in doubt takes effect.
LEMMA Ends ==
  ASSUME IInv, Up, UNCHANGED <<meta, disk>>, Up' => mti' \in {mti, Newest},
         NEW R \in SUBSET Readers,
         Seen' = [r \in Readers |-> IF r \in R THEN NoView ELSE Seen[r]]
  PROVE  A!EndOnly(R) \/ A!Commit(R)
<1>1. Newest' = Newest /\ OnDisk' = OnDisk
  BY MetaFrame DEF OnDisk
<1>2. A!End(R)
  BY <1>1 DEF A!End
<1>3. CASE Up' /\ mti' = mti
  <2>1. Cur' = Cur /\ (Doubt' <=> Doubt)
    BY <1>1, <1>3 DEF Cur, Doubt
  <2> QED
    BY <1>2, <2>1 DEF A!EndOnly
<1>4. CASE ~(Up' /\ mti' = mti)
  <2>1. Cur' = Newest /\ ~Doubt'
    BY <1>1, <1>4 DEF Cur, Doubt
  <2>2. CASE Doubt
    BY <1>2, <2>1, <2>2, MapFacts DEF A!Commit
  <2>3. CASE ~Doubt
    <3>1. Cur' = Cur /\ (Doubt' <=> Doubt)
      BY <2>1, <2>3, MapFacts
    <3> QED
      BY <1>2, <3>1 DEF A!EndOnly
  <2> QED
    BY <2>2, <2>3
<1> QED
  BY <1>3, <1>4

\* A step that writes meta pages to the disk.
LEMMA Syncs ==
  ASSUME IInv, IInv', UNCHANGED <<meta, mti, alive, Seen>>,
         \A s \in Metas : disk[s].mm_txnid <= disk'[s].mm_txnid
  PROVE  A!Sync
<1>1. Newest' = Newest
  BY MetaFrame
<1>2. Up' <=> Up
  BY DEF Up
<1>3. Cur' = Cur /\ (Doubt' <=> Doubt) /\ Seen' = Seen
  BY <1>1, <1>2 DEF Cur, Doubt
<1>4. Newest = A!Latest /\ OnDisk \in Nat /\ OnDisk' \in Nat /\ Newest \in Nat
  <2>1. Newest = A!Latest /\ OnDisk \in Nat /\ Newest \in Nat
    BY MapFacts DEF A!Latest
  <2>2. disk' \in [Metas -> MetaPage]
    BY DEF IInv, TypeInv, TypeOK, FileType
  <2>3. OnDisk' \in Nat
    BY <2>2, PickMax DEF OnDisk
  <2> QED
    BY <2>1, <2>3
<1>5. OnDisk <= OnDisk' /\ OnDisk' <= Newest
  <2>1. /\ meta \in [Metas -> MetaPage] /\ disk \in [Metas -> MetaPage]
        /\ disk' \in [Metas -> MetaPage]
        /\ \A s \in Metas : disk'[s].mm_txnid <= meta[s].mm_txnid
        /\ PickMeta(meta).mm_txnid = Newest
    BY MetaFacts DEF IInv, MetaInv, DiskInv, TypeInv, TypeOK, FileType, Newest
  <2>2. /\ \A s \in Metas : meta[s].mm_txnid \in Nat /\ meta[s].mm_txnid <= Newest
        /\ \A s \in Metas : disk'[s].mm_txnid \in Nat /\ disk'[s].mm_txnid <= OnDisk'
        /\ \A s \in Metas : disk[s].mm_txnid \in Nat
        /\ \E s \in Metas : OnDisk = disk[s].mm_txnid
        /\ \E s \in Metas : OnDisk' = disk'[s].mm_txnid
    BY <2>1, PickMax DEF OnDisk
  <2> QED
    BY <1>4, <2>1, <2>2
<1>6. OnDisk' \in OnDisk..A!Latest
  BY <1>4, <1>5
<1> QED
  BY <1>3, <1>6 DEF A!Sync

\* The steps of a reading thread: the transaction begins when mti_txnid is
\* found unchanged, and sees the version that is the newest at that moment.
LEMMA MapReader ==
  ASSUME IInv, NEW r \in Readers, ReaderStep(r)
  PROVE  A!Begin(r) \/ A!EndOnly({r}) \/ A!Commit({r}) \/ UNCHANGED A!vars
<1>0. TypeInv
  BY DEF IInv
<1>1. UNCHANGED <<meta, disk, mti, alive>> /\ alive[Home[r]]
  BY DEF ReaderStep, ReaderLoad, ReaderStore, ReaderPin, ReaderCopyDbs,
         ReaderCopyLastPg, ReaderEnd, RStep, fileVars, procVars
<1>2. \A o \in Readers \ {r} : rpc'[o] = rpc[o] /\ pin'[o] = pin[o]
  BY <1>0 DEF ReaderStep, ReaderLoad, ReaderStore, ReaderPin, ReaderCopyDbs,
         ReaderCopyLastPg, ReaderEnd, RStep, TypeInv, TypeOK, ReaderType
<1>3. \/ rpc[r] = "stored" /\ rpc'[r] = "pinned" /\ pin'[r] = mti
      \/ rpc'[r] = "idle"
      \/ ~Holding(r) /\ ~Holding(r)'
      \/ Holding(r) /\ Holding(r)' /\ pin'[r] = pin[r]
  BY <1>0 DEF ReaderStep, ReaderLoad, ReaderStore, ReaderPin, ReaderCopyDbs,
         ReaderCopyLastPg, ReaderEnd, RStep, Holding, TypeInv, TypeOK, ReaderType
<1>4. Up
  BY <1>1, ConstantFacts DEF Up
<1>5. \A o \in Readers \ {r} : Seen'[o] = Seen[o]
  BY <1>2 DEF Seen, Holding
<1>6. CASE rpc[r] = "stored" /\ rpc'[r] = "pinned" /\ pin'[r] = mti
  <2>1. Seen[r] = NoView /\ Seen'[r] = Cur
    BY <1>4, <1>6 DEF Seen, Holding, Cur
  <2>2. Seen' = [Seen EXCEPT ![r] = Cur]
    BY <1>5, <2>1 DEF Seen
  <2>3. Newest' = Newest /\ OnDisk' = OnDisk
    BY <1>1, MetaFrame DEF OnDisk
  <2>4. Cur' = Cur /\ (Doubt' <=> Doubt)
    BY <1>1, <2>3 DEF Cur, Doubt, Up
  <2> QED
    BY <2>1, <2>2, <2>3, <2>4 DEF A!Begin
<1>7. CASE rpc'[r] = "idle"
  <2>1. Seen'[r] = NoView
    BY <1>7 DEF Seen, Holding
  <2>2. Seen' = [o \in Readers |-> IF o \in {r} THEN NoView ELSE Seen[o]]
    BY <1>5, <2>1 DEF Seen
  <2> QED
    BY <1>1, <1>4, <2>2, Ends
<1>8. CASE \/ ~Holding(r) /\ ~Holding(r)'
           \/ Holding(r) /\ Holding(r)' /\ pin'[r] = pin[r]
  <2>1. Seen' = Seen
    BY <1>2, <1>8, SeenSame DEF Holding
  <2> QED
    BY <1>1, <2>1, Stutter
<1> QED
  BY <1>3, <1>6, <1>7, <1>8

\* The steps of processes: a commit in doubt takes effect when a process
\* finds the writer dead, or when the last process dies or closes.
LEMMA MapProc ==
  ASSUME IInv, IInv', NEW p \in Procs, ProcStep(p)
  PROVE  \/ \E R \in SUBSET Readers : A!EndOnly(R) \/ A!Commit(R)
         \/ A!Sync \/ UNCHANGED A!vars
<1>0. TypeInv /\ MetaInv /\ ReaderInv
  BY DEF IInv
<1>1. /\ UNCHANGED meta
      /\ PickMeta(meta).mm_txnid = Newest
  BY <1>0, MetaFacts DEF MetaInv, Newest, ProcStep, WriterBegin, WriterBeginRecover,
     WriterPanicRecover, Recover, ReaderCheck, EnvSync, ProcessCrash, Close, Open, fileVars
<1>2. CASE WriterBegin(p) \/ ReaderCheck(p)
  <2>1. UNCHANGED <<disk, mti, alive>>
    BY <1>2 DEF WriterBegin, ReaderCheck, fileVars, procVars
  <2>2. Seen' = Seen
    BY <1>2, SeenSame DEF WriterBegin, ReaderCheck, ClearDeadSlots, Holding, readerVars
  <2> QED
    BY <1>1, <2>1, <2>2, Stutter
<1>3. CASE WriterBeginRecover(p) \/ WriterPanicRecover(p)
  <2>1. /\ UNCHANGED <<disk, alive>> /\ mti' = Newest /\ alive[p] /\ ClearDeadSlots
    BY <1>1, <1>3 DEF WriterBeginRecover, WriterPanicRecover, Recover, fileVars, procVars
  <2>2. Seen' = Seen
    BY <2>1, SeenSame DEF ClearDeadSlots, Holding
  <2>3. Up
    BY <2>1 DEF Up
  <2>4. Seen' = [r \in Readers |-> IF r \in {} THEN NoView ELSE Seen[r]]
    BY <2>2 DEF Seen
  <2>5. A!EndOnly({}) \/ A!Commit({})
    BY <1>1, <2>1, <2>3, <2>4, Ends
  <2> QED
    BY <2>5
<1>4. CASE EnvSync(p)
  <2>1. disk' = meta /\ UNCHANGED <<mti, alive, pin, rpc>>
    BY <1>4 DEF EnvSync, lockVars, readerVars, procVars
  <2>2. Seen' = Seen
    BY <2>1, SeenSame DEF Holding
  <2> QED
    BY <1>1, <2>1, <2>2, Syncs DEF IInv, DiskInv
<1>5. CASE ProcessCrash(p)
  <2> DEFINE R == {r \in Readers : Home[r] = p}
  <2>1. /\ UNCHANGED <<disk, mti, pin>> /\ alive[p]
        /\ alive' = [o \in Procs |-> alive[o] /\ o \notin {p}]
        /\ rpc' = [r \in Readers |-> IF Home[r] = p /\ rpc[r] # "idle" THEN "dead" ELSE rpc[r]]
    BY <1>5 DEF ProcessCrash, LoseMemory, fileVars
  <2>2. \A r \in Readers : Seen'[r] = IF r \in R THEN NoView ELSE Seen[r]
    BY <2>1 DEF Seen, Holding
  <2>3. Seen' = [r \in Readers |-> IF r \in R THEN NoView ELSE Seen[r]]
    BY <2>2 DEF Seen
  <2>4. Up
    BY <2>1 DEF Up
  <2> HIDE DEF R
  <2>5. R \in SUBSET Readers
    BY DEF R
  <2>6. A!EndOnly(R) \/ A!Commit(R)
    BY <1>1, <2>1, <2>3, <2>4, <2>5, Ends
  <2> QED
    BY <2>5, <2>6
<1>6. CASE Close(p)
  <2>1. UNCHANGED <<disk, mti, pin, rpc>> /\ alive[p]
    BY <1>6 DEF Close, fileVars, lockVars, readerVars
  <2>2. Seen' = Seen
    BY <2>1, SeenSame DEF Holding
  <2>3. Up
    BY <2>1 DEF Up
  <2>4. Seen' = [r \in Readers |-> IF r \in {} THEN NoView ELSE Seen[r]]
    BY <2>2 DEF Seen
  <2>5. A!EndOnly({}) \/ A!Commit({})
    BY <1>1, <2>1, <2>3, <2>4, Ends
  <2> QED
    BY <2>5
<1>7. CASE Open(p)
  <2>1. /\ UNCHANGED disk /\ alive' = [alive EXCEPT ![p] = TRUE] /\ Newest' = Newest
        /\ IF Up THEN UNCHANGED <<mti, pin, rpc>>
           ELSE mti' = Newest /\ rpc' = [r \in Readers |-> "idle"]
    BY <1>1, <1>7, MetaFrame DEF Open, Up, fileVars
  <2>2. Up'
    BY <1>0, <2>1 DEF Up, TypeInv, TypeOK, ProcType
  <2>3. Seen' = Seen
    <3>1. \A r \in Readers : ~Up => ~Holding(r) /\ ~Holding(r)'
      BY <1>0, <2>1, ConstantFacts DEF ReaderInv, Holding, Up
    <3> QED
      BY <2>1, <3>1, SeenSame DEF Holding
  <2>4. Cur' = Cur /\ (Doubt' <=> Doubt) /\ OnDisk' = OnDisk
    BY <2>1, <2>2 DEF Cur, Doubt, OnDisk
  <2> QED
    BY <2>3, <2>4 DEF A!vars
<1> QED
  BY <1>2, <1>3, <1>4, <1>5, <1>6, <1>7 DEF ProcStep

\* The steps of a commit: it is in doubt from the store of mm_txnid until
\* mti_txnid follows.
LEMMA MapCommit ==
  ASSUME IInv, IInv', CommitStep
  PROVE  A!EndOnly({}) \/ A!Commit({}) \/ A!Write \/ A!Sync \/ UNCHANGED A!vars
<1>0. TypeInv
  BY DEF IInv
<1>1. UNCHANGED <<pin, rpc, alive>>
  BY DEF CommitStep, FreelistSave, PageFlush, EnvSync0, WriteMetaDbs, WriteMetaLastPg,
         WriteMetaTxnid, SyncMeta, Publish, CommitReturn, WriteMetaFail, SyncMetaFail, MetaStep,
         WStep, lockVars, readerVars, procVars
<1>2. Seen' = Seen
  BY <1>1, SeenSame DEF Holding
<1>m. meta \in [Metas -> MetaPage] /\ disk \in [Metas -> MetaPage]
  BY <1>0 DEF TypeInv, TypeOK, FileType
<1>d. \A s \in Metas : /\ disk[s].mm_txnid <= meta[s].mm_txnid
                       /\ disk[s].mm_txnid \in Nat /\ meta[s].mm_txnid \in Nat
  BY <1>m, PickMax DEF IInv, DiskInv
<1>3. CASE WriteMetaDbs \/ WriteMetaLastPg
  <2>1. UNCHANGED <<disk, mti>>
    BY <1>3 DEF WriteMetaDbs, WriteMetaLastPg, MetaStep, lockVars
  <2>2. \A s \in Metas : meta'[s].mm_txnid = meta[s].mm_txnid
    BY <1>0, <1>3, IdTypes DEF WriteMetaDbs, WriteMetaLastPg, MetaPage
  <2> QED
    BY <1>1, <1>2, <2>1, <2>2, Stutter
<1>4. CASE FreelistSave \/ PageFlush \/ CommitReturn \/ WriteMetaFail \/ SyncMetaFail
  <2>1. UNCHANGED <<meta, disk, mti>>
    BY <1>4 DEF FreelistSave, PageFlush, CommitReturn, WriteMetaFail, SyncMetaFail, fileVars,
                lockVars
  <2> QED
    BY <1>1, <1>2, <2>1, Stutter
<1>5. CASE EnvSync0 \/ SyncMeta
  <2>1. /\ UNCHANGED <<meta, mti>>
        /\ \/ disk' = disk \/ disk' = meta
           \/ disk' = [disk EXCEPT ![Slot(wtxn)] = meta[Slot(wtxn)]]
    BY <1>5 DEF EnvSync0, SyncMeta, lockVars
  <2>2. \A s \in Metas : disk'[s] \in {disk[s], meta[s]}
    BY <1>m, <2>1
  <2>3. \A s \in Metas : disk[s].mm_txnid <= disk'[s].mm_txnid
    BY <1>d, <2>2
  <2> QED
    BY <1>1, <1>2, <2>1, <2>3, Syncs
<1>6. CASE WriteMetaTxnid
  <2>1. UNCHANGED <<disk, mti>> /\ wph = "last_pg" /\ wph' = "txnid"
    BY <1>6 DEF WriteMetaTxnid, MetaStep, WStep, lockVars
  <2>2. Up /\ mti = Newest
    BY <2>1, WorkFacts DEF Saved
  <2>3. Up' /\ mti' # Newest'
    BY <1>1, <2>1, <2>2 DEF IInv, MtiInv, InDoubt, Up
  <2>4. Cur' = Cur /\ ~Doubt /\ (Doubt' <=> TRUE) /\ OnDisk' = OnDisk
    BY <2>1, <2>2, <2>3 DEF Cur, Doubt, OnDisk
  <2> QED
    BY <1>2, <2>4 DEF A!Write
<1>7. CASE Publish
  <2>1. UNCHANGED <<meta, disk>> /\ mti' = wtxn /\ wph = "meta_synced"
    BY <1>7 DEF Publish, WStep, fileVars
  <2>2. Up /\ wtxn = Newest
    BY <2>1, WorkFacts DEF IInv, WriterInv, InDoubt
  <2>3. Seen' = [r \in Readers |-> IF r \in {} THEN NoView ELSE Seen[r]]
    BY <1>2 DEF Seen
  <2> QED
    BY <2>1, <2>2, <2>3, Ends
<1> QED
  BY <1>3, <1>4, <1>5, <1>6, <1>7 DEF CommitStep

\* A crash of the machine: every transaction is over, and the newest version
\* is one that the disk had or the map.
LEMMA MapCrash ==
  ASSUME IInv, IInv', SystemCrash PROVE A!Crash
<1>1. /\ meta \in [Metas -> MetaPage] /\ disk \in [Metas -> MetaPage]
      /\ disk' \in [Metas -> MetaPage]
      /\ \A s \in Metas : disk[s].mm_txnid <= meta[s].mm_txnid
      /\ PickMeta(meta).mm_txnid = Newest
  BY MetaFacts DEF IInv, MetaInv, DiskInv, TypeInv, TypeOK, FileType, Newest
<1>2. /\ meta' = disk' /\ disk' \in CrashedMetas
      /\ alive' = [p \in Procs |-> alive[p] /\ p \notin Procs]
      /\ rpc' = [r \in Readers |->
                   IF Home[r] \in Procs /\ rpc[r] # "idle" THEN "dead" ELSE rpc[r]]
  BY DEF SystemCrash, LoseMemory
<1>3. ~Up'
  BY <1>2 DEF Up
<1>4. Seen' = [r \in Readers |-> NoView]
  <2>1. \A r \in Readers : rpc'[r] \in {"idle", "dead"}
    BY <1>2, ConstantFacts
  <2>2. \A r \in Readers : ~Holding(r)'
    BY <2>1 DEF Holding
  <2> QED
    BY <2>2 DEF Seen
<1>5. Cur' = OnDisk' /\ ~Doubt'
  BY <1>2, <1>3 DEF Cur, Doubt, OnDisk, Newest, New, NewSlot, PickMeta
<1>6. OnDisk' \in OnDisk..A!Latest
  <2>1. /\ \A s \in Metas : meta[s].mm_txnid \in Nat /\ meta[s].mm_txnid <= Newest
        /\ \A s \in Metas : disk'[s].mm_txnid \in Nat /\ disk'[s].mm_txnid <= OnDisk'
        /\ \A s \in Metas : disk[s].mm_txnid \in Nat
        /\ \E s \in Metas : OnDisk = disk[s].mm_txnid
        /\ OnDisk' \in Nat /\ \E s \in Metas : OnDisk' = disk'[s].mm_txnid
    BY <1>1, PickMax DEF OnDisk
  <2>2. \A s \in Metas : disk'[s] \in {meta[s], disk[s]}
    BY <1>2 DEF CrashedMetas
  <2>3. Newest = A!Latest /\ OnDisk \in Nat /\ Newest \in Nat
    BY MapFacts DEF A!Latest
  <2>4. OnDisk <= OnDisk' /\ OnDisk' <= Newest
    BY <1>1, <2>1, <2>2, <2>3
  <2> QED
    BY <2>1, <2>3, <2>4
<1> QED
  BY <1>4, <1>5, <1>6 DEF A!Crash

\* Every step of the engine is a step of Snapshot, or none.
LEMMA MapStep ==
  ASSUME IInv, IInv', [Next]_vars PROVE [A!Next]_A!vars
<1>1. CASE UNCHANGED vars
  <2>1. UNCHANGED <<meta, disk, mti, alive, rpc, pin>>
    BY <1>1 DEF vars, fileVars, lockVars, readerVars, procVars
  <2>2. Seen' = Seen
    BY <2>1, SeenSame DEF Holding
  <2> QED
    BY <2>1, <2>2, Stutter
<1>2. CASE \E r \in Readers : ReaderStep(r)
  <2>1. PICK r \in Readers : ReaderStep(r)
    BY <1>2
  <2>2. A!Begin(r) \/ A!EndOnly({r}) \/ A!Commit({r}) \/ UNCHANGED A!vars
    BY <2>1, MapReader
  <2>3. {r} \in SUBSET Readers
    OBVIOUS
  <2> QED
    BY <2>2, <2>3 DEF A!Next
<1>3. CASE \E p \in Procs : ProcStep(p)
  BY <1>3, MapProc DEF A!Next
<1>4. CASE OperationStep \/ Abort
  <2>1. UNCHANGED <<meta, disk, mti, alive, rpc, pin>>
    BY <1>4 DEF OperationStep, NewPage, AllocFail, ScanBegin, ScanSlot, ScanEnd, PageStep,
                Touch, LoosePage, FreePage, FreeOverflow, DropPage, DirtyPage, Abort,
                fileVars, lockVars, readerVars, procVars
  <2>2. Seen' = Seen
    BY <2>1, SeenSame DEF Holding
  <2> QED
    BY <2>1, <2>2, Stutter
<1>5. CASE CommitStep
  <2>1. A!EndOnly({}) \/ A!Commit({}) \/ A!Write \/ A!Sync \/ UNCHANGED A!vars
    BY <1>5, MapCommit
  <2>2. {} \in SUBSET Readers
    OBVIOUS
  <2> QED
    BY <2>1, <2>2 DEF A!Next
<1>6. CASE SystemCrash
  BY <1>6, MapCrash DEF A!Next
<1> QED
  BY <1>1, <1>2, <1>3, <1>4, <1>5, <1>6 DEF Next

\* The engine begins as Snapshot does.
LEMMA MapInit == Init => A!Init
<1> SUFFICES ASSUME Init PROVE A!Init
  OBVIOUS
<1>1. /\ meta = InitMetas /\ disk = InitMetas /\ mti = PickMeta(InitMetas).mm_txnid
      /\ rpc = [r \in Readers |-> "idle"]
  BY DEF Init
<1>2. PickMeta(meta).mm_txnid = Newest
  BY DEF PickMeta, Newest, New, NewSlot
<1>3. Cur = Newest /\ mti = Newest /\ OnDisk = Newest /\ ~Doubt
  BY <1>1, <1>2 DEF Cur, OnDisk, Doubt
<1>4. Cur \in 0..MaxTxn
  BY <1>1, <1>3, InitMetasAssumption, PickMetaType, MetaPageFields
<1>5. Seen = [r \in Readers |-> NoView]
  BY <1>1 DEF Seen, Holding
<1> QED
  BY <1>3, <1>4, <1>5 DEF A!Init

\* Every behaviour of the meta pages, the reader table, the writer mutex and
\* the page allocator is one of Snapshot: readers see committed versions, a
\* commit takes effect at one moment or not at all, and only what was not
\* durable is undone by a crash.  Readers are assumed not to be suspended
\* within mdb_txn_renew0 for two commits.
THEOREM EngineImplementsSnapshot ==
  ASSUME Guarded, NoStall
  PROVE  Spec => ImplementsSnapshot
<1>1. Init => Abstract!Init
  <2> SUFFICES ASSUME Init PROVE Abstract!Init
    OBVIOUS
  <2>1. IInv /\ FreshInv
    BY InvInit DEF Init, FreshInv, NoWriter
  <2>2. Views = Seen /\ DurableTxn = OnDisk
    BY <2>1, SameMapping
  <2> QED
    BY <2>2, MapInit DEF Abstract!Init, A!Init, Cur, Doubt
<1>2. IInv /\ FreshInv /\ IInv' /\ FreshInv' /\ [Next]_vars => [Abstract!Next]_Abstract!vars
  <2> SUFFICES ASSUME IInv, FreshInv, IInv', FreshInv', [Next]_vars
               PROVE  [Abstract!Next]_Abstract!vars
    OBVIOUS
  <2>1. /\ Views = Seen /\ DurableTxn = OnDisk
        /\ Views' = Seen' /\ DurableTxn' = OnDisk'
    BY SameMapping, SameMappingNext
  <2>2. [A!Next]_A!vars
    BY MapStep
  <2> QED
    BY <2>1, <2>2
       DEF Abstract!Next, Abstract!vars, Abstract!Begin, Abstract!End, Abstract!EndOnly,
           Abstract!Commit, Abstract!Write, Abstract!Sync, Abstract!Crash, Abstract!Latest,
           A!Next, A!vars, A!Begin, A!End, A!EndOnly, A!Commit, A!Write, A!Sync, A!Crash,
           A!Latest, Cur, Doubt
<1> QED
  BY <1>1, <1>2, Invariant, ReadersCopyOneVersion, PTL DEF Spec, ImplementsSnapshot, Abstract!Spec
=============================================================================
