--------------------------- MODULE MvccTypeProofs ---------------------------
(***************************************************************************)
(* Type correctness of Mvcc, for every value of the constants: one lemma   *)
(* per group of actions, one step per action.  TypeInv is TypeOK with the  *)
(* bounds that make it inductive.                                          *)
(***************************************************************************)
EXTENDS MvccInv, TLAPS

\* A transaction id selects a meta page; consecutive ids alternate between them
\* (mdb_env_write_meta: toggle = mt_txnid & 1).
LEMMA SlotFacts ==
  \A t \in Nat : Slot(t) \in Metas /\ Slot(t + 1) = 1 - Slot(t)
BY DEF Slot, Metas

\* What the assumption on the constants says, field by field.
LEMMA ConstantFacts ==
  /\ NReaders \in Nat /\ MaxTxn \in Nat /\ MaxPg \in Nat /\ MaxPg > 2
  /\ MaxCrash \in Nat /\ NoTxn = MaxTxn + 1
  /\ \A r \in Readers : Home[r] \in Procs
  /\ Unlocked \notin Procs /\ OwnerDead \notin Procs /\ Unlocked # OwnerDead
BY ConstantsAssumption DEF NoTxn, Readers

\* The fields of a meta page (MDB_meta) and their ranges.
LEMMA MetaPageFields ==
  ASSUME NEW m \in MetaPage
  PROVE  /\ m.mm_txnid \in 0..MaxTxn /\ m.mm_last_pg \in 1..(MaxPg - 2)
         /\ m.mm_dbs.ver \in 0..MaxTxn /\ m.mm_dbs.live \in SUBSET Pages
         /\ m.mm_dbs.freedb \in [Txns -> SUBSET Pages]
BY DEF MetaPage

\* mdb_env_pick_meta returns one of the two meta pages.
LEMMA PickMetaType ==
  ASSUME NEW m \in [Metas -> MetaPage]
  PROVE  PickMeta(m) \in MetaPage
BY DEF PickMeta, Metas

\* The state of a freshly opened environment (mdb_env_open) is well typed.
LEMMA InitType == Init => TypeInv
<1> SUFFICES ASSUME Init PROVE TypeInv
  OBVIOUS
<1> USE ConstantFacts
<1>1. InitMetas \in [Metas -> MetaPage]
  BY InitMetasAssumption
<1>2. PickMeta(InitMetas).mm_txnid \in 0..MaxTxn
  BY <1>1, PickMetaType, MetaPageFields
<1>3. 0 \in 0..NoTxn
  OBVIOUS
<1>4. FileType
  BY ONLY <1>1, <1>3, Init DEF Init, FileType
<1>5. ReaderType
  BY DEF Init, ReaderType, ReaderPhases
<1>5a. NoRecords \in [Txns -> SUBSET Pages]
  BY DEF NoRecords
<1>6. TxnType
  BY <1>3, <1>5a DEF Init, NoWriter, TxnType, WriterPhases
<1>7. AllocType
  BY DEF Init, NoWriter, AllocType
<1>8. ProcType
  BY <1>2 DEF Init, ProcType
<1>9. TxnBound /\ (wph # "none" <=> wlock \in Procs)
  BY DEF Init, NoWriter, TxnBound
<1>10. HolderAlive
  BY DEF Init, HolderAlive
<1> QED
  BY <1>10, <1>4, <1>5, <1>6, <1>7, <1>8, <1>9 DEF TypeInv, TypeOK

\* Which variables each part of the type invariant is about.
LEMMA TypeFrame ==
  /\ FileType /\ UNCHANGED fileVars => FileType'
  /\ ReaderType /\ UNCHANGED <<pin, readerVars>> => ReaderType'
  /\ TxnType /\ UNCHANGED txnVars => TxnType'
  /\ AllocType /\ UNCHANGED txnVars => AllocType'
  /\ AllocType /\ UNCHANGED <<allocVars, scanVars>> => AllocType'
  /\ ProcType /\ UNCHANGED <<mti, wlock, procVars, ghostVars>> => ProcType'
  /\ TxnBound /\ UNCHANGED txnVars => TxnBound'
  /\ HolderAlive /\ UNCHANGED <<wlock, procVars>> => HolderAlive'
BY DEF HolderAlive, FileType, ReaderType, TxnType, AllocType, ProcType, TxnBound, fileVars,
       lockVars, readerVars, txnVars, allocVars, scanVars, procVars, ghostVars

\* The steps of a reading thread (mdb_txn_renew0, mdb_txn_end) keep the types.
LEMMA TypeReader ==
  ASSUME TypeInv, NEW r \in Readers, ReaderStep(r) PROVE TypeInv'
<1> USE ConstantFacts DEF RStep
<1>0. FileType /\ ReaderType /\ TxnType /\ AllocType /\ ProcType /\ TxnBound
      /\ HolderAlive
  BY DEF TypeInv, TypeOK
<1>1. UNCHANGED <<fileVars, mti, wlock, txnVars, procVars, ghostVars>>
  BY DEF ReaderStep, ReaderLoad, ReaderStore, ReaderPin, ReaderCopyDbs,
         ReaderCopyLastPg, ReaderEnd
<1>2. ReaderType'
  <2> USE <1>0 DEF ReaderType, ReaderPhases
  <2>m. meta[Slot(pin[r])] \in MetaPage
    <3>1. pin[r] \in Nat
      OBVIOUS
    <3> QED
      BY <3>1, SlotFacts DEF FileType
  <2>1. CASE ReaderLoad(r)
    BY <2>1 DEF ReaderLoad, ProcType
  <2>2. CASE ReaderStore(r)
    <3>1. rtxn[r] \in 0..NoTxn
      OBVIOUS
    <3> QED
      BY <3>1, <2>2 DEF ReaderStore
  <2>3. CASE ReaderPin(r)
    BY <2>3 DEF ReaderPin
  <2>4. CASE ReaderCopyDbs(r)
    BY <2>4, <2>m, MetaPageFields DEF ReaderCopyDbs
  <2>5. CASE ReaderCopyLastPg(r)
    <3>0. meta[Slot(pin[r])].mm_last_pg \in 1..(MaxPg - 2)
      BY ONLY <2>m, MetaPageFields
    <3>1. meta[Slot(pin[r])].mm_last_pg + 1 \in 0..MaxPg
      BY ONLY <3>0, ConstantFacts
    <3> QED
      BY <3>1, <2>5 DEF ReaderCopyLastPg
  <2>6. CASE ReaderEnd(r)
    BY <2>6 DEF ReaderEnd
  <2> QED
    BY <2>1, <2>2, <2>3, <2>4, <2>5, <2>6 DEF ReaderStep
<1>3. (wph # "none" <=> wlock \in Procs)'
  BY <1>1 DEF TypeInv, TypeOK, txnVars
<1> QED
  BY <1>0, <1>1, <1>2, <1>3, TypeFrame DEF TypeInv, TypeOK

\* Beginning a write transaction (mdb_txn_renew0) keeps the types.
LEMMA StartTxnType ==
  ASSUME TypeInv, NEW p \in Procs, NEW L \in 0..MaxTxn, StartTxn(p, L),
         wlock \notin Procs
  PROVE  /\ TxnType' /\ AllocType' /\ TxnBound'
         /\ wlock' \in Procs /\ wph' # "none"
<1>1. meta[Slot(L)] \in MetaPage
  <2>1. L \in Nat
    BY ConstantFacts
  <2> QED
    BY <2>1, SlotFacts DEF TypeInv, TypeOK, FileType
<1>2. meta[Slot(L)].mm_last_pg \in 1..(MaxPg - 2)
  BY ONLY <1>1, MetaPageFields
<1>3. meta[Slot(L)].mm_last_pg + 1 \in 2..(MaxPg - 1)
  BY ONLY <1>2, ConstantFacts
<1>4. L + 1 \in 0..NoTxn
  BY ONLY ConstantFacts, L \in 0..MaxTxn
<1>5. TxnType'
  <2>1. live' \in SUBSET Pages /\ freedb' \in [Txns -> SUBSET Pages]
    BY <1>1, MetaPageFields DEF StartTxn
  <2> QED
    BY <2>1, <1>4 DEF StartTxn, TypeInv, TypeOK, TxnType, WriterPhases
<1>6. AllocType'
  BY <1>3 DEF StartTxn, TypeInv, TypeOK, AllocType, scanVars
<1>7. TxnBound'
  BY ConstantFacts DEF StartTxn, TypeInv, TypeOK, TxnBound
<1> QED
  BY <1>5, <1>6, <1>7 DEF StartTxn

\* So does forgetting one (mdb_txn_end).
LEMMA ForgetTxnType ==
  ASSUME TypeInv, ForgetTxn
  PROVE  TxnType' /\ AllocType' /\ TxnBound' /\ wph' = "none"
<1>1. NoRecords \in [Txns -> SUBSET Pages]
  BY DEF NoRecords
<1>2. 0 \in 0..NoTxn /\ 0 \in 0..NReaders /\ 0 \in 0..MaxTxn
      /\ 2 \in 2..(MaxPg - 1)
  BY ConstantFacts
<1>3. TxnType'
  BY ONLY <1>1, <1>2, ForgetTxn DEF ForgetTxn, TxnType, WriterPhases
<1>4. AllocType'
  BY ONLY <1>2, ForgetTxn DEF ForgetTxn, AllocType
<1> QED
  BY <1>3, <1>4 DEF ForgetTxn, TxnBound

\* mdb_reader_check0 leaves a well-typed reader table.
LEMMA ClearDeadType ==
  ASSUME ReaderType, ClearDeadSlots, UNCHANGED <<rtxn, rver, rlive, rnext>>
  PROVE  ReaderType'
<1>1. NoTxn \in 0..NoTxn
  BY ConstantFacts
<1> QED
  BY <1>1 DEF ReaderType, ClearDeadSlots, ReaderPhases


\* The death of processes leaves a well-typed lock region.
LEMMA LoseMemoryType ==
  ASSUME TypeInv, NEW P \in SUBSET Procs, LoseMemory(P), FileType'
  PROVE  TypeInv'
<1> USE ConstantFacts
<1>0. /\ FileType /\ ReaderType /\ TxnType /\ AllocType /\ ProcType /\ TxnBound
      /\ HolderAlive /\ (wph # "none" <=> wlock \in Procs)
  BY DEF TypeInv, TypeOK
<1>1. ReaderType'
  BY <1>0 DEF LoseMemory, ReaderType, ReaderPhases
<1>2. /\ TxnType' /\ AllocType' /\ TxnBound'
      /\ (wph # "none" <=> wlock \in Procs)'
  <2>1. CASE wlock \in P
    BY <2>1, ForgetTxnType DEF LoseMemory
  <2>2. CASE wlock \notin P
    BY <1>0, <2>2, TypeFrame DEF LoseMemory, txnVars
  <2> QED
    BY <2>1, <2>2
<1>3. ProcType'
  BY <1>0 DEF LoseMemory, ProcType
<1>4. HolderAlive'
  BY <1>0 DEF LoseMemory, HolderAlive, ProcType
<1> QED
  BY <1>1, <1>2, <1>3, <1>4 DEF TypeInv, TypeOK

\* The steps of processes (begin, recovery, mdb_reader_check, mdb_env_sync,
\* crash, close, open) keep the types.
LEMMA TypeProc ==
  ASSUME TypeInv, NEW p \in Procs, ProcStep(p) PROVE TypeInv'
<1> USE ConstantFacts, TypeFrame
<1>0. /\ FileType /\ ReaderType /\ TxnType /\ AllocType /\ ProcType /\ TxnBound
      /\ HolderAlive /\ (wph # "none" <=> wlock \in Procs)
  BY DEF TypeInv, TypeOK
<1>m. meta[0] \in MetaPage /\ meta[1] \in MetaPage /\ PickMeta(meta) \in MetaPage
  BY <1>0, PickMetaType DEF FileType, Metas
<1>n. PickMeta(meta).mm_txnid \in 0..MaxTxn
  BY <1>m, MetaPageFields
<1>1. CASE WriterBegin(p)
  <2>1. TxnType' /\ AllocType' /\ TxnBound' /\ wlock' \in Procs /\ wph' # "none"
    BY <1>0, <1>1, StartTxnType DEF WriterBegin, ProcType
  <2>2. FileType' /\ ReaderType'
    BY <1>0, <1>1 DEF WriterBegin, readerVars
  <2>3. ProcType'
    BY <1>0, <1>1, <2>1 DEF WriterBegin, ProcType, procVars, ghostVars
  <2>4. HolderAlive'
    BY <1>1 DEF WriterBegin, StartTxn, procVars, HolderAlive
  <2> QED
    BY <2>1, <2>2, <2>3, <2>4 DEF TypeInv, TypeOK
<1>2. CASE WriterBeginRecover(p)
  <2>1. TxnType' /\ AllocType' /\ TxnBound' /\ wlock' \in Procs /\ wph' # "none"
    BY <1>n, <1>2, StartTxnType DEF WriterBeginRecover, Recover
  <2>2. FileType' /\ ReaderType'
    BY <1>0, <1>2, ClearDeadType DEF WriterBeginRecover, Recover
  <2>3. ProcType'
    BY <1>0, <1>n, <1>2, <2>1
       DEF WriterBeginRecover, Recover, ProcType, procVars, ghostVars
  <2>4. HolderAlive'
    BY <1>2 DEF WriterBeginRecover, Recover, StartTxn, procVars, HolderAlive
  <2> QED
    BY <2>1, <2>2, <2>3, <2>4 DEF TypeInv, TypeOK
<1>3. CASE WriterPanicRecover(p)
  <2>1. TxnType' /\ AllocType' /\ TxnBound' /\ wph' = wph
    BY <1>0, <1>3 DEF WriterPanicRecover, txnVars
  <2>2. FileType' /\ ReaderType'
    BY <1>0, <1>3, ClearDeadType DEF WriterPanicRecover, Recover
  <2>3. ProcType'
    BY <1>0, <1>n, <1>3
       DEF WriterPanicRecover, Recover, ProcType, procVars, ghostVars
  <2>4. (wph # "none" <=> wlock \in Procs)'
    BY <1>0, <1>3, <2>1 DEF WriterPanicRecover, Recover
  <2>5. HolderAlive'
    BY <1>3 DEF WriterPanicRecover, HolderAlive
  <2> QED
    BY <2>1, <2>2, <2>3, <2>4, <2>5 DEF TypeInv, TypeOK
<1>4. CASE ReaderCheck(p)
  <2>1. ReaderType'
    BY <1>0, <1>4, ClearDeadType DEF ReaderCheck
  <2>2. (wph # "none" <=> wlock \in Procs)'
    BY <1>0, <1>4 DEF ReaderCheck, txnVars
  <2> QED
    BY <1>0, <1>4, <2>1, <2>2 DEF ReaderCheck, TypeInv, TypeOK
<1>5. CASE EnvSync(p)
  <2>1. FileType'
    BY <1>0, <1>5 DEF EnvSync, FileType
  <2>2. ReaderType'
    BY <1>0, <1>5 DEF EnvSync, lockVars
  <2>3. ProcType' /\ HolderAlive'
    BY <1>0, <1>5 DEF EnvSync, lockVars
  <2>4. (wph # "none" <=> wlock \in Procs)'
    BY <1>0, <1>5 DEF EnvSync, txnVars, lockVars
  <2> QED
    BY <1>0, <1>5, <2>1, <2>2, <2>3, <2>4 DEF EnvSync, TypeInv, TypeOK
<1>6. CASE ProcessCrash(p)
  <2>1. LoseMemory({p}) /\ FileType'
    BY <1>0, <1>6 DEF ProcessCrash
  <2> QED
    BY <2>1, LoseMemoryType
<1>7. CASE Close(p)
  <2>1. ReaderType'
    BY <1>0, <1>7 DEF Close, lockVars
  <2>2. ProcType'
    BY <1>0, <1>7 DEF Close, lockVars, ProcType, ghostVars
  <2>4. (wph # "none" <=> wlock \in Procs)' /\ HolderAlive'
    BY <1>0, <1>7 DEF Close, txnVars, lockVars, HolderAlive
  <2> QED
    BY <1>0, <1>7, <2>1, <2>2, <2>4 DEF Close, TypeInv, TypeOK
<1>8. CASE Open(p)
  <2>1. ReaderType'
    BY <1>0, <1>8 DEF Open, ReaderType, ReaderPhases
  <2>2. ProcType'
    BY <1>0, <1>8, <1>n DEF Open, ProcType, ghostVars
  <2>3. wlock \in Procs => \E o \in Procs : alive[o]
    BY <1>0 DEF HolderAlive
  <2>4. (wph # "none" <=> wlock \in Procs)' /\ HolderAlive'
    BY <1>0, <1>8, <2>3 DEF Open, txnVars, HolderAlive, ProcType
  <2> QED
    BY <1>0, <1>8, <2>1, <2>2, <2>4 DEF Open, TypeInv, TypeOK
<1> QED
  BY <1>1, <1>2, <1>3, <1>4, <1>5, <1>6, <1>7, <1>8 DEF ProcStep

\* One page allocated by mdb_page_alloc keeps the allocator's state typed.
LEMMA PageAllocType ==
  ASSUME TypeInv, NEW q \in Pages, PageAlloc(q)
  PROVE  /\ nextpg' \in 2..(MaxPg - 1) /\ pglast' \in 0..MaxTxn
         /\ pghead' \in SUBSET Pages /\ loose' \in SUBSET Pages
         /\ wtxn <= MaxTxn /\ wph \in {"open", "scanned"}
<1>0. TxnType /\ AllocType
  BY DEF TypeInv, TypeOK
<1>1. wtxn <= MaxTxn /\ wph \in {"open", "scanned"}
  BY DEF PageAlloc, MayAllocate, Operating
<1>2. CASE AllocLoose(q)
  BY <1>0, <1>1, <1>2 DEF AllocLoose, AllocType
<1>3. CASE AllocHead(q)
  BY <1>0, <1>1, <1>3 DEF AllocHead, AllocType
<1>4. CASE AllocRecord(q)
  <2>1. PICK t \in Txns : pghead' = freedb[t] \ {q} /\ pglast' = t
    BY <1>4 DEF AllocRecord
  <2>2. freedb[t] \in SUBSET Pages /\ t \in 0..MaxTxn
    BY <1>0, ConstantFacts DEF TxnType, Txns
  <2> QED
    BY <1>0, <1>1, <1>4, <2>1, <2>2 DEF AllocRecord, AllocType
<1>5. CASE AllocNew(q)
  BY <1>0, <1>1, <1>5, ConstantFacts DEF AllocNew, AllocType
<1> QED
  BY <1>2, <1>3, <1>4, <1>5 DEF PageAlloc

\* mdb_page_dirty keeps the types.
LEMMA DirtyPageType ==
  ASSUME TypeInv, NEW q \in Pages, PageAlloc(q), DirtyPage(q),
         live' \in SUBSET Pages, freepgs' \in SUBSET Pages
  PROVE  TypeInv'
<1>0. /\ FileType /\ ReaderType /\ TxnType /\ AllocType /\ ProcType /\ TxnBound
      /\ HolderAlive /\ (wph # "none" <=> wlock \in Procs)
  BY DEF TypeInv, TypeOK
<1>1. wtxn \in 0..NoTxn /\ wph \in {"open", "scanned"} /\ wtxn <= MaxTxn
  BY <1>0, PageAllocType DEF TxnType
<1>2. FileType'
  <2>1. file' \in [Pages -> 0..NoTxn]
    BY <1>0, <1>1 DEF DirtyPage, FileType
  <2>2. unsynced' \in SUBSET Pages
    BY <1>0 DEF DirtyPage, FileType
  <2> QED
    BY <1>0, <2>1, <2>2 DEF DirtyPage, FileType
<1>3. TxnType'
  BY <1>0 DEF DirtyPage, TxnType, WriterPhases
<1>4. AllocType'
  BY <1>0, PageAllocType DEF DirtyPage, AllocType, scanVars
<1>5. ReaderType' /\ ProcType' /\ HolderAlive'
  BY <1>0, TypeFrame DEF DirtyPage, lockVars, readerVars, procVars, ghostVars
<1>6. TxnBound' /\ (wph # "none" <=> wlock \in Procs)'
  BY <1>0, <1>1, ConstantFacts DEF DirtyPage, TxnBound, lockVars
<1> QED
  BY <1>2, <1>3, <1>4, <1>5, <1>6 DEF TypeInv, TypeOK

\* A step of the writer on its own pages.
LEMMA TypePage ==
  ASSUME TypeInv, NEW q \in Pages, PageStep(q) PROVE TypeInv'
<1>0. /\ FileType /\ ReaderType /\ TxnType /\ AllocType /\ ProcType /\ TxnBound
      /\ HolderAlive /\ (wph # "none" <=> wlock \in Procs)
  BY DEF TypeInv, TypeOK
<1>1. CASE Touch(q)
  <2>1. PICK n \in Pages :
          /\ PageAlloc(n) /\ DirtyPage(n)
          /\ live' = (live \ {q}) \cup {n} /\ freepgs' = freepgs \cup {q}
    BY <1>1 DEF Touch
  <2>2. live' \in SUBSET Pages /\ freepgs' \in SUBSET Pages
    BY <1>0, <2>1 DEF TxnType
  <2> QED
    BY <2>1, <2>2, DirtyPageType
<1>2. CASE LoosePage(q) \/ FreePage(q) \/ FreeOverflow(q)
  <2>1. DropPage(q)
    BY <1>2 DEF LoosePage, FreePage, FreeOverflow
  <2>2. /\ freepgs' \in SUBSET Pages /\ dirty' \in SUBSET Pages
        /\ loose' \in SUBSET Pages /\ pghead' \in SUBSET Pages
    <3>1. CASE LoosePage(q)
      BY <1>0, <3>1 DEF LoosePage, TxnType, AllocType
    <3>2. CASE FreePage(q)
      BY <1>0, <3>2 DEF FreePage, TxnType, AllocType
    <3>3. CASE FreeOverflow(q)
      BY <1>0, <3>3 DEF FreeOverflow, TxnType, AllocType
    <3> QED
      BY <1>2, <3>1, <3>2, <3>3
  <2>3. TxnType'
    BY <1>0, <2>1, <2>2 DEF DropPage, TxnType
  <2>4. AllocType'
    BY <1>0, <2>1, <2>2 DEF DropPage, AllocType, scanVars
  <2>5. FileType' /\ ReaderType' /\ ProcType' /\ HolderAlive'
    BY <1>0, <2>1, TypeFrame
       DEF DropPage, lockVars, readerVars, procVars, ghostVars
  <2>6. TxnBound' /\ (wph # "none" <=> wlock \in Procs)'
    BY <1>0, <2>1, ConstantFacts DEF DropPage, Operating, TxnBound, lockVars,
       TxnType
  <2> QED
    BY <2>3, <2>4, <2>5, <2>6 DEF TypeInv, TypeOK
<1> QED
  BY <1>1, <1>2 DEF PageStep

\* Operations on the trees and the scan of mdb_find_oldest keep the types.
LEMMA TypeOperation ==
  ASSUME TypeInv, OperationStep PROVE TypeInv'
<1> USE ConstantFacts, TypeFrame
<1>0. /\ FileType /\ ReaderType /\ TxnType /\ AllocType /\ ProcType /\ TxnBound
      /\ HolderAlive /\ (wph # "none" <=> wlock \in Procs)
  BY DEF TypeInv, TypeOK
<1>1. CASE NewPage
  <2>1. PICK n \in Pages : /\ PageAlloc(n) /\ DirtyPage(n)
                           /\ live' = live \cup {n} /\ UNCHANGED freepgs
    BY <1>1 DEF NewPage
  <2>2. live' \in SUBSET Pages /\ freepgs' \in SUBSET Pages
    BY <1>0, <2>1 DEF TxnType
  <2> QED
    BY <2>1, <2>2, DirtyPageType
<1>2. CASE AllocFail
  <2>1. TxnType'
    BY <1>0, <1>2 DEF AllocFail, TxnType
  <2>2. TxnBound' /\ (wph # "none" <=> wlock \in Procs)'
    BY <1>0, <1>2 DEF AllocFail, TxnBound, lockVars
  <2>3. FileType' /\ ReaderType' /\ AllocType' /\ ProcType' /\ HolderAlive'
    BY <1>0, <1>2 DEF AllocFail, lockVars, readerVars, procVars, ghostVars
  <2> QED
    BY <2>1, <2>2, <2>3 DEF TypeInv, TypeOK
<1>3. CASE ScanBegin \/ ScanSlot
  <2>1. TxnType'
    BY <1>0, <1>3 DEF ScanBegin, ScanSlot, TxnType, WriterPhases
  <2>2. AllocType'
    <3>1. CASE ScanBegin
      <4>1. wtxn - 1 \in 0..NoTxn
        BY <1>0, <3>1 DEF ScanBegin, TxnType, TxnBound
      <4> QED
        BY <1>0, <3>1, <4>1 DEF ScanBegin, AllocType, allocVars
    <3>2. CASE ScanSlot
      <4>1. scani \in Readers
        BY <1>0, <3>2 DEF ScanSlot, AllocType, Readers
      <4>2. pin[scani] \in 0..NoTxn
        BY <1>0, <4>1 DEF ReaderType
      <4> QED
        BY <1>0, <3>2, <4>2 DEF ScanSlot, AllocType, allocVars
    <3> QED
      BY <1>3, <3>1, <3>2
  <2>3. TxnBound' /\ (wph # "none" <=> wlock \in Procs)'
    BY <1>0, <1>3 DEF ScanBegin, ScanSlot, TxnBound, lockVars
  <2>4. FileType' /\ ReaderType' /\ ProcType' /\ HolderAlive'
    BY <1>0, <1>3
       DEF ScanBegin, ScanSlot, lockVars, readerVars, procVars, ghostVars
  <2> QED
    BY <2>1, <2>2, <2>3, <2>4 DEF TypeInv, TypeOK
<1>4. CASE ScanEnd
  <2>1. TxnType' /\ AllocType'
    BY <1>0, <1>4 DEF ScanEnd, TxnType, AllocType, WriterPhases, allocVars
  <2>2. TxnBound' /\ (wph # "none" <=> wlock \in Procs)'
    BY <1>0, <1>4 DEF ScanEnd, TxnBound, lockVars
  <2>3. ProcType' /\ HolderAlive'
    BY <1>0, <1>4
       DEF ScanEnd, ProcType, HolderAlive, AllocType, lockVars, ghostVars
  <2>4. FileType' /\ ReaderType'
    BY <1>0, <1>4 DEF ScanEnd, lockVars, readerVars
  <2> QED
    BY <2>1, <2>2, <2>3, <2>4 DEF TypeInv, TypeOK
<1>5. CASE \E q \in Pages : PageStep(q)
  BY <1>5, TypePage
<1> QED
  BY <1>1, <1>2, <1>3, <1>4, <1>5 DEF OperationStep

\* The steps of mdb_txn_commit keep the types, on the error paths too.
LEMMA TypeCommit ==
  ASSUME TypeInv, CommitStep \/ Abort PROVE TypeInv'
<1> USE ConstantFacts, TypeFrame
<1>0. /\ FileType /\ ReaderType /\ TxnType /\ AllocType /\ ProcType /\ TxnBound
      /\ HolderAlive /\ (wph # "none" <=> wlock \in Procs)
  BY DEF TypeInv, TypeOK
\* The steps that end the transaction.
<1>e. ASSUME TxnEnd, FileType', ReaderType', HolderAlive',
             ProcType' PROVE TypeInv'
  <2>1. TxnType' /\ AllocType' /\ TxnBound' /\ wph' = "none"
    BY <1>e, ForgetTxnType DEF TxnEnd
  <2> QED
    BY <1>e, <2>1 DEF TxnEnd, TypeInv, TypeOK
<1>1. CASE Abort
  <2>1. FileType' /\ ReaderType'
    BY <1>0, <1>1 DEF Abort, readerVars
  <2>2. ProcType' /\ HolderAlive'
    BY <1>0, <1>1 DEF Abort, TxnEnd, ProcType, procVars, ghostVars, HolderAlive
  <2> QED
    BY <1>1, <1>e, <2>1, <2>2 DEF Abort
<1>2. CASE CommitReturn
  <2>1. FileType' /\ ReaderType'
    BY <1>0, <1>2 DEF CommitReturn, readerVars
  <2>2. wtxn \in 0..MaxTxn
    BY <1>0, <1>2 DEF CommitReturn, TxnBound, TxnType
  <2>3. ProcType' /\ HolderAlive'
    BY <1>0, <1>2, <2>2 DEF CommitReturn, TxnEnd, ProcType, procVars, HolderAlive
  <2> QED
    BY <1>2, <1>e, <2>1, <2>3 DEF CommitReturn
<1>3. CASE WriteMetaFail \/ SyncMetaFail
  <2>1. FileType' /\ ReaderType'
    BY <1>0, <1>3 DEF WriteMetaFail, SyncMetaFail, readerVars
  <2>2. ProcType' /\ HolderAlive'
    BY <1>0, <1>3
       DEF WriteMetaFail, SyncMetaFail, TxnEnd, ProcType, ghostVars, HolderAlive
  <2> QED
    BY <1>3, <1>e, <2>1, <2>2 DEF WriteMetaFail, SyncMetaFail
\* The steps on the way to the meta page.
<1>w. ASSUME NEW from \in WriterPhases \ {"none"},
             NEW to \in WriterPhases \ {"none", "open", "scan", "scanned"},
             WStep(from, to), wtxn <= MaxTxn, UNCHANGED <<lockVars, readerVars,
             procVars, ghostVars>>, FileType', freedb' \in [Txns -> SUBSET Pages],
             dirty' \in SUBSET dirty, pghead' \in SUBSET pghead,
             loose' \in SUBSET loose
      PROVE TypeInv'
  <2>1. TxnType' /\ AllocType'
    BY <1>0, <1>w DEF WStep, TxnType, AllocType, scanVars
  <2>2. TxnBound' /\ (wph # "none" <=> wlock \in Procs)'
    BY <1>0, <1>w DEF WStep, TxnBound, lockVars, TxnType
  <2>3. ReaderType' /\ ProcType' /\ HolderAlive'
    BY <1>0, <1>w DEF lockVars, readerVars, procVars, ghostVars
  <2> QED
    BY <1>w, <2>1, <2>2, <2>3 DEF TypeInv, TypeOK
<1>4. CASE FreelistSave
  <2>1. wtxn <= MaxTxn
    BY <1>0, <1>4 DEF FreelistSave, TxnBound, TxnType
  <2>2. freedb' \in [Txns -> SUBSET Pages]
    BY <1>0, <1>4 DEF FreelistSave, TxnType, AllocType
  <2>3. WStep("open", "saved") /\ UNCHANGED <<fileVars, lockVars, readerVars,
        procVars, ghostVars>> /\ dirty' \in SUBSET dirty /\ pghead' \in SUBSET pghead
        /\ loose' \in SUBSET loose
    BY <1>4 DEF FreelistSave
  <2> QED
    BY <1>0, <1>w, <2>1, <2>2, <2>3 DEF WriterPhases
<1>5. CASE PageFlush
  <2>1. wtxn <= MaxTxn /\ wtxn \in 0..NoTxn
    BY <1>0, <1>5 DEF PageFlush, WStep, TxnBound, TxnType
  <2>2. FileType'
    BY <1>0, <1>5, <2>1 DEF PageFlush, FileType, TxnType
  <2>3. freedb' \in [Txns -> SUBSET Pages]
    BY <1>0, <1>5 DEF PageFlush, TxnType
  <2>4. WStep("saved", "flushed") /\ UNCHANGED <<lockVars, readerVars, procVars,
        ghostVars>> /\ dirty' \in SUBSET dirty /\ pghead' \in SUBSET pghead
        /\ loose' \in SUBSET loose
    BY <1>5 DEF PageFlush
  <2> QED
    BY <1>w, <2>1, <2>2, <2>3, <2>4 DEF WriterPhases
<1>6. CASE EnvSync0
  <2>1. wtxn <= MaxTxn
    BY <1>0, <1>6 DEF EnvSync0, WStep, TxnBound, TxnType
  <2>2. FileType'
    BY <1>0, <1>6 DEF EnvSync0, FileType
  <2>3. freedb' \in [Txns -> SUBSET Pages]
    BY <1>0, <1>6 DEF EnvSync0, TxnType
  <2>4. WStep("flushed", "synced") /\ UNCHANGED <<lockVars, readerVars, procVars,
        ghostVars>> /\ dirty' \in SUBSET dirty /\ pghead' \in SUBSET pghead
        /\ loose' \in SUBSET loose
    BY <1>6 DEF EnvSync0
  <2> QED
    BY <1>w, <2>1, <2>2, <2>3, <2>4 DEF WriterPhases
<1>b. wph \in {"synced", "dbs", "last_pg", "txnid", "meta_synced"} =>
        wtxn \in 0..MaxTxn /\ Slot(wtxn) \in Metas /\ meta[Slot(wtxn)] \in MetaPage
  <2>1. SUFFICES ASSUME wph \in {"synced", "dbs", "last_pg", "txnid", "meta_synced"}
        PROVE wtxn \in 0..MaxTxn /\ Slot(wtxn) \in Metas /\ meta[Slot(wtxn)] \in MetaPage
    OBVIOUS
  <2>2. wtxn \in 0..MaxTxn
    BY <1>0, <2>1 DEF TxnBound, TxnType
  <2>3. Slot(wtxn) \in Metas
    BY <2>2, SlotFacts
  <2> QED
    BY <1>0, <2>2, <2>3 DEF FileType
<1>7. CASE WriteMetaDbs \/ WriteMetaLastPg \/ WriteMetaTxnid
  <2>1. wtxn \in 0..MaxTxn /\ Slot(wtxn) \in Metas
    BY <1>b, <1>7 DEF WriteMetaDbs, WriteMetaLastPg, WriteMetaTxnid, MetaStep, WStep
  <2>2. meta' \in [Metas -> MetaPage]
    <3> DEFINE m == meta[Slot(wtxn)]
    <3>0. m \in MetaPage
      BY <1>b, <1>7 DEF WriteMetaDbs, WriteMetaLastPg, WriteMetaTxnid, MetaStep, WStep
    <3>1. CASE WriteMetaDbs
      <4>1. NewDbs \in [ver : 0..MaxTxn, live : SUBSET Pages,
                        freedb : [Txns -> SUBSET Pages]]
        BY <1>0, <2>1 DEF NewDbs, TxnType
      <4>2. [m EXCEPT !.mm_dbs = NewDbs] \in MetaPage
        BY <3>0, <4>1 DEF MetaPage
      <4>3. meta' = [meta EXCEPT ![Slot(wtxn)] = [m EXCEPT !.mm_dbs = NewDbs]]
        BY <3>1 DEF WriteMetaDbs
      <4> HIDE DEF m
      <4> QED
        BY ONLY <1>0, <4>2, <4>3 DEF FileType
    <3>2. CASE WriteMetaLastPg
      <4>1. nextpg - 1 \in 1..(MaxPg - 2)
        BY <1>0 DEF AllocType
      <4>2. [m EXCEPT !.mm_last_pg = nextpg - 1] \in MetaPage
        BY <3>0, <4>1 DEF MetaPage
      <4>3. meta' = [meta EXCEPT ![Slot(wtxn)] = [m EXCEPT !.mm_last_pg = nextpg - 1]]
        BY <3>2 DEF WriteMetaLastPg
      <4> HIDE DEF m
      <4> QED
        BY ONLY <1>0, <4>2, <4>3 DEF FileType
    <3>3. CASE WriteMetaTxnid
      <4>2. [m EXCEPT !.mm_txnid = wtxn] \in MetaPage
        BY <3>0, <2>1 DEF MetaPage
      <4>3. meta' = [meta EXCEPT ![Slot(wtxn)] = [m EXCEPT !.mm_txnid = wtxn]]
        BY <3>3 DEF WriteMetaTxnid
      <4> HIDE DEF m
      <4> QED
        BY ONLY <1>0, <4>2, <4>3 DEF FileType
    <3> QED
      BY <1>7, <3>1, <3>2, <3>3
  <2>3. UNCHANGED <<disk, file, unsynced, lockVars, readerVars, freedb, pghead,
                 loose, dirty, procVars, ghostVars>>
    BY <1>7 DEF WriteMetaDbs, WriteMetaLastPg, WriteMetaTxnid, MetaStep
  <2>4. FileType' /\ freedb' \in [Txns -> SUBSET Pages] /\ dirty' \in SUBSET dirty
        /\ pghead' \in SUBSET pghead /\ loose' \in SUBSET loose
    BY <1>0, <2>2, <2>3 DEF FileType, TxnType
  <2>5. PICK from \in {"synced", "dbs", "last_pg"}, to \in {"dbs", "last_pg", "txnid"} :
          WStep(from, to)
    BY <1>7 DEF WriteMetaDbs, WriteMetaLastPg, WriteMetaTxnid, MetaStep
  <2> QED
    BY <1>w, <2>1, <2>3, <2>4, <2>5 DEF WriterPhases
<1>8. CASE SyncMeta
  <2>1. wtxn \in 0..MaxTxn /\ Slot(wtxn) \in Metas /\ meta[Slot(wtxn)] \in MetaPage
    BY <1>b, <1>8 DEF SyncMeta, WStep
  <2>2. disk' \in [Metas -> MetaPage]
    BY <1>0, <1>8, <2>1 DEF SyncMeta, FileType
  <2>3. FileType' /\ freedb' \in [Txns -> SUBSET Pages] /\ dirty' \in SUBSET dirty
        /\ pghead' \in SUBSET pghead /\ loose' \in SUBSET loose
    BY <1>0, <1>8, <2>2 DEF SyncMeta, FileType, TxnType
  <2>4. WStep("txnid", "meta_synced") /\ UNCHANGED <<lockVars, readerVars,
        procVars, ghostVars>>
    BY <1>8 DEF SyncMeta
  <2> QED
    BY <1>w, <2>1, <2>3, <2>4 DEF WriterPhases
<1>9. CASE Publish
  <2>1. wtxn \in 0..MaxTxn
    BY <1>b, <1>9 DEF Publish, WStep
  <2>2. TxnType' /\ AllocType'
    BY <1>0, <1>9 DEF Publish, WStep, TxnType, AllocType, scanVars, WriterPhases
  <2>3. TxnBound' /\ (wph # "none" <=> wlock \in Procs)'
    BY <1>0, <1>9, <2>1 DEF Publish, WStep, TxnBound
  <2>4. ProcType' /\ HolderAlive'
    BY <1>0, <1>9, <2>1 DEF Publish, ProcType, procVars, ghostVars, HolderAlive
  <2>5. FileType' /\ ReaderType'
    BY <1>0, <1>9 DEF Publish, readerVars
  <2> QED
    BY <2>2, <2>3, <2>4, <2>5 DEF TypeInv, TypeOK
<1> QED
  BY <1>1, <1>2, <1>3, <1>4, <1>5, <1>6, <1>7, <1>8, <1>9 DEF CommitStep

\* A crash of the machine keeps the types.
LEMMA TypeSystemCrash ==
  ASSUME TypeInv, SystemCrash PROVE TypeInv'
<1>1. FileType
  BY DEF TypeInv, TypeOK
<1>2. CrashedMetas \subseteq [Metas -> MetaPage]
  BY <1>1 DEF CrashedMetas, FileType, Metas
<1>3. meta' \in [Metas -> MetaPage] /\ disk' \in [Metas -> MetaPage]
  BY <1>2 DEF SystemCrash
<1>4. file' \in [Pages -> 0..NoTxn] /\ unsynced' \in SUBSET Pages
  BY <1>1, ConstantFacts DEF SystemCrash, FileType
<1>5. LoseMemory(Procs) /\ FileType'
  BY <1>3, <1>4 DEF SystemCrash, FileType
<1> QED
  BY <1>5, LoseMemoryType

\* Every step keeps the types.
LEMMA TypeStep == TypeInv /\ [Next]_vars => TypeInv'
<1> SUFFICES ASSUME TypeInv, [Next]_vars PROVE TypeInv'
  OBVIOUS
<1>1. CASE UNCHANGED vars
  BY <1>1 DEF TypeInv, TypeOK, FileType, ReaderType, TxnType, AllocType,
     ProcType, TxnBound, HolderAlive, vars, fileVars, lockVars, readerVars,
     txnVars, allocVars, scanVars, procVars, ghostVars
<1>2. CASE Next
  BY <1>2, TypeReader, TypeProc, TypeOperation, TypeCommit, TypeSystemCrash
     DEF Next
<1> QED
  BY <1>1, <1>2

\* Type correctness, with the two facts it needs to be inductive: how far ids can
\* go in each phase of the write transaction, and that the holder of the writer
\* mutex is alive (mdb_txn_renew0, mdb_txn_end, mdb_mutex_failed).
THEOREM TypeInvariant == Spec => []TypeInv
<1> QED
  BY InitType, TypeStep, PTL DEF Spec

\* Every variable keeps its type, and the writer mutex is held exactly while
\* a write transaction runs, whatever the constants are.
THEOREM TypeCorrect == Spec => []TypeOK
<1>1. TypeInv => TypeOK
  BY DEF TypeInv
<1> QED
  BY <1>1, TypeInvariant, PTL
=============================================================================
