------------------------ MODULE MvccDurabilityProofs ------------------------
(***************************************************************************)
(* A commit that returned survives every crash: the invariant DurableInv   *)
(* and the theorem that follows from it.  It does not rest on the          *)
(* invariant of MvccProofs, which a failed msync breaks, but only on ids:  *)
(* the theorem holds for an engine whose commits may fail at any step.     *)
(***************************************************************************)
EXTENDS MvccTypeProofs, MvccInv

\* mdb_env_pick_meta finds the highest id.
LEMMA PickMax ==
  ASSUME NEW m \in [Metas -> MetaPage]
  PROVE  /\ PickMeta(m).mm_txnid \in Nat
         /\ \A s \in Metas : m[s].mm_txnid \in Nat /\ m[s].mm_txnid <= PickMeta(m).mm_txnid
         /\ \E s \in Metas : PickMeta(m).mm_txnid = m[s].mm_txnid
<1>1. \A s \in Metas : m[s].mm_txnid \in Nat
  BY MetaPageFields, ConstantFacts
<1>2. 0 \in Metas /\ 1 \in Metas /\ \A s \in Metas : s = 0 \/ s = 1
  BY DEF Metas
<1> QED
  BY <1>1, <1>2 DEF PickMeta

\* The ids that the invariant speaks of are natural numbers.
LEMMA IdTypes ==
  ASSUME TypeInv
  PROVE  /\ meta \in [Metas -> MetaPage] /\ disk \in [Metas -> MetaPage]
         /\ mti \in Nat /\ wtxn \in Nat /\ acked \in Nat
         /\ wph # "none" => Up
BY ConstantFacts
   DEF TypeInv, TypeOK, FileType, TxnType, ProcType, HolderAlive, Up

\* The phases of a write transaction before its sync.
Early == Building \/ wph \in {"saved", "flushed"}

\* What a step must leave alone to keep the invariant: ids, and the order of
\* the phases.
LEMMA KeepDurable ==
  ASSUME TypeInv, TypeInv', DurableInv,
         \A s \in Metas : meta'[s].mm_txnid = meta[s].mm_txnid,
         UNCHANGED <<disk, mti, acked>>, Up' => Up,
         \/ wph' = "none"
         \/ wph' = "open" /\ wtxn' = mti + 1
         \/ wtxn' = wtxn /\ wph' = wph
         \/ wtxn' = wtxn /\ Early /\ Early'
         \/ wtxn' = wtxn /\ Synced /\ Synced'
  PROVE  DurableInv'
<1>1. /\ meta \in [Metas -> MetaPage] /\ disk \in [Metas -> MetaPage]
      /\ mti \in Nat /\ wtxn \in Nat /\ acked \in Nat
  BY IdTypes
<1>2. mti' = mti /\ acked' = acked /\ disk' = disk /\ OnDisk' = OnDisk
  BY DEF OnDisk
<1>3. \A n \in Nat : Slot(n) \in Metas
  BY SlotFacts
<1>4. IdInv'
  <2>1. /\ InPlace(meta') /\ InPlace(disk')
        /\ \A s \in Metas : disk'[s].mm_txnid <= meta'[s].mm_txnid
    BY <1>2 DEF DurableInv, IdInv, InPlace
  <2>2. Up' => /\ meta'[Slot(mti')].mm_txnid = mti'
               /\ \A s \in Metas : meta'[s].mm_txnid <= mti' + 1
    BY <1>1, <1>2, <1>3 DEF DurableInv, IdInv
  <2>3. Building' \/ Saved' \/ InDoubt' => wtxn' = mti' + 1
    BY <1>2 DEF DurableInv, IdInv, Building, Saved, InDoubt, Early, Synced
  <2>4. InDoubt' \/ wph' = "published" => meta'[Slot(wtxn')].mm_txnid = wtxn'
    BY <1>1, <1>3 DEF DurableInv, IdInv, Building, InDoubt, Early, Synced
  <2>5. wph' = "published" => wtxn' = mti'
    BY <1>2 DEF DurableInv, IdInv, Building, Early, Synced
  <2> QED
    BY <2>1, <2>2, <2>3, <2>4, <2>5 DEF IdInv
<1>5. ~NoSync => OnDisk' >= LastDurable(acked')
  BY <1>2 DEF DurableInv
<1>6. ~NoSync => /\ Synced' \/ wph' = "txnid" => OnDisk' >= wtxn' - 1
                 /\ wph' \in {"meta_synced", "published"} => OnDisk' >= LastDurable(wtxn')
  BY <1>2 DEF DurableInv, Building, Early, Synced
<1> QED
  BY <1>4, <1>5, <1>6 DEF DurableInv, LastDurable

\* A sync of the meta pages brings the newest commit to disk.
LEMMA SyncDurable ==
  ASSUME TypeInv, TypeInv', DurableInv, Up,
         disk' = meta, UNCHANGED <<meta, mti, acked, wtxn, alive>>,
         wph' = wph \/ (wph = "flushed" /\ wph' = "synced")
  PROVE  DurableInv'
<1>1. /\ meta \in [Metas -> MetaPage] /\ disk \in [Metas -> MetaPage]
      /\ mti \in Nat /\ wtxn \in Nat /\ acked \in Nat
  BY IdTypes
<1>2. \A n \in Nat : Slot(n) \in Metas
  BY SlotFacts
<1>3. /\ OnDisk' = PickMeta(meta).mm_txnid /\ OnDisk' \in Nat /\ OnDisk \in Nat
      /\ \A s \in Metas : meta[s].mm_txnid \in Nat /\ meta[s].mm_txnid <= OnDisk'
  BY <1>1, PickMax DEF OnDisk
<1>4. OnDisk <= OnDisk'
  <2>1. PICK s \in Metas : OnDisk = disk[s].mm_txnid
    BY <1>1, PickMax DEF OnDisk
  <2>2. disk[s].mm_txnid <= meta[s].mm_txnid
    BY DEF DurableInv, IdInv
  <2> QED
    BY <1>3, <2>1, <2>2
<1>5. mti <= OnDisk'
  BY <1>1, <1>2, <1>3 DEF DurableInv, IdInv
<1>6. IdInv'
  <2>1. /\ InPlace(meta') /\ InPlace(disk')
        /\ \A s \in Metas : disk'[s].mm_txnid <= meta'[s].mm_txnid
    BY <1>3 DEF DurableInv, IdInv
  <2> QED
    BY <2>1 DEF DurableInv, IdInv, Building, Saved, InDoubt, Up
<1>7. ASSUME ~NoSync PROVE OnDisk' >= LastDurable(acked')
  BY <1>1, <1>3, <1>4, <1>7 DEF DurableInv, LastDurable
<1>8. ASSUME Synced' \/ wph' = "txnid" PROVE OnDisk' >= wtxn' - 1
  <2>1. wtxn = mti + 1
    BY <1>8 DEF DurableInv, IdInv, Synced, Saved, InDoubt
  <2> QED
    BY <1>1, <1>3, <1>5, <2>1
<1>9. ASSUME ~NoSync, wph' \in {"meta_synced", "published"}
      PROVE  OnDisk' >= LastDurable(wtxn')
  BY <1>1, <1>3, <1>4, <1>9 DEF DurableInv, LastDurable
<1> QED
  BY <1>6, <1>7, <1>8, <1>9 DEF DurableInv

\* The meta page gets the id of the transaction: it was smaller, and the
\* other meta page, with the commit before, is on disk.
LEMMA TxnidDurable ==
  ASSUME TypeInv, TypeInv', DurableInv, WriteMetaTxnid PROVE DurableInv'
<1>1. /\ meta \in [Metas -> MetaPage] /\ disk \in [Metas -> MetaPage]
      /\ mti \in Nat /\ wtxn \in Nat /\ acked \in Nat
  BY IdTypes
<1>2. /\ UNCHANGED <<disk, mti, acked, wtxn, alive>> /\ wph = "last_pg" /\ wph' = "txnid"
      /\ meta' = [meta EXCEPT ![Slot(wtxn)].mm_txnid = wtxn]
  BY DEF WriteMetaTxnid, MetaStep, WStep, lockVars, procVars, ghostVars
<1>3. /\ Slot(wtxn) \in Metas /\ Slot(mti) \in Metas /\ Slot(mti) # Slot(wtxn)
      /\ Metas = {Slot(mti), Slot(wtxn)} /\ wtxn = mti + 1 /\ Up
  <2>1. wtxn = mti + 1
    BY <1>2 DEF DurableInv, IdInv, Saved
  <2>2. Slot(mti) \in Metas /\ Slot(wtxn) = 1 - Slot(mti)
    BY <1>1, <2>1, SlotFacts
  <2> QED
    BY <1>2, <2>1, <2>2, IdTypes DEF Metas
<1>4. /\ meta'[Slot(wtxn)].mm_txnid = wtxn
      /\ \A s \in Metas : s # Slot(wtxn) => meta'[s] = meta[s]
  <2> DEFINE o == [meta[Slot(wtxn)] EXCEPT !.mm_txnid = wtxn]
  <2>1. o.mm_txnid = wtxn
    BY <1>1, <1>3 DEF MetaPage
  <2>2. meta' = [meta EXCEPT ![Slot(wtxn)] = o]
    BY <1>2
  <2> HIDE DEF o
  <2> QED
    BY <1>1, <1>3, <2>1, <2>2
<1>5. \A s \in Metas : meta[s].mm_txnid \in Nat /\ disk[s].mm_txnid \in Nat
  BY <1>1, PickMax
<1>6. /\ meta[Slot(mti)].mm_txnid = mti /\ meta[Slot(wtxn)].mm_txnid <= wtxn
      /\ \A s \in Metas : disk[s].mm_txnid <= meta[s].mm_txnid
  BY <1>3 DEF DurableInv, IdInv
<1>7. IdInv'
  <2>1. InPlace(meta') /\ InPlace(disk')
    BY <1>2, <1>3, <1>4 DEF DurableInv, IdInv, InPlace
  <2>2. \A s \in Metas : disk'[s].mm_txnid <= meta'[s].mm_txnid
    BY <1>1, <1>2, <1>3, <1>4, <1>5, <1>6
  <2>3. /\ meta'[Slot(mti')].mm_txnid = mti'
        /\ \A s \in Metas : meta'[s].mm_txnid <= mti' + 1
    BY <1>1, <1>2, <1>3, <1>4, <1>5, <1>6
  <2>4. wtxn' = mti' + 1 /\ meta'[Slot(wtxn')].mm_txnid = wtxn' /\ wph' # "published"
    BY <1>2, <1>3, <1>4
  <2> QED
    BY <2>1, <2>2, <2>3, <2>4 DEF IdInv
<1>8. OnDisk' = OnDisk
  BY <1>2 DEF OnDisk
<1> QED
  BY <1>2, <1>7, <1>8 DEF DurableInv, Synced, LastDurable

\* The meta page is on disk before the commit is published.
LEMMA SyncMetaDurable ==
  ASSUME TypeInv, TypeInv', DurableInv, SyncMeta PROVE DurableInv'
<1>1. /\ meta \in [Metas -> MetaPage] /\ disk \in [Metas -> MetaPage]
      /\ disk' \in [Metas -> MetaPage]
      /\ mti \in Nat /\ wtxn \in Nat /\ acked \in Nat
  BY IdTypes DEF TypeInv, TypeOK, FileType
<1>2. /\ UNCHANGED <<meta, mti, acked, wtxn, alive>>
      /\ wph = "txnid" /\ wph' = "meta_synced"
      /\ disk' = IF NoSync \/ NoMetaSync THEN disk
                 ELSE [disk EXCEPT ![Slot(wtxn)] = meta[Slot(wtxn)]]
  BY DEF SyncMeta, WStep, lockVars, procVars, ghostVars
<1>3. Slot(wtxn) \in Metas /\ meta[Slot(wtxn)].mm_txnid = wtxn
  BY <1>1, <1>2, SlotFacts DEF DurableInv, IdInv, InDoubt
<1>4. \A s \in Metas : /\ disk'[s] = disk[s] \/ (s = Slot(wtxn) /\ disk'[s] = meta[s])
                       /\ disk[s].mm_txnid <= meta[s].mm_txnid
                       /\ meta[s].mm_txnid \in Nat /\ disk[s].mm_txnid \in Nat
  BY <1>1, <1>2, <1>3, PickMax DEF DurableInv, IdInv
<1>5. \A s \in Metas : /\ disk[s].mm_txnid <= disk'[s].mm_txnid
                       /\ disk'[s].mm_txnid <= meta[s].mm_txnid
  BY <1>4
<1>6. /\ OnDisk \in Nat /\ OnDisk' \in Nat
      /\ \A s \in Metas : disk'[s].mm_txnid <= OnDisk' /\ disk'[s].mm_txnid \in Nat
      /\ \E s \in Metas : OnDisk = disk[s].mm_txnid
  BY <1>1, PickMax DEF OnDisk
<1>7. OnDisk <= OnDisk'
  BY <1>4, <1>5, <1>6
<1>8. IdInv'
  <2>1. InPlace(meta') /\ InPlace(disk')
    BY <1>2, <1>4 DEF DurableInv, IdInv, InPlace
  <2> QED
    BY <1>2, <1>5, <2>1 DEF DurableInv, IdInv, Building, Saved, InDoubt, Up
<1>9. ASSUME ~NoSync PROVE OnDisk' >= LastDurable(wtxn)
  <2>1. CASE NoMetaSync
    BY <1>1, <1>2, <1>6, <1>7, <1>9, <2>1 DEF DurableInv, LastDurable
  <2>2. CASE ~NoMetaSync
    <3>1. disk'[Slot(wtxn)].mm_txnid = wtxn
      BY <1>1, <1>2, <1>3, <1>9, <2>2
    <3> QED
      BY <1>3, <1>6, <2>2, <3>1 DEF LastDurable
  <2> QED
    BY <2>1, <2>2
<1>10. ASSUME ~NoSync PROVE OnDisk' >= LastDurable(acked)
  BY <1>1, <1>6, <1>7, <1>10 DEF DurableInv, LastDurable
<1> QED
  BY <1>2, <1>8, <1>9, <1>10 DEF DurableInv, Synced, LastDurable

\* The newest meta page is where its id says.
LEMMA PickPlace ==
  ASSUME NEW m \in [Metas -> MetaPage], InPlace(m), NEW n, n = PickMeta(m).mm_txnid
  PROVE  /\ n \in Nat /\ Slot(n) \in Metas /\ m[Slot(n)].mm_txnid = n
         /\ \A s \in Metas : m[s].mm_txnid <= n + 1
<1>1. /\ n \in Nat /\ \A s \in Metas : m[s].mm_txnid \in Nat /\ m[s].mm_txnid <= n
  BY PickMax
<1>2. Slot(n) \in Metas /\ Slot(0) \in Metas
  BY <1>1, SlotFacts
<1>3. PICK s \in Metas : n = m[s].mm_txnid
  BY PickMax
<1>4. m[Slot(n)].mm_txnid = n
  BY <1>1, <1>2, <1>3 DEF InPlace
<1> QED
  BY <1>1, <1>2, <1>4

\* mti_txnid follows a meta page that is in its place and on disk.
LEMMA PublishDurable ==
  ASSUME TypeInv, TypeInv', DurableInv, Publish PROVE DurableInv'
<1>1. /\ meta \in [Metas -> MetaPage] /\ mti \in Nat /\ wtxn \in Nat
  BY IdTypes
<1>2. /\ UNCHANGED <<meta, disk, acked, wtxn, alive>> /\ mti' = wtxn
      /\ wph = "meta_synced" /\ wph' = "published"
  BY DEF Publish, WStep, fileVars, procVars, ghostVars
<1>3. wtxn = mti + 1 /\ meta[Slot(wtxn)].mm_txnid = wtxn /\ Up
  BY <1>2, IdTypes DEF DurableInv, IdInv, InDoubt
<1>4. \A s \in Metas : meta[s].mm_txnid <= wtxn + 1
  <2>1. \A s \in Metas : meta[s].mm_txnid <= wtxn /\ meta[s].mm_txnid \in Nat
    BY <1>1, <1>3, PickMax DEF DurableInv, IdInv
  <2> QED
    BY <1>1, <2>1
<1>5. IdInv'
  BY <1>2, <1>3, <1>4 DEF DurableInv, IdInv, Building, Saved, InDoubt
<1>6. OnDisk' = OnDisk
  BY <1>2 DEF OnDisk
<1> QED
  BY <1>2, <1>5, <1>6 DEF DurableInv, Synced, LastDurable

\* The commit returns.
LEMMA ReturnDurable ==
  ASSUME TypeInv, TypeInv', DurableInv, CommitReturn PROVE DurableInv'
<1>1. /\ UNCHANGED <<meta, disk, mti, alive>> /\ wph = "published" /\ wph' = "none"
      /\ acked' = wtxn
  BY DEF CommitReturn, TxnEnd, ForgetTxn, fileVars, procVars
<1>2. IdInv'
  BY <1>1 DEF DurableInv, IdInv, Building, Saved, InDoubt, Up
<1>3. OnDisk' = OnDisk
  BY <1>1 DEF OnDisk
<1> QED
  BY <1>1, <1>2, <1>3 DEF DurableInv, Synced, LastDurable

\* mti_txnid is set from the meta pages: after the death of a writer, or by
\* the first process that opens the environment.
LEMMA SetMtiDurable ==
  ASSUME TypeInv, TypeInv', DurableInv, UNCHANGED <<meta, disk, acked>>,
         mti' = PickMeta(meta).mm_txnid,
         wph' = "none" \/ (wph' = "open" /\ wtxn' = mti' + 1)
  PROVE  DurableInv'
<1>1. meta \in [Metas -> MetaPage] /\ InPlace(meta)
  BY IdTypes DEF DurableInv, IdInv
<1>2. meta[Slot(mti')].mm_txnid = mti' /\ \A s \in Metas : meta[s].mm_txnid <= mti' + 1
  BY <1>1, PickPlace
<1>3. IdInv'
  BY <1>2 DEF DurableInv, IdInv, Building, Saved, InDoubt
<1>4. OnDisk' = OnDisk
  BY DEF OnDisk
<1> QED
  BY <1>3, <1>4 DEF DurableInv, Synced, LastDurable

\* What is on disk survives a crash of the machine.
LEMMA CrashDurable ==
  ASSUME TypeInv, TypeInv', DurableInv, SystemCrash PROVE DurableInv'
<1>1. /\ meta \in [Metas -> MetaPage] /\ disk \in [Metas -> MetaPage]
      /\ disk' \in [Metas -> MetaPage]
  BY IdTypes DEF TypeInv, TypeOK, FileType
<1>2. /\ acked' = acked /\ meta' = disk' /\ disk' \in CrashedMetas
      /\ alive' = [p \in Procs |-> alive[p] /\ p \notin Procs]
      /\ IF wlock \in Procs THEN ForgetTxn ELSE UNCHANGED txnVars
  BY DEF SystemCrash, LoseMemory
<1>3. ~Up'
  BY <1>2 DEF Up
<1>4. wph' = "none"
  BY <1>2 DEF ForgetTxn, txnVars, TypeInv, TypeOK
<1>5. \A s \in Metas : disk'[s] \in {meta[s], disk[s]}
  BY <1>2 DEF CrashedMetas
<1>6. /\ InPlace(disk')
      /\ \A s \in Metas : disk[s].mm_txnid \in Nat /\ meta[s].mm_txnid \in Nat
                          /\ disk[s].mm_txnid <= disk'[s].mm_txnid
  BY <1>1, <1>5, PickMax DEF DurableInv, IdInv, InPlace
<1>7. /\ OnDisk \in Nat /\ OnDisk' \in Nat
      /\ \A s \in Metas : disk'[s].mm_txnid <= OnDisk' /\ disk'[s].mm_txnid \in Nat
      /\ \E s \in Metas : OnDisk = disk[s].mm_txnid
  BY <1>1, PickMax DEF OnDisk
<1>8. OnDisk <= OnDisk'
  BY <1>6, <1>7
<1>9. IdInv'
  <2>1. \A s \in Metas : disk'[s].mm_txnid <= meta'[s].mm_txnid
    BY <1>2, <1>7
  <2> QED
    BY <1>2, <1>3, <1>4, <1>6, <2>1 DEF IdInv, Building, Saved, InDoubt
<1>10. ASSUME ~NoSync PROVE OnDisk' >= LastDurable(acked')
  BY <1>2, <1>7, <1>8, <1>10, IdTypes DEF DurableInv, LastDurable
<1> QED
  BY <1>4, <1>9, <1>10 DEF DurableInv, Synced

\* The file is in sync when it is first opened.
LEMMA InitDurable == Init => DurableInv
<1> SUFFICES ASSUME Init PROVE DurableInv
  OBVIOUS
<1>1. TypeInv /\ meta = InitMetas /\ disk = InitMetas /\ mti = PickMeta(InitMetas).mm_txnid
      /\ acked = mti /\ wph = "none"
  BY InitType DEF Init, NoWriter
<1>2. meta \in [Metas -> MetaPage] /\ InPlace(meta)
  BY <1>1, IdTypes, InitMetasAssumption DEF InPlace
<1>3. /\ mti \in Nat /\ meta[Slot(mti)].mm_txnid = mti
      /\ \A s \in Metas : meta[s].mm_txnid <= mti + 1 /\ meta[s].mm_txnid \in Nat
  BY <1>1, <1>2, PickPlace, PickMax
<1>4. IdInv
  BY <1>1, <1>2, <1>3 DEF IdInv, Building, Saved, InDoubt
<1> QED
  BY <1>1, <1>3, <1>4 DEF DurableInv, OnDisk, LastDurable, Synced

\* Every step keeps the invariant.
LEMMA StepDurable == TypeInv /\ DurableInv /\ [Next]_vars => DurableInv'
<1> SUFFICES ASSUME TypeInv, DurableInv, [Next]_vars PROVE DurableInv'
  OBVIOUS
<1>t. TypeInv'
  BY TypeStep
<1>0. wph \in WriterPhases /\ (wph # "none" <=> wlock \in Procs)
  BY DEF TypeInv, TypeOK, TxnType
<1>1. CASE UNCHANGED vars
  BY <1>t, <1>1, KeepDurable
     DEF vars, fileVars, lockVars, txnVars, procVars, ghostVars, Up
<1>2. ASSUME NEW r \in Readers, ReaderStep(r) PROVE DurableInv'
  <2>1. UNCHANGED <<meta, disk, mti, acked, wph, wtxn, alive>>
    BY <1>2 DEF ReaderStep, ReaderLoad, ReaderStore, ReaderPin, ReaderCopyDbs,
                ReaderCopyLastPg, ReaderEnd, RStep, fileVars, txnVars, procVars, ghostVars
  <2> QED
    BY <1>t, <2>1, KeepDurable DEF Up
<1>3. ASSUME NEW p \in Procs, ProcStep(p) PROVE DurableInv'
  <2>1. CASE WriterBegin(p)
    <3>1. /\ UNCHANGED <<meta, disk, mti, acked, alive>>
          /\ wph' = "open" /\ wtxn' = mti + 1
      BY <2>1 DEF WriterBegin, StartTxn, fileVars, procVars, ghostVars
    <3> QED
      BY <1>t, <3>1, KeepDurable DEF Up
  <2>2. CASE WriterBeginRecover(p)
    <3>1. /\ UNCHANGED <<meta, disk, acked>> /\ mti' = PickMeta(meta).mm_txnid
          /\ wph' = "open" /\ wtxn' = mti' + 1
      BY <2>2 DEF WriterBeginRecover, Recover, StartTxn, fileVars, ghostVars
    <3> QED
      BY <1>t, <3>1, SetMtiDurable
  <2>3. CASE WriterPanicRecover(p)
    <3>1. /\ UNCHANGED <<meta, disk, acked, wph>> /\ mti' = PickMeta(meta).mm_txnid
          /\ wlock = OwnerDead
      BY <2>3 DEF WriterPanicRecover, Recover, fileVars, txnVars, ghostVars
    <3>2. wph' = "none"
      BY <1>0, <3>1, ConstantFacts
    <3> QED
      BY <1>t, <3>1, <3>2, SetMtiDurable
  <2>4. CASE ReaderCheck(p)
    BY <1>t, <2>4, KeepDurable
       DEF ReaderCheck, fileVars, txnVars, procVars, ghostVars, Up
  <2>5. CASE EnvSync(p)
    <3>1. /\ disk' = meta /\ UNCHANGED <<meta, mti, acked, wtxn, alive, wph>> /\ Up
      BY <2>5 DEF EnvSync, lockVars, txnVars, procVars, ghostVars, Up
    <3> QED
      BY <1>t, <3>1, SyncDurable
  <2>6. CASE ProcessCrash(p)
    <3>1. /\ UNCHANGED <<meta, disk, mti, acked>>
          /\ alive' = [o \in Procs |-> alive[o] /\ o \notin {p}]
          /\ wph' = "none" \/ UNCHANGED <<wph, wtxn>>
      BY <2>6 DEF ProcessCrash, LoseMemory, ForgetTxn, fileVars, txnVars
    <3>2. Up' => Up
      BY <3>1 DEF Up
    <3> QED
      BY <1>t, <3>1, <3>2, KeepDurable
  <2>7. CASE Close(p)
    <3>1. /\ UNCHANGED <<meta, disk, mti, acked, wph, wtxn>>
          /\ alive' = [alive EXCEPT ![p] = FALSE]
      BY <2>7 DEF Close, fileVars, lockVars, txnVars, ghostVars
    <3>2. Up' => Up
      BY <3>1 DEF Up, TypeInv, TypeOK, ProcType
    <3> QED
      BY <1>t, <3>1, <3>2, KeepDurable
  <2>8. CASE Open(p)
    <3>1. /\ UNCHANGED <<meta, disk, acked, wph, wtxn>>
          /\ IF Up THEN mti' = mti ELSE mti' = PickMeta(meta).mm_txnid
      BY <2>8 DEF Open, fileVars, txnVars, ghostVars, Up
    <3>2. CASE Up
      BY <1>t, <3>1, <3>2, KeepDurable
    <3>3. CASE ~Up
      BY <1>t, <3>1, <3>3, IdTypes, SetMtiDurable
    <3> QED
      BY <3>2, <3>3
  <2> QED
    BY <1>3, <2>1, <2>2, <2>3, <2>4, <2>5, <2>6, <2>7, <2>8 DEF ProcStep
<1>4. CASE OperationStep
  <2>1. UNCHANGED <<meta, disk, mti, acked, wtxn, alive>>
    BY <1>4 DEF OperationStep, NewPage, AllocFail, ScanBegin, ScanSlot, ScanEnd, PageStep,
                Touch, LoosePage, FreePage, FreeOverflow, DropPage, DirtyPage,
                fileVars, lockVars, procVars, ghostVars
  <2>2. Building /\ Building'
    BY <1>4 DEF OperationStep, NewPage, AllocFail, ScanBegin, ScanSlot, ScanEnd, PageStep,
                Touch, LoosePage, FreePage, FreeOverflow, DropPage, DirtyPage, PageAlloc,
                MayAllocate, Operating, Building
  <2> QED
    BY <1>t, <2>1, <2>2, KeepDurable DEF Up, Early
<1>5. CASE CommitStep
  <2>1. CASE FreelistSave \/ PageFlush
    <3>1. UNCHANGED <<meta, disk, mti, acked, wtxn, alive>>
      BY <2>1 DEF FreelistSave, PageFlush, WStep, fileVars, lockVars, procVars, ghostVars
    <3>2. Early /\ Early'
      BY <2>1 DEF FreelistSave, PageFlush, WStep, Early, Building
    <3> QED
      BY <1>t, <3>1, <3>2, KeepDurable DEF Up
  <2>2. CASE EnvSync0
    <3>1. /\ disk' = IF NoSync THEN disk ELSE meta
          /\ UNCHANGED <<meta, mti, acked, wtxn, alive>>
          /\ wph = "flushed" /\ wph' = "synced" /\ Up
      BY <2>2, IdTypes DEF EnvSync0, WStep, lockVars, procVars, ghostVars
    <3>2. CASE ~NoSync
      BY <1>t, <3>1, <3>2, SyncDurable
    <3>3. CASE NoSync
      <4>1. IdInv'
        BY <3>1, <3>3 DEF DurableInv, IdInv, Building, Saved, InDoubt, Up
      <4> QED
        BY <3>3, <4>1 DEF DurableInv
    <3> QED
      BY <3>2, <3>3
  <2>3. CASE WriteMetaDbs \/ WriteMetaLastPg
    <3>1. /\ UNCHANGED <<disk, mti, acked, wtxn, alive>> /\ Synced /\ Synced'
      BY <2>3 DEF WriteMetaDbs, WriteMetaLastPg, MetaStep, WStep, Synced, lockVars, procVars,
                  ghostVars
    <3>2. \A s \in Metas : meta'[s].mm_txnid = meta[s].mm_txnid
      BY <2>3, IdTypes DEF WriteMetaDbs, WriteMetaLastPg, MetaPage
    <3> QED
      BY <1>t, <3>1, <3>2, KeepDurable DEF Up
  <2>4. CASE WriteMetaFail \/ SyncMetaFail
    <3>1. UNCHANGED <<meta, disk, mti, acked, alive>> /\ wph' = "none"
      BY <2>4 DEF WriteMetaFail, SyncMetaFail, TxnEnd, ForgetTxn, fileVars, ghostVars
    <3> QED
      BY <1>t, <3>1, KeepDurable DEF Up
  <2> QED
    BY <1>t, <1>5, <2>1, <2>2, <2>3, <2>4, TxnidDurable, SyncMetaDurable, PublishDurable,
       ReturnDurable DEF CommitStep
<1>6. CASE Abort
  <2>1. UNCHANGED <<meta, disk, mti, acked, alive>> /\ wph' = "none"
    BY <1>6 DEF Abort, TxnEnd, ForgetTxn, fileVars, procVars, ghostVars
  <2> QED
    BY <1>t, <2>1, KeepDurable DEF Up
<1>7. CASE SystemCrash
  BY <1>t, <1>7, CrashDurable
<1> QED
  BY <1>1, <1>2, <1>3, <1>4, <1>5, <1>6, <1>7 DEF Next

\* The invariant holds in every behaviour, whatever is not synced and
\* whatever fails.
THEOREM DurableInvariant == Spec => []DurableInv
<1>1. Init => TypeInv /\ DurableInv
  BY InitType, InitDurable
<1>2. TypeInv /\ DurableInv /\ [Next]_vars => TypeInv' /\ DurableInv'
  BY TypeStep, StepDurable
<1> QED
  BY <1>1, <1>2, PTL DEF Spec

\* Unless MDB_NOSYNC is set, a commit that returned survives every crash at
\* every later moment, also when an msync or another step of a later commit
\* failed; with MDB_NOMETASYNC the last one may be undone and none before it
\* (mdb_env_write_meta, mdb_env_sync0).
THEOREM CommitsAreDurable ==
  ASSUME ~NoSync PROVE Spec => []DurabilityBound
<1>1. TypeInv /\ DurableInv => DurabilityBound
  <2> SUFFICES ASSUME TypeInv, DurableInv, NEW m \in CrashedMetas
               PROVE  PickMeta(m).mm_txnid >= IF NoMetaSync THEN acked - 1 ELSE acked
    BY DEF DurabilityBound
  <2>1. /\ meta \in [Metas -> MetaPage] /\ disk \in [Metas -> MetaPage] /\ acked \in Nat
        /\ m \in [Metas -> MetaPage]
    BY IdTypes DEF CrashedMetas, Metas
  <2>2. \A s \in Metas : /\ disk[s].mm_txnid <= meta[s].mm_txnid
                         /\ m[s] \in {meta[s], disk[s]}
    BY DEF CrashedMetas, DurableInv, IdInv
  <2>3. \A s \in Metas : /\ disk[s].mm_txnid \in Nat /\ m[s].mm_txnid \in Nat
                         /\ m[s].mm_txnid <= PickMeta(m).mm_txnid
    BY <2>1, PickMax
  <2>4. PICK s \in Metas : OnDisk = disk[s].mm_txnid
    BY <2>1, PickMax DEF OnDisk
  <2>5. disk[s].mm_txnid <= m[s].mm_txnid
    BY <2>2, <2>3
  <2>6. PickMeta(m).mm_txnid \in Nat /\ OnDisk <= PickMeta(m).mm_txnid
    BY <2>1, <2>3, <2>4, <2>5, PickMax
  <2>7. OnDisk \in Nat /\ OnDisk >= IF NoMetaSync THEN acked - 1 ELSE acked
    BY <2>3, <2>4 DEF DurableInv, LastDurable
  <2> QED
    BY <2>1, <2>6, <2>7
<1> QED
  BY <1>1, TypeInvariant, DurableInvariant, PTL
=============================================================================
