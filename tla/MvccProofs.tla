----------------------------- MODULE MvccProofs -----------------------------
(***************************************************************************)
(* The inductive invariant of MvccInv, and from it the safety properties   *)
(* of Mvcc, for every value of the constants.  The lemmas called Keep...   *)
(* say what a step has to leave alone to keep one part of the invariant;   *)
(* the lemmas called Inv... do one action or one group of actions.         *)
(***************************************************************************)
EXTENDS MvccTypeProofs

\* The two error paths that the invariant does not survive are left out:
\* an engine that does not sync promises nothing after a crash of the
\* machine, and a failed msync of the meta page breaks MDB_WRITEMAP (see
\* the run that shows it).
Guarded == (PowerLoss => ~NoSync) /\ (WriteMap => ~IoErrors)

\* The versions that somebody may read, or that a crash may fall back to.
Known(t) == t + 1 >= Newest \/ \E r \in Readers : Holding(r) /\ pin[r] = t

\* What is derived from the meta pages changes only with them.
LEMMA MetaFrame ==
  ASSUME UNCHANGED meta
  PROVE  UNCHANGED <<New, Old, Newest, NewSlot>>
BY DEF New, Old, Newest, NewSlot

\* The two meta pages: each holds ids of its own parity, so the newest one is where
\* its id says, the other is where the next commit goes, and mdb_env_pick_meta
\* finds the newest.
LEMMA MetaFacts ==
  ASSUME TypeInv, InPlace(meta)
  PROVE  /\ NewSlot \in Metas /\ 1 - NewSlot \in Metas
         /\ New \in MetaPage /\ Old \in MetaPage
         /\ Newest \in 0..MaxTxn /\ Newest \in Nat
         /\ Slot(Newest) = NewSlot /\ Slot(Newest + 1) = 1 - NewSlot
         /\ Old.mm_txnid < Newest \/ (Newest = 0 /\ Old.mm_txnid = 0 /\ NewSlot = 0)
         /\ PickMeta(meta) = New
<1>1. NewSlot \in Metas /\ 1 - NewSlot \in Metas
  BY DEF NewSlot, Metas
<1>2. New \in MetaPage /\ Old \in MetaPage /\ meta[0] \in MetaPage
      /\ meta[1] \in MetaPage
  BY <1>1 DEF New, Old, TypeInv, TypeOK, FileType, Metas
<1>3. /\ Newest \in 0..MaxTxn /\ Old.mm_txnid \in 0..MaxTxn
      /\ meta[0].mm_txnid \in 0..MaxTxn /\ meta[1].mm_txnid \in 0..MaxTxn
  BY <1>2, MetaPageFields DEF Newest
<1>4. Newest \in Nat
  BY <1>3, ConstantFacts
<1>5. Slot(Newest) = NewSlot
  BY <1>3, <1>4, ConstantFacts DEF InPlace, Newest, New, NewSlot, Metas, Slot
<1>6. Slot(Newest + 1) = 1 - NewSlot
  BY <1>4, <1>5, SlotFacts
<1>7. Old.mm_txnid < Newest \/ (Newest = 0 /\ Old.mm_txnid = 0 /\ NewSlot = 0)
  BY <1>3, <1>4, ConstantFacts
     DEF InPlace, Newest, New, Old, NewSlot, Metas, Slot
<1>8. PickMeta(meta) = New
  BY DEF PickMeta, New, NewSlot
<1> QED
  BY <1>1, <1>2, <1>3, <1>4, <1>5, <1>6, <1>7, <1>8

\* What a step must do to keep the parts of the invariant that are about
\* meta pages and readers: leave the meta pages alone and no safe page unsafe.
LEMMA KeepMeta ==
  ASSUME IInv, UNCHANGED meta, OldKept' => OldKept,
         \A t \in 0..Newest, S \in SUBSET Pages :
           Known(t) /\ Safe(t, S, New, file, freedb, dirty, pghead) =>
             Safe(t, S, New, file', freedb', dirty', pghead')
  PROVE  MetaInv'
<1>1. UNCHANGED <<New, Old, Newest, NewSlot>>
  BY MetaFrame
<1>2. TypeInv /\ MetaInv
  BY DEF IInv
<1>3. /\ New \in MetaPage /\ Old \in MetaPage /\ Newest \in 0..MaxTxn
      /\ Newest \in Nat /\ PickMeta(meta) = New
  BY <1>2, MetaFacts DEF MetaInv
<1>4. /\ New.mm_dbs.live \in SUBSET Pages /\ Old.mm_dbs.live \in SUBSET Pages
      /\ Old.mm_txnid \in 0..MaxTxn
  BY <1>3, MetaPageFields
<1>k. Known(Newest) /\ (Old.mm_txnid + 1 = Newest => Known(Old.mm_txnid))
  BY <1>3 DEF Known
<1>5. Committed(New)'
  BY <1>k, <1>1, <1>2, <1>3, <1>4 DEF MetaInv, Committed, Protected, Newest
<1>6. OldKept' => Committed(Old)' /\ (Old.mm_txnid + 1 = Newest)'
  <2> SUFFICES ASSUME OldKept' PROVE Committed(Old)' /\ (Old.mm_txnid + 1 = Newest)'
    OBVIOUS
  <2>1. Committed(Old) /\ Old.mm_txnid + 1 = Newest
    BY <1>2 DEF MetaInv
  <2>2. Old.mm_txnid \in 0..Newest
    BY <1>3, <1>4, <2>1
  <2> QED
    BY <1>k, <1>1, <1>4, <2>1, <2>2 DEF Committed, Protected
<1>7. InPlace(meta)'
  BY <1>2 DEF MetaInv, InPlace
<1> QED
  BY <1>5, <1>6, <1>7 DEF MetaInv

\* What a step must do to keep ReaderInv: leave the views of readers alone and no
\* safe page unsafe.
LEMMA KeepReader ==
  ASSUME IInv, mti \in 0..MaxTxn, mti' \in 0..MaxTxn,
         \A r \in Readers :
           /\ rpc'[r] \notin {"idle", "dead"} => alive'[Home[r]]
           /\ Holding(r)' =>
                /\ mti <= mti' /\ rpc'[r] = rpc[r] /\ pin'[r] = pin[r]
                /\ rver'[r] = rver[r] /\ rlive'[r] = rlive[r]
           /\ rpc'[r] = "pinned" =>
                \/ meta'[Slot(pin[r])].mm_dbs = meta[Slot(pin[r])].mm_dbs
                \/ meta'[Slot(pin[r])].mm_dbs.ver # pin[r],
         \A t \in 0..mti, S \in SUBSET Pages :
           Known(t) /\ Safe(t, S, New, file, freedb, dirty, pghead) =>
             Safe(t, S, New', file', freedb', dirty', pghead')
  PROVE  ReaderInv'
<1> SUFFICES ASSUME NEW r \in Readers
    PROVE
      /\ rpc'[r] \notin {"idle", "dead"} => alive'[Home[r]]
      /\ Holding(r)' => pin'[r] <= mti'
      /\ rpc'[r] = "pinned" /\ meta'[Slot(pin'[r])].mm_dbs.ver = pin'[r] =>
           Safe(pin'[r], meta'[Slot(pin'[r])].mm_dbs.live, New', file', freedb',
                dirty', pghead')
      /\ rpc'[r] \in {"copied", "active"} /\ rver'[r] = pin'[r] =>
           Safe(pin'[r], rlive'[r], New', file', freedb', dirty', pghead')
  BY DEF ReaderInv, Protected
<1>0. /\ TypeInv /\ ReaderInv
  BY DEF IInv
<1>1. pin[r] \in 0..NoTxn /\ pin[r] \in Nat /\ rlive[r] \in SUBSET Pages
  BY <1>0, ConstantFacts DEF TypeInv, TypeOK, ReaderType
<1>2. meta[Slot(pin[r])].mm_dbs.live \in SUBSET Pages
  BY <1>0, <1>1, SlotFacts, MetaPageFields DEF TypeInv, TypeOK, FileType
<1>3. Holding(r)' => /\ Holding(r) /\ pin'[r] = pin[r] /\ pin[r] \in 0..mti
                     /\ Known(pin[r])
  BY <1>0, <1>1 DEF Holding, ReaderInv, Known
<1>4. Holding(r)' => pin'[r] <= mti'
  BY <1>1, <1>3, ConstantFacts
<1>5. ASSUME rpc'[r] = "pinned", meta'[Slot(pin'[r])].mm_dbs.ver = pin'[r]
      PROVE  Safe(pin'[r], meta'[Slot(pin'[r])].mm_dbs.live, New', file', freedb',
                dirty', pghead')
  <2>1. Holding(r)' /\ rpc[r] = "pinned" /\ pin'[r] = pin[r]
    BY <1>5 DEF Holding
  <2>2. meta'[Slot(pin[r])].mm_dbs = meta[Slot(pin[r])].mm_dbs
    BY <1>5, <2>1
  <2>3. Safe(pin[r], meta[Slot(pin[r])].mm_dbs.live, New, file, freedb, dirty, pghead)
    BY <1>0, <1>5, <2>1, <2>2 DEF ReaderInv, Protected
  <2> QED
    BY <1>2, <1>3, <2>1, <2>2, <2>3
<1>6. ASSUME rpc'[r] \in {"copied", "active"}, rver'[r] = pin'[r]
      PROVE  Safe(pin'[r], rlive'[r], New', file', freedb', dirty', pghead')
  <2>1. Holding(r)' /\ rpc[r] = rpc'[r] /\ pin'[r] = pin[r] /\ rver'[r] = rver[r]
        /\ rlive'[r] = rlive[r]
    BY <1>6 DEF Holding
  <2>3. Safe(pin[r], rlive[r], New, file, freedb, dirty, pghead)
    BY <1>0, <1>6, <2>1 DEF ReaderInv, Protected
  <2> QED
    BY <1>1, <1>3, <2>1, <2>3
<1> QED
  BY <1>4, <1>5, <1>6

\* What a step must do to keep CachedOldestSafe: reset a remembered me_pgoldest or
\* leave it, and pin no transaction anew.
LEMMA KeepCached ==
  ASSUME IInv, mti' \in 0..MaxTxn,
         \A p \in Procs : alive'[p] =>
           pgoldest'[p] = 0 \/ (alive[p] /\ pgoldest'[p] = pgoldest[p] /\ mti <= mti'),
         \A r \in Readers : Holding(r)' => Holding(r) /\ pin'[r] = pin[r]
  PROVE  CachedOldestSafe'
<1>1. TypeInv /\ CachedOldestSafe
  BY DEF IInv
<1>2. mti \in Nat /\ mti' \in Nat /\ \A r \in Readers : pin[r] \in Nat
  BY <1>1, ConstantFacts DEF TypeInv, TypeOK, ProcType, ReaderType
<1>3. \A p \in Procs : pgoldest[p] \in Nat
  BY <1>1, ConstantFacts DEF TypeInv, TypeOK, ProcType
<1> SUFFICES ASSUME NEW p \in Procs, alive'[p]
             PROVE  /\ pgoldest'[p] <= mti'
                    /\ \A r \in Readers : Holding(r)' => pgoldest'[p] <= pin'[r]
  BY DEF CachedOldestSafe, Holding
<1>4. pgoldest'[p] <= mti'
  BY <1>1, <1>2, <1>3 DEF CachedOldestSafe
<1>5. \A r \in Readers : Holding(r)' => pgoldest'[p] <= pin'[r]
  BY <1>1, <1>2, <1>3 DEF CachedOldestSafe, Holding
<1> QED
  BY <1>4, <1>5

\* What a step must do to keep DiskInv: leave meta pages and disk alone, and make no
\* page of a committed version unsynced.
LEMMA KeepDisk ==
  ASSUME IInv, UNCHANGED <<meta, disk>>, Synced' => Synced /\ unsynced' = unsynced,
         \A q \in unsynced' : \/ q \in unsynced
                              \/ /\ q \notin New.mm_dbs.live
                                 /\ OldKept => q \notin Old.mm_dbs.live
  PROVE  DiskInv'
<1>1. UNCHANGED <<New, Old, Newest, NewSlot>>
  BY MetaFrame
<1>2. DiskInv
  BY DEF IInv
<1>3. ~NoSync /\ disk[NewSlot] # New => OldKept
  BY DEF OldKept
<1>4. InPlace(disk)' /\ (\A s \in Metas : disk[s].mm_txnid <= meta[s].mm_txnid)'
  BY <1>2 DEF DiskInv, InPlace
<1>5. ASSUME ~NoSync PROVE
       /\ Synced' => disk'[NewSlot'] = New' /\ unsynced' = {}
       /\ New'.mm_dbs.live \cap unsynced' = {}
       /\ disk'[NewSlot'] # New' =>
            /\ disk'[1 - NewSlot'] = Old' /\ Old'.mm_dbs.live \cap unsynced' = {}
            /\ \/ disk'[NewSlot'].mm_txnid < Old'.mm_txnid
               \/ disk'[NewSlot'].mm_txnid = 0 /\ NewSlot' = 1
  BY <1>1, <1>2, <1>3, <1>5 DEF DiskInv
<1> QED
  BY <1>4, <1>5 DEF DiskInv

\* The steps of a reading thread keep the invariant: the second look at mti_txnid in
\* mdb_txn_renew0 is what protects the version it pins.
LEMMA InvReader ==
  ASSUME IInv, NEW r \in Readers, ReaderStep(r), TypeInv'
  PROVE  IInv'
<1>0. /\ TypeInv /\ MetaInv /\ MtiInv /\ ReaderInv /\ CachedOldestSafe /\ ScanInv
      /\ WriterInv /\ DiskInv
  BY DEF IInv
<1>1. UNCHANGED <<fileVars, mti, wlock, txnVars, procVars, ghostVars>>
      /\ alive[Home[r]] /\ rpc' = [rpc EXCEPT ![r] = rpc'[r]]
  BY <1>0 DEF ReaderStep, ReaderLoad, ReaderStore, ReaderPin, ReaderCopyDbs,
         ReaderCopyLastPg, ReaderEnd, RStep, TypeInv, TypeOK, ReaderType
<1>2. UNCHANGED <<New, Old, Newest, NewSlot>>
  BY <1>1, MetaFrame DEF fileVars
<1>3. MetaInv' /\ MtiInv' /\ WriterInv' /\ DiskInv'
  <2>1. MetaInv'
    BY <1>0, <1>1, <1>2 DEF MetaInv, InPlace, Committed, Protected, OldKept, Up, fileVars,
       txnVars, allocVars, procVars
  <2>2. MtiInv'
    BY <1>0, <1>1, <1>2 DEF MtiInv, Up, InDoubt, fileVars, txnVars, procVars
  <2>3. WriterInv'
    BY <1>0, <1>1, <1>2 DEF WriterInv, BaseInv, BuildInv, SavedInv, WriterPages, SavedMeta,
       NewDbs, Building, Saved, InDoubt, NoWriter, fileVars, txnVars, allocVars,
       scanVars
  <2>4. DiskInv'
    BY <1>0, <1>1, <1>2 DEF DiskInv, InPlace, Synced, fileVars, txnVars
  <2> QED
    BY <2>1, <2>2, <2>3, <2>4
\* The other readers.
<1>4. \A o \in Readers \ {r} : /\ rpc'[o] = rpc[o] /\ pin'[o] = pin[o]
                               /\ rver'[o] = rver[o] /\ rlive'[o] = rlive[o]
  BY <1>0, <1>1 DEF ReaderStep, ReaderLoad, ReaderStore, ReaderPin, ReaderCopyDbs,
     ReaderCopyLastPg, ReaderEnd, TypeInv, TypeOK, ReaderType
\* This one: it takes a version in its slot that is now the newest in
\* mti_txnid, or goes on with the one it has, or has none.
<1>5. \/ ~Holding(r)'
      \/ /\ rpc'[r] = "pinned" /\ pin'[r] = mti
      \/ /\ rpc'[r] = "copied" /\ rpc[r] = "pinned" /\ pin'[r] = pin[r]
         /\ rver'[r] = meta[Slot(pin[r])].mm_dbs.ver
         /\ rlive'[r] = meta[Slot(pin[r])].mm_dbs.live
      \/ /\ rpc'[r] = "active" /\ rpc[r] = "copied" /\ pin'[r] = pin[r]
         /\ rver'[r] = rver[r] /\ rlive'[r] = rlive[r]
  BY <1>0 DEF ReaderStep, ReaderLoad, ReaderStore, ReaderPin, ReaderCopyDbs,
     ReaderCopyLastPg, ReaderEnd, RStep, Holding, TypeInv, TypeOK, ReaderType
<1>6. Holding(r)' => pin'[r] = mti \/ (Holding(r) /\ pin'[r] = pin[r])
  BY <1>5 DEF Holding
<1>7. mti \in Nat /\ \A p \in Procs : pgoldest[p] \in Nat
  BY <1>0, ConstantFacts DEF TypeInv, TypeOK, ProcType
<1>8. CachedOldestSafe'
  BY <1>0, <1>1, <1>4, <1>6, <1>7 DEF CachedOldestSafe, Holding, procVars
<1>9. ScanInv'
  BY <1>0, <1>1, <1>4, <1>6, <1>7 DEF ScanInv, Holding, txnVars, scanVars
<1>10. ReaderInv'
  <2>1. Safe(mti, meta[Slot(mti)].mm_dbs.live, New, file, freedb, dirty, pghead)
        \/ meta[Slot(mti)].mm_dbs.ver # mti
    <3>0. Up
      BY <1>1, ConstantFacts DEF Up
    <3>1. CASE mti = Newest
      BY <1>0, <3>1, MetaFacts DEF MetaInv, Committed, Protected, Newest, New
    <3>2. CASE mti # Newest
      <4>1. mti + 1 = Newest /\ Committed(Old) /\ Old.mm_txnid + 1 = Newest
        BY <1>0, <3>0, <3>2 DEF MetaInv, MtiInv, OldKept
      <4>2. Slot(mti) = 1 - NewSlot
        BY <1>0, <1>7, <4>1, MetaFacts, SlotFacts DEF MetaInv, Metas
      <4>3. Old.mm_txnid = mti
        BY <1>0, <1>7, <4>1, MetaFacts, MetaPageFields, ConstantFacts DEF MetaInv
      <4> QED
        BY <4>1, <4>2, <4>3 DEF Committed, Protected, Old
    <3> QED
      BY <3>1, <3>2
  <2>2. \A o \in Readers \ {r} :
         ReaderInv => 
          (/\ rpc'[o] \notin {"idle", "dead"} => alive'[Home[o]]
           /\ Holding(o)' => pin'[o] <= mti'
           /\ rpc'[o] = "pinned" /\ meta'[Slot(pin'[o])].mm_dbs.ver = pin'[o] =>
                Safe(pin'[o], meta'[Slot(pin'[o])].mm_dbs.live, New', file',
                     freedb', dirty', pghead')
           /\ rpc'[o] \in {"copied", "active"} /\ rver'[o] = pin'[o] =>
                Safe(pin'[o], rlive'[o], New', file', freedb', dirty', pghead'))
    BY <1>1, <1>2, <1>4 DEF ReaderInv, Holding, Protected, fileVars, txnVars,
       allocVars, procVars
  <2>3. /\ rpc'[r] \notin {"idle", "dead"} => alive'[Home[r]]
        /\ Holding(r)' => pin'[r] <= mti'
    BY <1>0, <1>1, <1>6, <1>7 DEF ReaderInv, procVars
  <2>4. rpc'[r] = "pinned" /\ meta'[Slot(pin'[r])].mm_dbs.ver = pin'[r] =>
          Safe(pin'[r], meta'[Slot(pin'[r])].mm_dbs.live, New', file',
               freedb', dirty', pghead')
    BY <1>1, <1>2, <1>5, <2>1 DEF Holding, fileVars, txnVars, allocVars
  <2>5. rpc'[r] \in {"copied", "active"} /\ rver'[r] = pin'[r] =>
          Safe(pin'[r], rlive'[r], New', file', freedb', dirty', pghead')
    BY <1>0, <1>1, <1>2, <1>5
       DEF ReaderInv, Holding, Protected, fileVars, txnVars, allocVars
  <2> QED
    BY <1>0, <2>2, <2>3, <2>4, <2>5 DEF ReaderInv, Protected
<1> QED
  BY <1>3, <1>8, <1>9, <1>10 DEF IInv

\* A step that leaves the file and the write transaction alone.
LEMMA InvOutside ==
  ASSUME IInv, TypeInv', UNCHANGED <<fileVars, txnVars>>,
         mti' \in {mti, Newest},
         Up' /\ mti' # Newest => Up /\ mti' = mti /\ (InDoubt \/ wlock' = OwnerDead),
         Up' /\ InDoubt => Up /\ mti' = mti,
         \A r \in Readers :
           /\ rpc'[r] \notin {"idle", "dead"} => alive'[Home[r]]
           /\ Holding(r)' =>
                /\ mti <= mti' /\ rpc'[r] = rpc[r] /\ pin'[r] = pin[r]
                /\ rver'[r] = rver[r] /\ rlive'[r] = rlive[r],
         \A p \in Procs : alive'[p] =>
           pgoldest'[p] = 0 \/ (alive[p] /\ pgoldest'[p] = pgoldest[p] /\ mti <= mti')
  PROVE  IInv'
<1>0. /\ TypeInv /\ MetaInv /\ MtiInv /\ ReaderInv /\ CachedOldestSafe /\ ScanInv
      /\ WriterInv /\ DiskInv
  BY DEF IInv
<1>1. UNCHANGED <<meta, disk, file, unsynced, freedb, dirty, pghead>>
  BY DEF fileVars, txnVars, allocVars
<1>2. UNCHANGED <<New, Old, Newest, NewSlot>>
  BY <1>1, MetaFrame
<1>3. mti \in 0..MaxTxn /\ mti' \in 0..MaxTxn /\ Newest \in 0..MaxTxn
  BY <1>0, MetaFacts DEF TypeInv, TypeOK, ProcType, MetaInv
<1>4. MetaInv'
  <2>1. OldKept' => OldKept
    BY <1>0, <1>1, <1>2 DEF OldKept
  <2> QED
    BY <1>1, <2>1, KeepMeta
<1>5. MtiInv'
  BY <1>0, <1>1, <1>2 DEF MtiInv, InDoubt, txnVars
<1>6. ReaderInv'
  BY <1>1, <1>2, <1>3, KeepReader
<1>7. CachedOldestSafe'
  BY <1>3, KeepCached DEF Holding
<1>8. ScanInv'
  <2> SUFFICES ASSUME wph' = "scan" PROVE ScanInv'
    BY DEF ScanInv
  <2>1. mti' = mti
    BY <1>0 DEF txnVars, WriterInv, BaseInv, Building
  <2> QED
    BY <1>0, <2>1 DEF ScanInv, Holding, txnVars, scanVars
<1>9. WriterInv'
  BY <1>0, <1>1, <1>2 DEF WriterInv, BaseInv, BuildInv, SavedInv, WriterPages, SavedMeta,
       NewDbs, Building, Saved, InDoubt, NoWriter, fileVars, txnVars, allocVars,
       scanVars
<1>10. DiskInv'
  BY <1>0, <1>1, <1>2 DEF DiskInv, InPlace, Synced, fileVars, txnVars
<1> QED
  BY <1>4, <1>5, <1>6, <1>7, <1>8, <1>9, <1>10 DEF IInv

\* The write transaction ends, or its process dies, the file being left
\* alone.
LEMMA InvForget ==
  ASSUME IInv, TypeInv', UNCHANGED <<fileVars, mti>>, ForgetTxn, Up' => Up,
         Up' /\ mti # Newest => wlock' = OwnerDead,
         \A r \in Readers :
           /\ rpc'[r] \notin {"idle", "dead"} => alive'[Home[r]]
           /\ Holding(r)' =>
                /\ rpc'[r] = rpc[r] /\ pin'[r] = pin[r]
                /\ rver'[r] = rver[r] /\ rlive'[r] = rlive[r],
         \A p \in Procs : alive'[p] => alive[p] /\ pgoldest'[p] = pgoldest[p]
  PROVE  IInv'
<1>0. /\ TypeInv /\ MetaInv /\ MtiInv /\ ReaderInv /\ CachedOldestSafe /\ ScanInv
      /\ WriterInv /\ DiskInv
  BY DEF IInv
<1>1. UNCHANGED <<meta, disk, file, unsynced>>
  BY DEF fileVars
<1>2. UNCHANGED <<New, Old, Newest, NewSlot>>
  BY <1>1, MetaFrame
<1>3. mti \in 0..MaxTxn /\ mti' \in 0..MaxTxn /\ mti \in Nat
  BY <1>0, ConstantFacts DEF TypeInv, TypeOK, ProcType
<1>s. \A t, S : Safe(t, S, New, file, freedb, dirty, pghead) =>
             Safe(t, S, New', file', freedb', dirty', pghead')
  BY <1>1, <1>2 DEF Safe, ForgetTxn, NoRecords
<1>4. MetaInv'
  <2>1. OldKept' => OldKept
    BY <1>0, <1>1, <1>2 DEF OldKept
  <2> QED
    BY <1>1, <1>2, <1>s, <2>1, KeepMeta
<1>5. MtiInv'
  BY <1>0, <1>2 DEF MtiInv, InDoubt, ForgetTxn
<1>6. ReaderInv'
  BY <1>1, <1>2, <1>3, <1>s, KeepReader
<1>7. CachedOldestSafe'
  BY <1>3, KeepCached DEF Holding
<1>8. ScanInv'
  BY DEF ScanInv, ForgetTxn
<1>9. WriterInv'
  BY DEF WriterInv, BaseInv, BuildInv, SavedInv, Building, Saved, InDoubt,
     NoWriter, ForgetTxn
<1>10. DiskInv'
  BY <1>1, KeepDisk DEF Synced, ForgetTxn
<1> QED
  BY <1>4, <1>5, <1>6, <1>7, <1>8, <1>9, <1>10 DEF IInv

\* A transaction that begins with the newest version.
LEMMA InvStart ==
  ASSUME IInv, TypeInv', NEW p \in Procs, StartTxn(p, Newest), wlock \notin Procs,
         UNCHANGED <<fileVars, procVars>>, mti' = Newest, mti <= mti',
         \A r \in Readers :
           /\ rpc'[r] \notin {"idle", "dead"} => alive'[Home[r]]
           /\ Holding(r)' =>
                /\ rpc'[r] = rpc[r] /\ pin'[r] = pin[r]
                /\ rver'[r] = rver[r] /\ rlive'[r] = rlive[r]
  PROVE  IInv'
<1>0. /\ TypeInv /\ MetaInv /\ MtiInv /\ ReaderInv /\ CachedOldestSafe /\ ScanInv
      /\ WriterInv /\ DiskInv
  BY DEF IInv
<1>1. UNCHANGED <<meta, disk, file, unsynced>>
  BY DEF fileVars
<1>2. UNCHANGED <<New, Old, Newest, NewSlot>>
  BY <1>1, MetaFrame
<1>3. mti \in 0..MaxTxn /\ mti' \in 0..MaxTxn /\ Newest \in 0..MaxTxn /\ Newest \in Nat
  BY <1>0, MetaFacts DEF TypeInv, TypeOK, ProcType, MetaInv
<1>4. NoWriter
  BY <1>0 DEF WriterInv, TypeInv, TypeOK
<1>5. /\ wph' = "open" /\ wtxn' = Newest + 1 /\ live' = New.mm_dbs.live
      /\ freedb' = New.mm_dbs.freedb /\ nextpg' = New.mm_last_pg + 1
      /\ pghead' = {} /\ pglast' = 0 /\ freepgs' = {} /\ loose' = {} /\ dirty' = {}
      /\ dirty = {} /\ pghead = {}
  BY <1>0, <1>4, MetaFacts DEF StartTxn, NoWriter, MetaInv, New
<1>s. \A t, S : Safe(t, S, New, file, freedb, dirty, pghead) =>
             Safe(t, S, New', file', freedb', dirty', pghead')
  BY <1>1, <1>2, <1>5 DEF Safe
<1>6. MetaInv'
  <2>1. OldKept' => OldKept
    BY <1>0, <1>1, <1>2 DEF OldKept
  <2> QED
    BY <1>1, <1>2, <1>s, <2>1, KeepMeta
<1>7. MtiInv'
  BY <1>2, <1>5 DEF MtiInv, InDoubt
<1>8. ReaderInv'
  BY <1>1, <1>2, <1>3, <1>s, KeepReader
<1>9. CachedOldestSafe'
  BY <1>3, KeepCached DEF Holding, procVars
<1>10. ScanInv'
  BY <1>5 DEF ScanInv
<1>11. WriterInv'
  <2>1. New \in MetaPage /\ Committed(New)
    BY <1>0, MetaFacts DEF MetaInv
  <2>2. /\ New.mm_last_pg \in 1..(MaxPg - 2)
        /\ New.mm_dbs.live \in SUBSET Pages
        /\ New.mm_dbs.freedb \in [Txns -> SUBSET Pages]
    BY <2>1, MetaPageFields
  <2>3. BaseInv'
    <3>1. \A q \in live' : file'[q] <= wtxn'
      <4>1. \A q \in New.mm_dbs.live : file[q] <= Newest /\ file[q] \in 0..NoTxn
        BY <1>0, <2>1, <2>2 DEF Committed, Protected, Safe, Newest, TypeInv, TypeOK, FileType
      <4> QED
        BY <1>1, <1>3, <1>5, <4>1, ConstantFacts
    <3> QED
      BY <1>2, <1>3, <1>5, <2>2, <3>1, ConstantFacts DEF BaseInv
  <2>4. WriterPages'
    <3>1. \A q \in Pages : q < nextpg' <=> q <= New.mm_last_pg
      BY <1>5, <2>2, ConstantFacts DEF Pages
    <3>2. \A t \in Txns : t > 0
      BY ConstantFacts DEF Txns
    <3> QED
      BY <1>5, <2>1, <3>1, <3>2 DEF WriterPages, Committed, WholeMeta
  <2>5. BuildInv'
    BY <1>2, <1>3, <1>5, <2>1, <2>4 DEF BuildInv, Committed, NoFuture, Newest
  <2>6. SavedInv' /\ (InDoubt \/ wph = "published" => wtxn = Newest)'
        /\ (wph = "none" => NoWriter)'
    BY <1>5 DEF SavedInv, Saved, InDoubt
  <2> QED
    BY <2>3, <2>5, <2>6 DEF WriterInv
<1>12. DiskInv'
  BY <1>1, <1>5, KeepDisk DEF Synced
<1> QED
  BY <1>6, <1>7, <1>8, <1>9, <1>10, <1>11, <1>12 DEF IInv

\* A process that recovers the mutex or begins knows the newest id.
LEMMA MtiFacts ==
  ASSUME IInv, NEW p \in Procs, alive[p]
  PROVE  /\ Up /\ mti <= Newest /\ mti \in Nat /\ Newest \in Nat
         /\ wlock = Unlocked => mti = Newest
         /\ Building \/ Saved \/ wph = "published" => mti = Newest
<1>0. TypeInv /\ MetaInv /\ MtiInv /\ WriterInv
  BY DEF IInv
<1>1. Up
  BY DEF Up
<1>2. mti \in Nat /\ Newest \in Nat
  BY <1>0, MetaFacts, ConstantFacts DEF MetaInv, TypeInv, TypeOK, ProcType
<1>3. mti <= Newest
  BY <1>0, <1>1, <1>2 DEF MtiInv
<1>4. wlock = Unlocked => mti = Newest
  BY <1>0, <1>1, ConstantFacts DEF MtiInv, TypeInv, TypeOK, InDoubt
<1>5. Building \/ Saved \/ wph = "published" => mti = Newest
  BY <1>0, <1>1, ConstantFacts DEF MtiInv, WriterInv, BaseInv, InDoubt, TypeInv, TypeOK
<1> QED
  BY <1>1, <1>2, <1>3, <1>4, <1>5

\* The steps of processes keep the invariant: begin of a writer, recovery of the mutex
\* (mdb_mutex_failed), mdb_reader_check, mdb_env_sync, crash, close and open.
LEMMA InvProc ==
  ASSUME IInv, TypeInv', NEW p \in Procs, ProcStep(p)
  PROVE  IInv'
<1>0. /\ TypeInv /\ MetaInv /\ MtiInv /\ ReaderInv /\ CachedOldestSafe /\ WriterInv
      /\ DiskInv
  BY DEF IInv
<1>t. /\ FileType /\ ReaderType /\ ProcType /\ HolderAlive
      /\ wph # "none" <=> wlock \in Procs
  BY <1>0 DEF TypeInv, TypeOK
<1>n. PickMeta(meta).mm_txnid = Newest /\ Newest \in 0..MaxTxn /\ Newest \in Nat
      /\ mti \in Nat /\ mti <= mti
  BY <1>0, <1>t, MetaFacts, ConstantFacts DEF MetaInv, Newest, ProcType
\* Readers that died, and those that a cleared slot leaves alone.
<1>c. ASSUME ClearDeadSlots, UNCHANGED <<rver, rlive, alive>>
      PROVE \A r \in Readers :
              /\ rpc'[r] \notin {"idle", "dead"} => alive'[Home[r]]
              /\ Holding(r)' =>
                   /\ rpc'[r] = rpc[r] /\ pin'[r] = pin[r]
                   /\ rver'[r] = rver[r] /\ rlive'[r] = rlive[r]
  BY <1>0, <1>c DEF ClearDeadSlots, Holding, ReaderInv
<1>1. CASE WriterBegin(p)
  <2>1. mti = Newest /\ StartTxn(p, Newest) /\ wlock \notin Procs
    BY <1>1, MtiFacts, ConstantFacts DEF WriterBegin
  <2>2. UNCHANGED <<fileVars, procVars, mti, pin, rpc, rver, rlive, alive>>
    BY <1>1 DEF WriterBegin, procVars, readerVars
  <2> QED
    BY <1>0, <1>n, <2>1, <2>2, InvStart DEF ReaderInv
<1>2. CASE WriterBeginRecover(p)
  <2>1. StartTxn(p, Newest) /\ wlock \notin Procs /\ mti' = Newest /\ mti <= mti'
    BY <1>2, <1>n, MtiFacts, ConstantFacts DEF WriterBeginRecover, Recover
  <2>2. UNCHANGED <<fileVars, procVars, rver, rlive, alive>> /\ ClearDeadSlots
    BY <1>2 DEF WriterBeginRecover, Recover, procVars
  <2> QED
    BY <1>c, <2>1, <2>2, InvStart
<1>3. CASE WriterPanicRecover(p)
  <2>1. wph = "none" /\ mti' = Newest /\ mti <= mti'
    BY <1>3, <1>n, <1>t, MtiFacts, ConstantFacts DEF WriterPanicRecover, Recover
  <2>2. UNCHANGED <<fileVars, txnVars, procVars, rver, rlive, alive>> /\ ClearDeadSlots
    BY <1>3 DEF WriterPanicRecover, Recover, procVars
  <2>3. UNCHANGED <<New, Newest>>
    BY <2>2, MetaFrame DEF fileVars
  <2> QED
    BY <1>c, <2>1, <2>2, <2>3, InvOutside DEF procVars, InDoubt
<1>4. CASE ReaderCheck(p)
  <2>1. UNCHANGED <<fileVars, mti, wlock, txnVars, procVars, rver, rlive, alive>>
        /\ ClearDeadSlots /\ Up' = Up
    BY <1>4 DEF ReaderCheck, procVars, Up
  <2> QED
    BY <1>0, <1>c, <1>n, <2>1, InvOutside DEF procVars, MtiInv
<1>5. CASE EnvSync(p)
  <2>1. UNCHANGED <<meta, file, lockVars, readerVars, txnVars, procVars, ghostVars>>
        /\ disk' = meta /\ unsynced' \subseteq unsynced
        /\ (Synced => unsynced' = {})
    BY <1>5 DEF EnvSync, Synced
  <2>2. UNCHANGED <<New, Old, Newest, NewSlot>>
    BY <2>1, MetaFrame
  <2>3. ReaderInv' /\ CachedOldestSafe' /\ ScanInv' /\ MtiInv'
    <3>1. ReaderInv'
      BY <1>0, <2>1, <2>2 DEF ReaderInv, Holding, Protected, lockVars, readerVars, txnVars,
         allocVars, procVars
    <3>2. CachedOldestSafe' /\ ScanInv'
      BY <1>0, <2>1 DEF IInv, CachedOldestSafe, ScanInv, Holding, lockVars, readerVars, procVars,
         txnVars, scanVars
    <3>3. MtiInv'
      BY <1>0, <2>1, <2>2 DEF MtiInv, Up, InDoubt, lockVars, txnVars, procVars
    <3> QED
      BY <3>1, <3>2, <3>3
  <2>4. WriterInv'
    BY <1>0, <2>1, <2>2 DEF WriterInv, BaseInv, BuildInv, SavedInv, WriterPages, SavedMeta,
       NewDbs, Building, Saved, InDoubt, NoWriter, lockVars, txnVars, allocVars,
       scanVars
  <2>5. MetaInv'
    <3>1. OldKept' => OldKept
      BY <2>1, <2>2 DEF OldKept, New, Up, lockVars, procVars
    <3> QED
      BY <2>1, <3>1, KeepMeta DEF txnVars, allocVars
  <2>6. DiskInv'
    <3>1. InPlace(disk)' /\ (\A s \in Metas : disk[s].mm_txnid <= meta[s].mm_txnid)'
      <4>1. \A s \in Metas : meta[s].mm_txnid \in 0..MaxTxn
        BY <1>t, MetaPageFields DEF FileType
      <4> QED
        BY <1>0, <2>1, <4>1, ConstantFacts DEF MetaInv, InPlace
    <3>2. disk'[NewSlot'] = New'
      BY <2>1, <2>2 DEF New
    <3>3. ~NoSync => New'.mm_dbs.live \cap unsynced' = {}
      BY <1>0, <2>1, <2>2 DEF DiskInv
    <3>4. Synced' => unsynced' = {}
      BY <2>1 DEF Synced, txnVars
    <3> QED
      BY <3>1, <3>2, <3>3, <3>4 DEF DiskInv
  <2> QED
    BY <2>3, <2>4, <2>5, <2>6 DEF IInv
<1>6. CASE ProcessCrash(p)
  <2>1. LoseMemory({p}) /\ UNCHANGED fileVars /\ alive[p]
    BY <1>6 DEF ProcessCrash
  <2>2. \A r \in Readers :
           /\ rpc'[r] \notin {"idle", "dead"} => alive'[Home[r]]
           /\ Holding(r)' =>
                /\ rpc'[r] = rpc[r] /\ pin'[r] = pin[r]
                /\ rver'[r] = rver[r] /\ rlive'[r] = rlive[r]
    BY <1>0, <2>1, ConstantFacts DEF LoseMemory, Holding, ReaderInv
  <2>3. /\ \A o \in Procs : alive'[o] => alive[o] /\ pgoldest'[o] = pgoldest[o]
        /\ Up' => Up /\ UNCHANGED mti
    BY <1>t, <2>1 DEF LoseMemory, Up, ProcType
  <2>4. CASE wlock = p
    BY <2>1, <2>2, <2>3, <2>4, InvForget DEF LoseMemory
  <2>5. CASE wlock # p
    <3>1. UNCHANGED <<wlock, txnVars, mti>>
      BY <2>1, <2>5 DEF LoseMemory
    <3> QED
      BY <1>0, <1>n, <2>1, <2>2, <2>3, <3>1, InvOutside DEF MtiInv
  <2> QED
    BY <2>4, <2>5
<1>7. CASE Close(p)
  <2>1. UNCHANGED <<fileVars, txnVars, mti, wlock, pin, rpc, rver, rlive, pgoldest>>
        /\ \A o \in Procs : alive'[o] => alive[o]
    BY <1>t, <1>7 DEF Close, lockVars, readerVars, ProcType
  <2>2. \A r \in Readers : rpc'[r] \notin {"idle", "dead"} => alive'[Home[r]]
    BY <1>0, <1>t, <1>7, <2>1, ConstantFacts DEF Close, ReaderInv, ProcType
  <2>3. Up' => Up
    BY <2>1 DEF Up
  <2>4. \A r \in Readers : Holding(r)' => mti <= mti' /\ rpc'[r] = rpc[r]
          /\ pin'[r] = pin[r] /\ rver'[r] = rver[r] /\ rlive'[r] = rlive[r]
    BY <1>n, <2>1
  <2> QED
    BY <1>0, <1>n, <2>1, <2>2, <2>3, <2>4, InvOutside DEF MtiInv
<1>8. CASE Open(p)
  <2>1. UNCHANGED <<fileVars, txnVars, rver, rlive>>
    BY <1>8 DEF Open
  <2>2. \A o \in Procs : alive'[o] =>
          pgoldest'[o] = 0 \/ (alive[o] /\ pgoldest'[o] = pgoldest[o])
    BY <1>t, <1>8 DEF Open, ProcType
  <2>3. CASE Up
    <3>1. UNCHANGED <<mti, pin, wlock, rpc>>
      BY <1>8, <2>3 DEF Open, Up
    <3>2. \A r \in Readers : rpc'[r] \notin {"idle", "dead"} => alive'[Home[r]]
      BY <1>0, <1>t, <1>8, <3>1, ConstantFacts DEF Open, ReaderInv, ProcType
    <3>3. \A r \in Readers : Holding(r)' => mti <= mti' /\ rpc'[r] = rpc[r]
            /\ pin'[r] = pin[r] /\ rver'[r] = rver[r] /\ rlive'[r] = rlive[r]
      BY <1>n, <2>1, <3>1
    <3> QED
      BY <1>0, <1>n, <2>1, <2>2, <2>3, <3>1, <3>2, <3>3, InvOutside DEF MtiInv
  <2>4. CASE ~Up
    <3>1. mti' = Newest /\ wph = "none"
          /\ \A r \in Readers : rpc'[r] = "idle"
      BY <1>8, <1>n, <1>t, <2>4 DEF Open, Up, HolderAlive
    <3>2. \A r \in Readers : ~Holding(r)'
      BY <3>1 DEF Holding
    <3>3. \A o \in Procs : alive'[o] => pgoldest'[o] = 0
      BY <2>2, <2>4 DEF Up
    <3>4. ~InDoubt
      BY <3>1 DEF InDoubt
    <3> QED
      BY <2>1, <3>1, <3>2, <3>3, <3>4, InvOutside
  <2> QED
    BY <2>3, <2>4
<1> QED
  BY <1>1, <1>2, <1>3, <1>4, <1>5, <1>6, <1>7, <1>8 DEF ProcStep

\* The ends of a write transaction keep the invariant: abort, return of a commit, and
\* the failed write of the meta page.
LEMMA InvEnd ==
  ASSUME IInv, TypeInv', Guarded,
         Abort \/ CommitReturn \/ WriteMetaFail \/ SyncMetaFail
  PROVE  IInv'
<1>0. /\ TypeInv /\ MtiInv /\ ReaderInv /\ WriterInv
  BY DEF IInv
<1>1. ~SyncMetaFail
  BY DEF Guarded, SyncMetaFail
<1>2. /\ ForgetTxn /\ UNCHANGED <<fileVars, mti, pin, rpc, rver, rlive, alive, pgoldest>>
      /\ Building \/ Saved \/ wph = "published"
  BY <1>1 DEF Abort, CommitReturn, WriteMetaFail, TxnEnd, procVars, readerVars,
     Building, Saved
<1>3. wlock \in Procs /\ alive[wlock]
  BY <1>0, <1>2 DEF TypeInv, TypeOK, HolderAlive, Building, Saved
<1>4. mti = Newest /\ UNCHANGED Newest
  BY <1>2, <1>3, MtiFacts, MetaFrame DEF fileVars
<1>5. Up' => Up
  BY <1>2 DEF Up
<1> QED
  BY <1>0, <1>2, <1>4, <1>5, InvForget DEF ReaderInv

\* The writer is at work: what it knows.
LEMMA WorkFacts ==
  ASSUME IInv, wph # "none"
  PROVE  /\ wlock \in Procs /\ alive[wlock] /\ Up
         /\ mti \in Nat /\ Newest \in Nat /\ Newest <= MaxTxn /\ mti <= Newest
         /\ Building \/ Saved => mti = Newest /\ wtxn = Newest + 1
<1>1. TypeInv /\ WriterInv /\ MtiInv /\ MetaInv
  BY DEF IInv
<1>2. wlock \in Procs /\ alive[wlock]
  BY <1>1 DEF TypeInv, TypeOK, HolderAlive
<1>3. Newest <= MaxTxn
  BY <1>1, MetaFacts, ConstantFacts DEF MetaInv
<1> QED
  BY <1>1, <1>2, <1>3, MtiFacts DEF WriterInv, BaseInv

\* A step of the writer that leaves meta pages, mutex and readers alone.
LEMMA KeepWriter ==
  ASSUME IInv, UNCHANGED <<meta, mti, wlock, pin, readerVars, alive>>,
         wph # "none", InDoubt' <=> InDoubt,
         UNCHANGED disk,
         \A t \in 0..Newest, S \in SUBSET Pages :
           Known(t) /\ Safe(t, S, New, file, freedb, dirty, pghead) =>
             Safe(t, S, New, file', freedb', dirty', pghead')
  PROVE  MetaInv' /\ MtiInv' /\ ReaderInv'
<1>1. UNCHANGED <<New, Old, Newest, NewSlot>>
  BY MetaFrame
<1>2. Up' = Up
  BY DEF Up
<1>3. MetaInv'
  BY <1>1, <1>2, KeepMeta DEF OldKept
<1>4. MtiInv'
  BY <1>1, <1>2 DEF IInv, MtiInv
<1>5. mti \in 0..MaxTxn /\ \A t \in 0..mti : t \in 0..Newest
  BY WorkFacts, ConstantFacts
<1>6. \A r \in Readers :
        /\ rpc'[r] \notin {"idle", "dead"} => alive'[Home[r]]
        /\ Holding(r)' =>
             /\ mti <= mti' /\ rpc'[r] = rpc[r] /\ pin'[r] = pin[r]
             /\ rver'[r] = rver[r] /\ rlive'[r] = rlive[r]
        /\ meta'[Slot(pin[r])].mm_dbs = meta[Slot(pin[r])].mm_dbs
  BY WorkFacts DEF IInv, ReaderInv, readerVars
<1>7. ReaderInv'
  BY <1>1, <1>5, <1>6, KeepReader
<1> QED
  BY <1>3, <1>4, <1>7

\* mdb_find_oldest keeps the invariant while readers come and go behind its scan.
LEMMA InvScan ==
  ASSUME IInv, TypeInv', ScanBegin \/ ScanSlot \/ ScanEnd \/ AllocFail
  PROVE  IInv'
<1>0. /\ TypeInv /\ MetaInv /\ MtiInv /\ ReaderInv /\ CachedOldestSafe /\ ScanInv
      /\ WriterInv /\ DiskInv
  BY DEF IInv
<1>1. /\ UNCHANGED <<fileVars, lockVars, readerVars, wtxn, live, freedb,
                     allocVars, freepgs, dirty, alive, fatal, ghostVars>>
      /\ Building /\ Building' /\ ~Saved' /\ ~InDoubt' /\ ~InDoubt /\ wph' # "published"
      /\ wph' # "none" /\ wph # "none" /\ ~Synced'
  BY DEF ScanBegin, ScanSlot, ScanEnd, AllocFail, Operating, Building, InDoubt, Saved,
     procVars, scanVars, Synced
<1>2. UNCHANGED <<meta, disk, file, unsynced, mti, wlock, pin, freedb, dirty, pghead,
                  nextpg, pglast, loose>>
  BY <1>1 DEF fileVars, lockVars, allocVars
<1>3. UNCHANGED <<New, Old, Newest, NewSlot>>
  BY <1>2, MetaFrame
<1>4. MetaInv' /\ MtiInv' /\ ReaderInv'
  BY <1>1, <1>2, KeepWriter
<1>5. WriterInv'
  BY <1>0, <1>1, <1>2, <1>3 DEF WriterInv, BaseInv, BuildInv, WriterPages, SavedInv, Saved
<1>6. DiskInv'
  BY <1>1, <1>2, KeepDisk
<1>7. \A r \in Readers : Holding(r)' <=> Holding(r)
  BY <1>1 DEF Holding, readerVars
<1>8. mti \in Nat /\ (\A r \in Readers : pin[r] \in Nat) /\ scanold \in Nat
      /\ scani \in 0..NReaders /\ pgoldest \in [Procs -> 0..NoTxn]
  BY <1>0, ConstantFacts DEF TypeInv, TypeOK, ProcType, ReaderType, AllocType
<1>9. wtxn - 1 = mti /\ wlock \in Procs
  BY <1>1, WorkFacts
<1>10. CASE ScanBegin
  <2>1. ScanInv'
    BY <1>2, <1>8, <1>9, <1>10, ConstantFacts DEF ScanBegin, ScanInv, Readers
  <2>2. CachedOldestSafe'
    BY <1>0, <1>1, <1>2, <1>7, <1>10 DEF ScanBegin, CachedOldestSafe, Holding, procVars
  <2> QED
    BY <1>4, <1>5, <1>6, <2>1, <2>2 DEF IInv
<1>11. CASE ScanSlot
  <2>1. ScanInv'
    <3>1. \A r \in Readers : r > scani - 1 => r > scani \/ r = scani
      BY <1>8, ConstantFacts DEF Readers
    <3>2. scani \in Readers
      BY <1>8, <1>11, ConstantFacts DEF ScanSlot, Readers
    <3> QED
      BY <1>0, <1>2, <1>7, <1>8, <1>11, <3>1, <3>2 DEF ScanSlot, ScanInv
  <2>2. CachedOldestSafe'
    BY <1>0, <1>1, <1>2, <1>7, <1>11 DEF ScanSlot, CachedOldestSafe, Holding, procVars
  <2> QED
    BY <1>4, <1>5, <1>6, <2>1, <2>2 DEF IInv
<1>12. CASE ScanEnd
  <2>1. ScanInv'
    BY <1>12 DEF ScanEnd, ScanInv
  <2>2. scanold <= mti /\ \A r \in Readers : Holding(r) => scanold <= pin[r]
    BY <1>0, <1>8, <1>12, ConstantFacts DEF ScanEnd, ScanInv, Readers
  <2>3. CachedOldestSafe'
    BY <1>0, <1>1, <1>2, <1>7, <1>8, <1>12, <2>2 DEF ScanEnd, CachedOldestSafe, Holding
  <2> QED
    BY <1>4, <1>5, <1>6, <2>1, <2>3 DEF IInv
<1>13. CASE AllocFail
  <2>1. ScanInv'
    BY <1>13 DEF AllocFail, ScanInv, Operating
  <2>2. CachedOldestSafe'
    BY <1>0, <1>1, <1>2, <1>7, <1>13 DEF AllocFail, CachedOldestSafe, Holding, procVars
  <2> QED
    BY <1>4, <1>5, <1>6, <2>1, <2>2 DEF IInv
<1> QED
  BY <1>10, <1>11, <1>12, <1>13

\* Pages that leave the trees.
LEMMA InvDrop ==
  ASSUME IInv, TypeInv', NEW q \in Pages, LoosePage(q) \/ FreePage(q) \/ FreeOverflow(q)
  PROVE  IInv'
<1>0. /\ TypeInv /\ MetaInv /\ MtiInv /\ ReaderInv /\ CachedOldestSafe /\ ScanInv
      /\ WriterInv /\ DiskInv
  BY DEF IInv
<1>1. DropPage(q) /\ dirty' \subseteq dirty
  BY DEF LoosePage, FreePage, FreeOverflow
<1>2. /\ UNCHANGED <<meta, disk, file, unsynced, mti, wlock, pin, readerVars, freedb, wtxn,
                     nextpg, pglast, alive, pgoldest>>
      /\ wph = "open" /\ wph' = "open" /\ q \in live /\ live' = live \ {q}
      /\ wtxn <= MaxTxn
  BY <1>1 DEF DropPage, Operating, fileVars, lockVars, procVars
<1>3. UNCHANGED <<New, Old, Newest, NewSlot>>
  BY <1>2, MetaFrame
<1>4. Building /\ Building' /\ ~InDoubt' /\ ~InDoubt /\ ~Synced' /\ ~Saved'
  BY <1>2 DEF Building, Saved, InDoubt, Synced
<1>5. \A t, S : Safe(t, S, New, file, freedb, dirty, pghead) =>
             Safe(t, S, New, file', freedb', dirty', pghead')
  <2>1. pghead' \subseteq pghead \cup dirty
    BY DEF LoosePage, FreePage, FreeOverflow
  <2> QED
    BY <1>1, <1>2, <2>1 DEF Safe
<1>6. MetaInv' /\ MtiInv' /\ ReaderInv'
  BY <1>2, <1>4, <1>5, KeepWriter
<1>7. DiskInv'
  BY <1>2, <1>4, KeepDisk
<1>8. ScanInv' /\ CachedOldestSafe'
  BY <1>0, <1>2 DEF ScanInv, CachedOldestSafe, readerVars
<1>9. WriterPages /\ NoFuture(freedb, Newest) /\ pglast <= Newest
      /\ (pglast = 0 => pghead = {})
  BY <1>0, <1>4 DEF WriterInv, BuildInv
<1>10. WriterPages'
  <2>1. CASE LoosePage(q)
    BY <1>2, <1>9, <2>1 DEF WriterPages, LoosePage
  <2>2. CASE FreePage(q)
    BY <1>2, <1>9, <2>2 DEF WriterPages, FreePage
  <2>3. CASE FreeOverflow(q)
    BY <1>2, <1>9, <2>3 DEF WriterPages, FreeOverflow
  <2> QED
    BY <2>1, <2>2, <2>3
<1>11. BaseInv'
  <2>1. \A x \in live' : x \in dirty' \/ file'[x] <= wtxn'
    BY <1>0, <1>2, <1>4 DEF WriterInv, BaseInv, LoosePage, FreePage, FreeOverflow
  <2> QED
    BY <1>0, <1>1, <1>2, <1>3, <1>4, <2>1 DEF WriterInv, BaseInv
<1>12. BuildInv'
  <2>1. pglast' = 0 => pghead' = {}
    BY <1>2, <1>9 DEF LoosePage, FreePage, FreeOverflow
  <2> QED
    BY <1>2, <1>3, <1>9, <1>10, <2>1 DEF BuildInv
<1>13. WriterInv'
  BY <1>2, <1>4, <1>11, <1>12 DEF WriterInv, SavedInv
<1> QED
  BY <1>6, <1>7, <1>8, <1>13 DEF IInv

\* mdb_page_alloc takes its page from the part of the file that neither a
\* version in use nor the transaction's own trees reach.
LEMMA AllocFacts ==
  ASSUME IInv, NEW n \in Pages, PageAlloc(n)
  PROVE  /\ Building /\ wtxn <= MaxTxn /\ wph \in {"open", "scanned"}
         /\ n \notin live /\ n \notin freepgs
         /\ \A t \in 0..mti, S \in SUBSET Pages :
              Safe(t, S, New, file, freedb, dirty, pghead) /\ pgoldest[wlock] <= t + 1 =>
                n \notin S /\ S \cap pghead' = {}
         /\ n \notin loose'
         /\ n \notin pghead' /\ pglast <= pglast'
         /\ \A t \in Txns : t > pglast' => n \notin freedb[t]
         /\ nextpg <= nextpg' /\ n < nextpg'
         /\ pglast' <= Newest /\ loose' \subseteq loose
         /\ pglast' = 0 => pghead' = {}
         /\ \A x \in Pages :
              x < nextpg' <=> \/ x = n \/ x \in live \/ x \in freepgs
                              \/ x \in loose' \/ x \in pghead'
                              \/ \E t \in Txns : t > pglast' /\ x \in freedb[t]
         /\ pghead' \cap live = {} /\ pghead' \cap freepgs = {} /\ pghead' \cap loose' = {}
         /\ \A t \in Txns : t > pglast' => freedb[t] \cap pghead' = {}
<1>0. TypeInv /\ WriterInv /\ MetaInv
  BY DEF IInv
<1>1. Building /\ wtxn <= MaxTxn /\ wph \in {"open", "scanned"}
  BY DEF PageAlloc, MayAllocate, Operating, Building
<1>2. WriterPages /\ NoFuture(freedb, Newest) /\ pglast <= Newest
      /\ (pglast = 0 => pghead = {})
  BY <1>0, <1>1 DEF WriterInv, BuildInv
<1>3. /\ pglast \in Nat /\ nextpg \in Nat /\ nextpg >= 2 /\ mti = Newest /\ Newest \in Nat
      /\ New.mm_last_pg < nextpg /\ freedb \in [Txns -> SUBSET Pages]
      /\ pgoldest[wlock] \in Nat /\ \A t \in Txns : t \in Nat /\ t >= 1
  <2>1. wlock \in Procs /\ mti = Newest /\ Newest \in Nat
    BY <1>1, WorkFacts DEF Building
  <2>2. \A t \in Txns : t \in Nat /\ t >= 1
    BY ConstantFacts DEF Txns
  <2>3. pglast \in Nat /\ nextpg \in Nat /\ nextpg >= 2
    BY <1>0, ConstantFacts DEF TypeInv, TypeOK, AllocType
  <2> QED
    BY <1>0, <1>1, <2>1, <2>2, <2>3, ConstantFacts
       DEF TypeInv, TypeOK, TxnType, ProcType, WriterInv, BaseInv
<1>4. \A x \in Pages : x \in Nat
  BY ConstantFacts DEF Pages
<1>m. New.mm_last_pg \in Nat
  BY <1>0, MetaFacts, MetaPageFields, ConstantFacts DEF MetaInv
<1>5. CASE AllocLoose(n)
  BY <1>1, <1>2, <1>3, <1>4, <1>5 DEF AllocLoose, WriterPages, Safe
<1>6. CASE AllocHead(n)
  BY <1>1, <1>2, <1>3, <1>4, <1>6 DEF AllocHead, WriterPages, Safe, IsMin
<1>7. CASE AllocRecord(n)
  <2>1. PICK t \in Txns : Reusable(t) /\ IsMin(n, freedb[t])
                          /\ pghead' = freedb[t] \ {n} /\ pglast' = t
    BY <1>7 DEF AllocRecord
  <2>2. loose = {} /\ pghead = {} /\ UNCHANGED <<loose, nextpg>>
    BY <1>7 DEF AllocRecord
  <2>3. t > pglast /\ t < pgoldest[wlock] /\ n \in freedb[t] /\ t \in Nat /\ t >= 1
    BY <1>3, <2>1 DEF Reusable, IsMin, Unread
  <2>4. \A k \in Txns : k > pglast /\ freedb[k] # {} => k >= t
    BY <1>3, <2>1 DEF Reusable, IsMin, Unread
  <2>5. t <= Newest
    BY <1>2, <1>3, <2>3 DEF NoFuture
  <2>6. \A x \in Pages : (\E k \in Txns : k > pglast /\ x \in freedb[k]) <=>
          x \in freedb[t] \/ (\E k \in Txns : k > t /\ x \in freedb[k])
    BY <1>3, <2>1, <2>3, <2>4
  <2>7. \A k \in Txns : k > t => k > pglast /\ k # t /\ freedb[k] \cap freedb[t] = {}
    BY <1>2, <1>3, <2>1, <2>3 DEF WriterPages
  <2>8. \A u \in 0..mti, S \in SUBSET Pages :
              Safe(u, S, New, file, freedb, dirty, pghead) /\ pgoldest[wlock] <= u + 1 =>
                n \notin S /\ S \cap pghead' = {}
    BY <1>3, <2>1, <2>3 DEF Safe
  <2>9. \A x \in Pages :
              x < nextpg' <=> \/ x = n \/ x \in live \/ x \in freepgs
                              \/ x \in loose' \/ x \in pghead'
                              \/ \E k \in Txns : k > pglast' /\ x \in freedb[k]
    BY <1>2, <1>3, <2>1, <2>2, <2>3, <2>6 DEF WriterPages
  <2>10. freedb[t] \cap live = {} /\ freedb[t] \cap freepgs = {}
    BY <1>2, <2>1, <2>3 DEF WriterPages
  <2>11. n < nextpg
    BY <1>2, <1>3, <2>3, <2>1 DEF WriterPages
  <2> QED
    BY <1>1, <1>2, <1>3, <1>4, <2>1, <2>2, <2>3, <2>5, <2>7, <2>8, <2>9, <2>10, <2>11
<1>8. CASE AllocNew(n)
  <2>1. n = nextpg /\ nextpg' = nextpg + 1 /\ UNCHANGED <<loose, pghead, pglast>>
    BY <1>8 DEF AllocNew
  <2>2. /\ n \notin live /\ n \notin freepgs /\ n \notin loose /\ n \notin pghead
        /\ \A t \in Txns : t > pglast => n \notin freedb[t]
    BY <1>2, <1>3, <2>1 DEF WriterPages
  <2>3. \A x \in Pages : x < nextpg' <=> x = n \/ x < nextpg
    BY <1>3, <1>4, <2>1
  <2>4. \A t \in 0..mti, S \in SUBSET Pages :
              Safe(t, S, New, file, freedb, dirty, pghead) => n \notin S /\ S \cap pghead' = {}
    BY <1>3, <1>m, <2>1 DEF Safe
  <2> QED
    BY <1>1, <1>2, <1>3, <1>4, <2>1, <2>2, <2>3, <2>4 DEF WriterPages
<1> QED
  BY <1>5, <1>6, <1>7, <1>8 DEF PageAlloc

\* Copy on write, and a new page.
LEMMA InvAlloc ==
  ASSUME IInv, TypeInv', NEW n \in Pages, PageAlloc(n), DirtyPage(n),
         \/ live' = live \cup {n} /\ freepgs' = freepgs
         \/ \E q \in live \ dirty : /\ live' = (live \ {q}) \cup {n}
                                    /\ freepgs' = freepgs \cup {q}
  PROVE  IInv'
<1>0. /\ TypeInv /\ MetaInv /\ MtiInv /\ ReaderInv /\ CachedOldestSafe /\ ScanInv
      /\ WriterInv /\ DiskInv
  BY DEF IInv
<1>1. /\ UNCHANGED <<meta, disk, mti, wlock, pin, readerVars, freedb, wtxn, alive, pgoldest>>
      /\ wph' = "open" /\ dirty' = dirty \cup {n} /\ Building /\ wtxn <= MaxTxn
  BY AllocFacts DEF DirtyPage, lockVars, procVars
<1>2. UNCHANGED <<New, Old, Newest, NewSlot>>
  BY <1>1, MetaFrame
<1>3. Building' /\ ~InDoubt' /\ ~InDoubt /\ ~Synced' /\ ~Saved' /\ wph # "none"
  BY <1>1 DEF Building, Saved, InDoubt, Synced
<1>4. /\ file' = IF WriteMap THEN [file EXCEPT ![n] = wtxn] ELSE file
      /\ unsynced' = IF WriteMap THEN unsynced \cup {n} ELSE unsynced
  BY DEF DirtyPage
<1>f. file \in [Pages -> 0..NoTxn]
  BY <1>0 DEF TypeInv, TypeOK, FileType
<1>w. /\ wlock \in Procs /\ alive[wlock] /\ mti = Newest /\ wtxn = Newest + 1
      /\ Newest \in Nat /\ Newest <= MaxTxn
  BY <1>1, <1>3, WorkFacts
<1>5. \A t \in 0..Newest : Known(t) => pgoldest[wlock] <= t + 1
  <2>1. pgoldest[wlock] \in Nat /\ \A r \in Readers : pin[r] \in Nat
    BY <1>0, <1>w, ConstantFacts DEF TypeInv, TypeOK, ProcType, ReaderType
  <2> QED
    BY <1>0, <1>w, <2>1 DEF Known, CachedOldestSafe, Holding
<1>6. \A t \in 0..Newest, S \in SUBSET Pages :
        Known(t) /\ Safe(t, S, New, file, freedb, dirty, pghead) =>
          n \notin S /\ S \cap pghead' = {}
  BY <1>5, <1>w, AllocFacts
<1>7. \A t \in 0..Newest, S \in SUBSET Pages :
        Known(t) /\ Safe(t, S, New, file, freedb, dirty, pghead) =>
          Safe(t, S, New', file', freedb', dirty', pghead')
  <2> SUFFICES ASSUME NEW t \in 0..Newest, NEW S \in SUBSET Pages, n \notin S,
                      S \cap pghead' = {}, Safe(t, S, New, file, freedb, dirty, pghead)
               PROVE  Safe(t, S, New', file', freedb', dirty', pghead')
    BY <1>6
  <2>1. \A q \in S : file'[q] = file[q]
    BY <1>4, <1>f
  <2> QED
    BY <1>1, <1>2, <2>1 DEF Safe
<1>8. MetaInv' /\ MtiInv' /\ ReaderInv'
  BY <1>1, <1>2, <1>3, <1>7, KeepWriter
<1>9. DiskInv'
  <2>1. New.mm_dbs.live \in SUBSET Pages /\ Old.mm_dbs.live \in SUBSET Pages
    BY <1>0, MetaFacts, MetaPageFields DEF MetaInv
  <2>2. n \notin New.mm_dbs.live
    <3>1. Known(Newest) /\ Newest \in 0..Newest
      BY <1>w DEF Known
    <3> QED
      BY <1>0, <1>6, <2>1, <3>1 DEF MetaInv, Committed, Protected, Newest
  <2>3. OldKept => n \notin Old.mm_dbs.live
    <3> SUFFICES ASSUME OldKept PROVE n \notin Old.mm_dbs.live
      OBVIOUS
    <3>1. Committed(Old) /\ Old.mm_txnid + 1 = Newest /\ Old.mm_txnid \in Nat
      BY <1>0, MetaFacts, MetaPageFields, ConstantFacts DEF MetaInv
    <3>2. Known(Old.mm_txnid) /\ Old.mm_txnid \in 0..Newest
      BY <1>w, <3>1 DEF Known
    <3> QED
      BY <1>6, <2>1, <3>1, <3>2 DEF Committed, Protected
  <2> QED
    BY <1>1, <1>3, <1>4, <2>2, <2>3, KeepDisk
<1>10. ScanInv' /\ CachedOldestSafe'
  BY <1>0, <1>1 DEF ScanInv, CachedOldestSafe, readerVars
<1>11. BaseInv'
  <2>1. file'[n] <= wtxn' \/ ~WriteMap
    BY <1>1, <1>4, <1>f, <1>w
  <2>2. \A q \in live' : q \in dirty' \/ file'[q] <= wtxn'
    <3>1. \A q \in live : q \in dirty \/ file[q] <= wtxn
      BY <1>0, <1>1 DEF WriterInv, BaseInv
    <3> QED
      BY <1>0, <1>1, <1>4, <1>f, <3>1 DEF TypeInv, TypeOK, TxnType
  <2>3. \A q \in dirty' : WriteMap => file'[q] <= wtxn'
    BY <1>0, <1>1, <1>4, <1>f, <2>1 DEF WriterInv, BaseInv, TypeInv, TypeOK, TxnType
  <2>4. New.mm_last_pg < nextpg'
    <3>1. New.mm_last_pg \in Nat
      BY <1>0, MetaFacts, MetaPageFields, ConstantFacts DEF MetaInv
    <3>2. nextpg \in Nat /\ nextpg' \in Nat
      BY <1>0, ConstantFacts DEF TypeInv, TypeOK, AllocType
    <3> QED
      BY <1>0, <1>1, <3>1, <3>2, AllocFacts DEF WriterInv, BaseInv
  <2> QED
    BY <1>1, <1>2, <1>w, <2>2, <2>3, <2>4 DEF BaseInv
<1>12. WriterPages'
  <2>0. WriterPages /\ \A t \in Txns : t > pglast' => t > pglast
    <3>1. pglast \in Nat /\ pglast' \in Nat /\ \A t \in Txns : t \in Nat
      BY <1>0, ConstantFacts DEF TypeInv, TypeOK, AllocType, Txns
    <3> QED
      BY <1>0, <1>1, <3>1, AllocFacts DEF WriterInv, BuildInv
  <2>1. CASE live' = live \cup {n} /\ freepgs' = freepgs
    BY <1>1, <2>0, <2>1, AllocFacts DEF WriterPages
  <2>2. CASE \E q \in live \ dirty : /\ live' = (live \ {q}) \cup {n}
                                     /\ freepgs' = freepgs \cup {q}
    <3>1. PICK q \in live \ dirty : /\ live' = (live \ {q}) \cup {n}
                                    /\ freepgs' = freepgs \cup {q}
      BY <2>2
    <3> QED
      BY <1>1, <2>0, <3>1, AllocFacts DEF WriterPages
  <2> QED
    BY <2>1, <2>2
<1>13. BuildInv'
  <2>1. NoFuture(freedb, Newest)
    BY <1>0, <1>1 DEF WriterInv, BuildInv
  <2> QED
    BY <1>1, <1>2, <1>12, <2>1, AllocFacts DEF BuildInv
<1>14. WriterInv'
  BY <1>1, <1>3, <1>11, <1>13 DEF WriterInv, SavedInv
<1> QED
  BY <1>8, <1>9, <1>10, <1>14 DEF IInv

\* Every operation on the trees keeps the invariant.
LEMMA InvOperation ==
  ASSUME IInv, TypeInv', OperationStep
  PROVE  IInv'
<1>1. CASE NewPage
  BY <1>1, InvAlloc DEF NewPage
<1>2. CASE \E q \in Pages : Touch(q)
  <2>1. PICK q \in Pages : Touch(q)
    BY <1>2
  <2>2. PICK n \in Pages : /\ PageAlloc(n) /\ DirtyPage(n)
                           /\ live' = (live \ {q}) \cup {n} /\ freepgs' = freepgs \cup {q}
    BY <2>1 DEF Touch
  <2>3. q \in live \ dirty
    BY <2>1 DEF Touch
  <2> QED
    BY <2>2, <2>3, InvAlloc
<1> QED
  BY <1>1, <1>2, InvScan, InvDrop DEF OperationStep, PageStep

\* mdb_freelist_save turns the page lists into a whole meta page.
LEMMA InvSave ==
  ASSUME IInv, TypeInv', FreelistSave
  PROVE  IInv'
<1>0. /\ TypeInv /\ MetaInv /\ MtiInv /\ ReaderInv /\ CachedOldestSafe /\ ScanInv
      /\ WriterInv /\ DiskInv
  BY DEF IInv
<1>1. /\ UNCHANGED <<meta, disk, file, unsynced, mti, wlock, pin, readerVars, wtxn, live,
                     nextpg, pglast, freepgs, alive, pgoldest>>
      /\ wph = "open" /\ wph' = "saved" /\ pghead' = {} /\ loose' = {}
      /\ dirty' \subseteq dirty /\ loose \cap live = {}
      /\ dirty' = IF pglast = 0 THEN dirty \ loose ELSE dirty
  BY <1>0 DEF FreelistSave, WStep, fileVars, lockVars, procVars, WriterInv, BuildInv,
     WriterPages, Building
<1>2. UNCHANGED <<New, Old, Newest, NewSlot>>
  BY <1>1, MetaFrame
<1>3. Building /\ ~Building' /\ Saved' /\ ~InDoubt' /\ ~InDoubt /\ ~Synced' /\ wph # "none"
  BY <1>1 DEF Building, Saved, InDoubt, Synced
<1>w. /\ mti = Newest /\ wtxn = Newest + 1 /\ Newest \in Nat /\ wtxn \in Txns
      /\ wtxn <= MaxTxn
  <2>1. wtxn # NoTxn
    BY <1>0 DEF FreelistSave, TypeInv, TxnBound
  <2> QED
    BY <1>0, <1>3, <2>1, WorkFacts, ConstantFacts DEF TypeInv, TypeOK, TxnType, Txns
<1>b. /\ WriterPages /\ NoFuture(freedb, Newest) /\ pglast <= Newest
      /\ (pglast = 0 => pghead = {}) /\ pglast \in Nat
      /\ \A t \in Txns : t \in Nat /\ t >= 1
  BY <1>0, <1>3, ConstantFacts DEF WriterInv, BuildInv, TypeInv, TypeOK, AllocType, Txns
<1> DEFINE spare == IF pglast = 0 THEN {} ELSE pghead \cup loose
           freed == IF pglast = 0 THEN freepgs \cup loose ELSE freepgs
<1>4. PICK key \in [spare -> 1..pglast] :
         freedb' = [t \in Txns |->
                       IF t = wtxn THEN freed
                       ELSE IF t <= pglast THEN {q \in spare : key[q] = t}
                       ELSE freedb[t]]
  BY DEF FreelistSave
\* The records of the new freeDB.
<1>5. /\ freedb'[wtxn] = freed
      /\ \A t \in Txns : t <= pglast => freedb'[t] = {q \in spare : key[q] = t}
      /\ \A t \in Txns : t > pglast /\ t # wtxn => freedb'[t] = freedb[t]
  BY <1>4, <1>b, <1>w
<1>6. /\ freedb[wtxn] = {} /\ pglast < wtxn
      /\ \A t \in Txns : t > wtxn => freedb[t] = {}
  <2>1. \A t \in Txns : t > Newest => freedb[t] = {}
    BY <1>b DEF NoFuture
  <2>2. wtxn > Newest /\ pglast < wtxn /\ \A t \in Txns : t > wtxn => t > Newest
    BY ONLY <1>b, <1>w
  <2> QED
    BY ONLY <2>1, <2>2, <1>w
<1>7. \A q \in spare : key[q] \in Txns /\ key[q] <= pglast
  <2> SUFFICES ASSUME NEW q \in spare PROVE key[q] \in Txns /\ key[q] <= pglast
    OBVIOUS
  <2>1. key[q] \in 1..pglast
    BY <1>4
  <2> HIDE DEF spare
  <2> QED
    BY <2>1, <1>b, <1>w, ConstantFacts DEF Txns
<1>8. \A q : (\E t \in Txns : q \in freedb'[t]) <=>
        \/ q \in freepgs \/ q \in loose \/ q \in pghead
        \/ \E t \in Txns : t > pglast /\ q \in freedb[t]
  <2>1. ASSUME NEW q, NEW t \in Txns, q \in freedb'[t]
        PROVE  \/ q \in freepgs \/ q \in loose \/ q \in pghead
               \/ \E u \in Txns : u > pglast /\ q \in freedb[u]
    <3>1. CASE t = wtxn
      BY <2>1, <3>1, <1>5
    <3>2. CASE t <= pglast
      BY <2>1, <3>2, <1>5
    <3>3. CASE t > pglast /\ t # wtxn
      BY <2>1, <3>3, <1>5
    <3> QED
      BY <3>1, <3>2, <3>3, <1>b
  <2>2. ASSUME NEW q, q \in freepgs PROVE \E t \in Txns : q \in freedb'[t]
    BY <2>2, <1>5, <1>w
  <2>3. ASSUME NEW q, q \in loose \cup pghead PROVE \E t \in Txns : q \in freedb'[t]
    <3>1. CASE pglast = 0
      BY <2>3, <3>1, <1>5, <1>w, <1>b
    <3>2. CASE pglast # 0
      <4>1. q \in spare
        BY <2>3, <3>2
      <4> QED
        BY <4>1, <1>5, <1>7
    <3> QED
      BY <3>1, <3>2
  <2>4. ASSUME NEW q, NEW t \in Txns, t > pglast, q \in freedb[t]
        PROVE \E u \in Txns : q \in freedb'[u]
    <3>1. t # wtxn
      BY <2>4, <1>6
    <3> QED
      BY <2>4, <3>1, <1>5
  <2> QED
    BY <2>1, <2>2, <2>3, <2>4
<1>9. \A t \in Txns : live \cap freedb'[t] = {}
  BY <1>b, <1>5 DEF WriterPages
<1>10. \A t, u \in Txns : t # u => freedb'[t] \cap freedb'[u] = {}
  <2> SUFFICES ASSUME NEW t \in Txns, NEW u \in Txns, t < u
               PROVE  freedb'[t] \cap freedb'[u] = {}
    BY <1>b
  <2>d. spare \cap freed = {}
    BY <1>b DEF WriterPages
  <2>e. \A k \in Txns : k > pglast => freedb[k] \cap spare = {} /\ freedb[k] \cap freed = {}
    BY <1>b DEF WriterPages
  <2> HIDE DEF spare, freed
  <2>1. CASE u <= pglast
    BY <1>5, <1>b, <2>1
  <2>2. CASE t <= pglast /\ u > pglast /\ u # wtxn
    BY <1>5, <2>2, <2>e
  <2>3. CASE t <= pglast /\ u = wtxn
    BY <1>5, <2>3, <2>d
  <2>4. CASE t > pglast /\ u # wtxn /\ t # wtxn
    BY <1>5, <1>b, <2>4 DEF WriterPages
  <2>5. CASE t > pglast /\ (u = wtxn \/ t = wtxn)
    BY <1>5, <1>b, <2>5, <2>e
  <2> QED
    BY <2>1, <2>2, <2>3, <2>4, <2>5, <1>b
<1>11. \A t \in 0..Newest, S \in SUBSET Pages :
        Safe(t, S, New, file, freedb, dirty, pghead) =>
          Safe(t, S, New', file', freedb', dirty', pghead')
  <2> SUFFICES ASSUME NEW t \in 0..Newest, NEW S \in SUBSET Pages,
                      Safe(t, S, New, file, freedb, dirty, pghead)
               PROVE  Safe(t, S, New', file', freedb', dirty', pghead')
    OBVIOUS
  <2>1. S \cap spare = {}
    BY <1>b DEF Safe, WriterPages
  <2>2. \A k \in Txns : k <= t => S \cap freedb'[k] = {}
    <3> SUFFICES ASSUME NEW k \in Txns, k <= t PROVE S \cap freedb'[k] = {}
      OBVIOUS
    <3>1. k # wtxn
      BY <1>w
    <3>2. CASE k <= pglast
      BY <1>5, <2>1, <3>2
    <3>3. CASE k > pglast
      BY <1>5, <3>1, <3>3 DEF Safe
    <3> QED
      BY <1>b, <3>2, <3>3
  <2> QED
    BY <1>1, <1>2, <2>2 DEF Safe
<1>12. MetaInv' /\ MtiInv' /\ ReaderInv'
  <2>1. /\ UNCHANGED <<meta, mti, wlock, pin, readerVars, alive>>
        /\ wph # "none" /\ (InDoubt' <=> InDoubt) /\ UNCHANGED disk
    BY <1>1, <1>3
  <2>2. \A t \in 0..Newest, S \in SUBSET Pages :
          Known(t) /\ Safe(t, S, New, file, freedb, dirty, pghead) =>
            Safe(t, S, New, file', freedb', dirty', pghead')
    BY ONLY <1>2, <1>11
  <2> QED
    BY ONLY IInv, <2>1, <2>2, KeepWriter
<1>13. DiskInv'
  BY <1>1, <1>3, KeepDisk
<1>14. ScanInv' /\ CachedOldestSafe'
  BY <1>0, <1>1 DEF ScanInv, CachedOldestSafe, readerVars
<1>15. BaseInv'
  <2>1. \A x \in live' : x \in dirty' \/ file'[x] <= wtxn'
    BY <1>0, <1>1, <1>3 DEF WriterInv, BaseInv
  <2> QED
    BY <1>0, <1>1, <1>2, <1>3, <2>1 DEF WriterInv, BaseInv
<1>16. WholeMeta(SavedMeta)'
  <2>1. nextpg \in Nat /\ \A q \in Pages : q \in Nat
    BY <1>0, ConstantFacts DEF TypeInv, TypeOK, AllocType, Pages
  <2>2. \A q \in Pages : q <= nextpg - 1 <=> q \in live \/ \E t \in Txns : q \in freedb'[t]
    BY <1>8, <1>b, <2>1 DEF WriterPages
  <2> QED
    BY <1>1, <1>9, <1>10, <2>2 DEF WholeMeta, SavedMeta, NewDbs
<1>17. NoFuture(freedb, wtxn)'
  <2>1. \A t \in Txns : t > wtxn => freedb'[t] = {}
    BY ONLY <1>5, <1>6, <1>w, <1>b
  <2> QED
    BY <1>1, <2>1 DEF NoFuture
<1>18. WriterInv'
  BY <1>1, <1>3, <1>15, <1>16, <1>17 DEF WriterInv, SavedInv, BuildInv
<1> QED
  BY <1>12, <1>13, <1>14, <1>18 DEF IInv

\* mdb_page_flush keeps the invariant: it writes no page of a version in use.
LEMMA InvFlush ==
  ASSUME IInv, TypeInv', PageFlush
  PROVE  IInv'
<1>0. /\ TypeInv /\ MetaInv /\ MtiInv /\ ReaderInv /\ CachedOldestSafe /\ ScanInv
      /\ WriterInv /\ DiskInv
  BY DEF IInv
<1>1. /\ UNCHANGED <<meta, disk, mti, wlock, pin, readerVars, wtxn, live, freedb, pghead,
                     nextpg, alive, pgoldest>>
      /\ wph = "saved" /\ wph' = "flushed" /\ dirty' = {}
      /\ file' = IF WriteMap THEN file
                 ELSE [q \in Pages |-> IF q \in dirty THEN wtxn ELSE file[q]]
      /\ unsynced' \subseteq unsynced \cup dirty
  BY DEF PageFlush, WStep, lockVars, procVars
<1>2. UNCHANGED <<New, Old, Newest, NewSlot>>
  BY <1>1, MetaFrame
<1>3. /\ Saved /\ Saved' /\ ~Building' /\ ~InDoubt' /\ ~InDoubt /\ ~Synced'
      /\ wph # "none" /\ (InDoubt' <=> InDoubt)
  BY <1>1 DEF Building, Saved, InDoubt, Synced
<1>w. wtxn = Newest + 1 /\ Newest \in Nat /\ mti = Newest
  BY <1>3, WorkFacts
<1>4. \A t \in 0..Newest, S \in SUBSET Pages :
        Known(t) /\ Safe(t, S, New, file, freedb, dirty, pghead) =>
          Safe(t, S, New', file', freedb', dirty', pghead')
  <2> SUFFICES ASSUME NEW t \in 0..Newest, NEW S \in SUBSET Pages,
                      Safe(t, S, New, file, freedb, dirty, pghead)
               PROVE  Safe(t, S, New', file', freedb', dirty', pghead')
    OBVIOUS
  <2>1. \A q \in S : file'[q] = file[q]
    BY <1>1 DEF Safe
  <2> QED
    BY <1>1, <1>2, <2>1 DEF Safe
<1>5. MetaInv' /\ MtiInv' /\ ReaderInv'
  <2>1. /\ UNCHANGED <<meta, mti, wlock, pin, readerVars, alive>>
        /\ wph # "none" /\ (InDoubt' <=> InDoubt) /\ UNCHANGED disk
    BY <1>1, <1>3
  <2>2. \A t \in 0..Newest, S \in SUBSET Pages :
          Known(t) /\ Safe(t, S, New, file, freedb, dirty, pghead) =>
            Safe(t, S, New, file', freedb', dirty', pghead')
    BY ONLY <1>2, <1>4
  <2> QED
    BY ONLY IInv, <2>1, <2>2, KeepWriter
<1>6. DiskInv'
  <2>1. New.mm_dbs.live \cap dirty = {} /\ (OldKept => Old.mm_dbs.live \cap dirty = {})
    BY <1>0 DEF MetaInv, Committed, Protected, Safe
  <2> QED
    BY <1>1, <1>3, <2>1, KeepDisk
<1>7. ScanInv' /\ CachedOldestSafe'
  BY <1>0, <1>1 DEF ScanInv, CachedOldestSafe, readerVars
<1>8. BaseInv'
  <2>1. /\ \A x \in live : x \in dirty \/ file[x] <= wtxn
        /\ \A x \in dirty : WriteMap => file[x] <= wtxn
        /\ New.mm_last_pg < nextpg
    BY <1>0, <1>3 DEF WriterInv, BaseInv
  <2>2. \A x \in live : file'[x] <= wtxn
    BY <1>0, <1>1, <1>w, <2>1 DEF TypeInv, TypeOK, TxnType
  <2> QED
    BY <1>1, <1>2, <1>w, <2>1, <2>2 DEF BaseInv
<1>9. SavedInv'
  BY <1>0, <1>1, <1>3 DEF WriterInv, SavedInv, SavedMeta, NewDbs
<1>10. WriterInv'
  BY <1>1, <1>3, <1>8, <1>9 DEF WriterInv, BuildInv
<1> QED
  BY <1>5, <1>6, <1>7, <1>10 DEF IInv

\* mdb_env_sync0 before the meta page keeps the invariant.
LEMMA InvSync ==
  ASSUME IInv, TypeInv', EnvSync0
  PROVE  IInv'
<1>0. /\ TypeInv /\ MetaInv /\ MtiInv /\ ReaderInv /\ CachedOldestSafe /\ ScanInv
      /\ WriterInv /\ DiskInv
  BY DEF IInv
<1>1. /\ UNCHANGED <<meta, file, mti, wlock, pin, readerVars, wtxn, live, freedb, pghead,
                     nextpg, dirty, alive, pgoldest>>
      /\ wph = "flushed" /\ wph' = "synced"
      /\ IF NoSync THEN UNCHANGED disk ELSE disk' = meta /\ unsynced' = {}
  BY DEF EnvSync0, WStep, lockVars, procVars
<1>2. UNCHANGED <<New, Old, Newest, NewSlot>>
  BY <1>1, MetaFrame
<1>3. /\ Saved /\ Saved' /\ ~Building' /\ ~InDoubt' /\ ~InDoubt /\ wph # "none"
  BY <1>1 DEF Building, Saved, InDoubt
<1>4. MetaInv'
  <2>1. OldKept' => OldKept
    BY <1>1, <1>2 DEF OldKept, Up, New
  <2>2. UNCHANGED <<meta, file, freedb, dirty, pghead>>
    BY <1>1
  <2> QED
    BY ONLY IInv, <1>2, <2>1, <2>2, KeepMeta
<1>5. MtiInv'
  BY <1>0, <1>1, <1>2, <1>3 DEF MtiInv, Up
<1>6. ReaderInv'
  BY <1>0, <1>1, <1>2 DEF ReaderInv, Protected, Holding, readerVars
<1>7. ScanInv' /\ CachedOldestSafe'
  BY <1>0, <1>1 DEF ScanInv, CachedOldestSafe, readerVars
<1>8. WriterInv'
  BY <1>0, <1>1, <1>2, <1>3 DEF WriterInv, BaseInv, BuildInv, SavedInv, SavedMeta, NewDbs
<1>9. DiskInv'
  <2>1. CASE NoSync
    BY <1>0, <1>1, <2>1 DEF DiskInv, InPlace
  <2>2. CASE ~NoSync
    <3>1. \A s \in Metas : meta[s].mm_txnid \in 0..MaxTxn
      BY <1>0, MetaPageFields DEF TypeInv, TypeOK, FileType
    <3>2. InPlace(disk)' /\ \A s \in Metas : disk'[s].mm_txnid <= meta'[s].mm_txnid
      BY <1>0, <1>1, <2>2, <3>1, ConstantFacts DEF MetaInv, InPlace
    <3>3. disk'[NewSlot'] = New' /\ unsynced' = {}
      BY <1>1, <1>2, <2>2 DEF New
    <3> QED
      BY <3>2, <3>3 DEF DiskInv
  <2> QED
    BY <2>1, <2>2
<1> QED
  BY <1>4, <1>5, <1>6, <1>7, <1>8, <1>9 DEF IInv

\* The two steps that fill the older meta page while it is still the older:
\* nobody is sent to it.
LEMMA InvMetaFill ==
  ASSUME IInv, TypeInv', WriteMetaDbs \/ WriteMetaLastPg
  PROVE  IInv'
<1>0. /\ TypeInv /\ MetaInv /\ MtiInv /\ ReaderInv /\ CachedOldestSafe /\ ScanInv
      /\ WriterInv /\ DiskInv
  BY DEF IInv
<1>1. /\ UNCHANGED <<disk, file, unsynced, mti, wlock, pin, readerVars, wtxn, live, freedb,
                     pghead, nextpg, dirty, alive, pgoldest>>
      /\ wph \in {"synced", "dbs"} /\ wph' \in {"dbs", "last_pg"}
      /\ wph' = IF wph = "synced" THEN "dbs" ELSE "last_pg"
  BY DEF WriteMetaDbs, WriteMetaLastPg, MetaStep, WStep, lockVars, procVars
<1>3. /\ Saved /\ Saved' /\ ~Building' /\ ~InDoubt' /\ ~InDoubt /\ wph # "none" /\ Synced
      /\ Synced'
  BY <1>1 DEF Building, Saved, InDoubt, Synced
<1>w. /\ wtxn = Newest + 1 /\ Newest \in Nat /\ mti = Newest
      /\ Slot(wtxn) = 1 - NewSlot /\ NewSlot \in Metas /\ 1 - NewSlot \in Metas
      /\ NewSlot # 1 - NewSlot
  <2>1. wtxn = Newest + 1 /\ Newest \in Nat /\ mti = Newest
    BY <1>3, WorkFacts
  <2>2. Slot(wtxn) = 1 - NewSlot /\ NewSlot \in Metas /\ 1 - NewSlot \in Metas
    BY <1>0, <2>1, MetaFacts DEF MetaInv
  <2> QED
    BY <2>1, <2>2 DEF Metas
<1>m. meta \in [Metas -> MetaPage] /\ \A s \in Metas : meta[s] \in MetaPage
  BY <1>0 DEF TypeInv, TypeOK, FileType
<1>4. /\ meta'[NewSlot] = meta[NewSlot]
      /\ \A s \in Metas : meta'[s].mm_txnid = meta[s].mm_txnid
      /\ meta'[1 - NewSlot].mm_dbs = NewDbs
      /\ wph' = "last_pg" => meta'[1 - NewSlot].mm_last_pg = nextpg - 1
  <2>1. CASE WriteMetaDbs
    <3>1. meta' = [meta EXCEPT ![1 - NewSlot] = [meta[1 - NewSlot] EXCEPT !.mm_dbs = NewDbs]]
          /\ wph' = "dbs"
      BY <1>w, <2>1 DEF WriteMetaDbs, MetaStep, WStep
    <3>2. meta[1 - NewSlot] \in MetaPage
      BY <1>m, <1>w
    <3> DEFINE o == [meta[1 - NewSlot] EXCEPT !.mm_dbs = NewDbs]
    <3>3. o.mm_dbs = NewDbs /\ o.mm_txnid = meta[1 - NewSlot].mm_txnid
      BY <3>2 DEF MetaPage
    <3> HIDE DEF o
    <3>4. meta'[1 - NewSlot] = o /\ \A s \in Metas : s # 1 - NewSlot => meta'[s] = meta[s]
      BY <3>1, <1>m, <1>w DEF o
    <3> QED
      BY <3>1, <3>3, <3>4, <1>w
  <2>2. CASE WriteMetaLastPg
    <3>1. meta' = [meta EXCEPT ![1 - NewSlot] =
                     [meta[1 - NewSlot] EXCEPT !.mm_last_pg = nextpg - 1]]
          /\ wph = "dbs"
      BY <1>w, <2>2 DEF WriteMetaLastPg, MetaStep, WStep
    <3>2. meta[1 - NewSlot] \in MetaPage /\ meta[1 - NewSlot].mm_dbs = NewDbs
      BY <1>0, <1>m, <1>w, <3>1 DEF WriterInv, SavedInv
    <3> DEFINE o == [meta[1 - NewSlot] EXCEPT !.mm_last_pg = nextpg - 1]
    <3>3. o.mm_dbs = NewDbs /\ o.mm_txnid = meta[1 - NewSlot].mm_txnid
          /\ o.mm_last_pg = nextpg - 1
      BY <3>2 DEF MetaPage
    <3> HIDE DEF o
    <3>4. meta'[1 - NewSlot] = o /\ \A s \in Metas : s # 1 - NewSlot => meta'[s] = meta[s]
      BY <3>1, <1>m, <1>w DEF o
    <3> QED
      BY <3>3, <3>4, <1>w
  <2> QED
    BY <2>1, <2>2
<1>5. UNCHANGED <<New, Newest, NewSlot>> /\ NewDbs' = NewDbs
      /\ Old' = meta'[1 - NewSlot] /\ Old'.mm_dbs.ver = wtxn
  <2>1. NewSlot' = NewSlot
    BY <1>4 DEF NewSlot, Metas
  <2>2. New' = New
    BY <1>4, <2>1 DEF New
  <2>3. NewDbs' = NewDbs /\ NewDbs.ver = wtxn
    BY <1>1 DEF NewDbs
  <2> QED
    BY <1>4, <2>1, <2>2, <2>3 DEF Newest, Old
<1>6. ~OldKept'
  BY <1>0, <1>1, <1>3, <1>5, <1>w DEF OldKept, DiskInv
<1>7. MetaInv'
  <2>1. InPlace(meta)'
    BY <1>0, <1>4 DEF MetaInv, InPlace
  <2>2. Committed(New)'
    BY <1>0, <1>1, <1>5 DEF MetaInv, Committed, Protected
  <2> QED
    BY <1>6, <2>1, <2>2 DEF MetaInv
<1>8. MtiInv'
  BY <1>0, <1>1, <1>3, <1>5, <1>w DEF MtiInv, Up
<1>9. ReaderInv'
  <2>1. \A r \in Readers : Holding(r) =>
          \/ meta'[Slot(pin[r])].mm_dbs = meta[Slot(pin[r])].mm_dbs
          \/ meta'[Slot(pin[r])].mm_dbs.ver # pin[r]
    <3> SUFFICES ASSUME NEW r \in Readers, Holding(r)
                 PROVE  \/ meta'[Slot(pin[r])].mm_dbs = meta[Slot(pin[r])].mm_dbs
                        \/ meta'[Slot(pin[r])].mm_dbs.ver # pin[r]
      OBVIOUS
    <3>1. pin[r] <= Newest /\ pin[r] \in Nat
      BY <1>0, <1>w, ConstantFacts DEF ReaderInv, TypeInv, TypeOK, ReaderType
    <3>2. Slot(pin[r]) = NewSlot \/ Slot(pin[r]) = 1 - NewSlot
      BY <1>w, <3>1, SlotFacts DEF Metas
    <3> QED
      BY <1>4, <1>5, <1>w, <3>1, <3>2
  <2>2. \A r \in Readers :
        /\ rpc'[r] \notin {"idle", "dead"} => alive'[Home[r]]
        /\ Holding(r)' =>
             /\ mti <= mti' /\ rpc'[r] = rpc[r] /\ pin'[r] = pin[r]
             /\ rver'[r] = rver[r] /\ rlive'[r] = rlive[r]
        /\ rpc'[r] = "pinned" =>
             \/ meta'[Slot(pin[r])].mm_dbs = meta[Slot(pin[r])].mm_dbs
             \/ meta'[Slot(pin[r])].mm_dbs.ver # pin[r]
    BY <1>0, <1>1, <1>w, <2>1 DEF ReaderInv, readerVars, Holding
  <2>3. mti \in 0..MaxTxn /\ mti' \in 0..MaxTxn
    BY <1>0, <1>1 DEF TypeInv, TypeOK, ProcType
  <2>4. UNCHANGED <<New, file, freedb, dirty, pghead>>
    BY <1>1, <1>5
  <2> QED
    BY ONLY IInv, <2>2, <2>3, <2>4, KeepReader
<1>10. ScanInv' /\ CachedOldestSafe'
  BY <1>0, <1>1 DEF ScanInv, CachedOldestSafe, readerVars
<1>11. WriterInv'
  <2>1. SavedInv'
    BY <1>0, <1>1, <1>3, <1>4, <1>5 DEF WriterInv, SavedInv, SavedMeta
  <2>2. BaseInv'
    BY <1>0, <1>1, <1>3, <1>5 DEF WriterInv, BaseInv
  <2> QED
    BY <1>1, <1>3, <2>1, <2>2 DEF WriterInv, BuildInv
<1>12. DiskInv'
  BY <1>0, <1>1, <1>3, <1>4, <1>5 DEF DiskInv, InPlace
<1> QED
  BY <1>7, <1>8, <1>9, <1>10, <1>11, <1>12 DEF IInv

\* The step that makes the older meta page the newest one.
LEMMA InvMetaTxnid ==
  ASSUME IInv, TypeInv', WriteMetaTxnid
  PROVE  IInv'
<1>0. /\ TypeInv /\ MetaInv /\ MtiInv /\ ReaderInv /\ CachedOldestSafe /\ ScanInv
      /\ WriterInv /\ DiskInv
  BY DEF IInv
<1>1. /\ UNCHANGED <<disk, file, unsynced, mti, wlock, pin, readerVars, wtxn, live, freedb,
                     pghead, nextpg, dirty, alive, pgoldest>>
      /\ wph = "last_pg" /\ wph' = "txnid"
      /\ meta' = [meta EXCEPT ![Slot(wtxn)].mm_txnid = wtxn]
  BY DEF WriteMetaTxnid, MetaStep, WStep, lockVars, procVars
<1>3. /\ Saved /\ ~Saved' /\ ~Building' /\ InDoubt' /\ wph # "none" /\ Synced /\ ~Synced'
  BY <1>1 DEF Building, Saved, InDoubt, Synced
<1>w. /\ wtxn = Newest + 1 /\ Newest \in Nat /\ mti = Newest
      /\ Slot(wtxn) = 1 - NewSlot /\ NewSlot \in Metas /\ 1 - NewSlot \in Metas
      /\ NewSlot # 1 - NewSlot
      /\ Old.mm_txnid < Newest \/ (Newest = 0 /\ Old.mm_txnid = 0 /\ NewSlot = 0)
  <2>1. wtxn = Newest + 1 /\ Newest \in Nat /\ mti = Newest
    BY <1>3, WorkFacts
  <2>2. /\ Slot(wtxn) = 1 - NewSlot /\ NewSlot \in Metas /\ 1 - NewSlot \in Metas
        /\ Old.mm_txnid < Newest \/ (Newest = 0 /\ Old.mm_txnid = 0 /\ NewSlot = 0)
    BY <1>0, <2>1, MetaFacts DEF MetaInv
  <2> QED
    BY <2>1, <2>2 DEF Metas
<1>m. meta \in [Metas -> MetaPage] /\ \A s \in Metas : meta[s] \in MetaPage
  BY <1>0 DEF TypeInv, TypeOK, FileType
<1>s. /\ WholeMeta(SavedMeta) /\ NoFuture(freedb, wtxn) /\ pghead = {} /\ dirty = {}
      /\ meta[1 - NewSlot].mm_dbs = NewDbs /\ meta[1 - NewSlot].mm_last_pg = nextpg - 1
      /\ New.mm_last_pg < nextpg /\ \A q \in live : file[q] <= wtxn
  BY <1>0, <1>1, <1>3 DEF WriterInv, SavedInv, BaseInv
<1>4. /\ meta'[NewSlot] = meta[NewSlot]
      /\ meta'[1 - NewSlot].mm_dbs = NewDbs
      /\ meta'[1 - NewSlot].mm_last_pg = nextpg - 1
      /\ meta'[1 - NewSlot].mm_txnid = wtxn
      /\ \A s \in Metas : meta'[s].mm_dbs = meta[s].mm_dbs
  <2> DEFINE o == [meta[1 - NewSlot] EXCEPT !.mm_txnid = wtxn]
  <2>1. o.mm_dbs = NewDbs /\ o.mm_last_pg = nextpg - 1 /\ o.mm_txnid = wtxn
    BY <1>m, <1>w, <1>s DEF MetaPage
  <2>2. meta' = [meta EXCEPT ![1 - NewSlot] = o]
    BY <1>1, <1>w
  <2> HIDE DEF o
  <2>3. meta'[1 - NewSlot] = o /\ \A s \in Metas : s # 1 - NewSlot => meta'[s] = meta[s]
    BY <2>2, <1>m, <1>w
  <2> QED
    BY <1>s, <1>w, <2>1, <2>3
<1>5. NewSlot' = 1 - NewSlot
  <2>1. meta[NewSlot].mm_txnid = Newest
    BY DEF New, Newest
  <2>2. CASE NewSlot = 0
    BY <1>4, <1>w, <2>1, <2>2 DEF NewSlot
  <2>3. CASE NewSlot = 1
    <3>1. ~(meta'[0].mm_txnid < meta'[1].mm_txnid)
      BY <1>4, <1>w, <2>1, <2>3
    <3> QED
      BY <2>3, <3>1 DEF NewSlot
  <2> QED
    BY <1>w, <2>2, <2>3 DEF Metas
<1>6. /\ New' = meta'[1 - NewSlot] /\ Old' = New /\ Newest' = wtxn
      /\ New'.mm_dbs = NewDbs /\ New'.mm_last_pg = nextpg - 1 /\ New'.mm_txnid = wtxn
  <2>1. New' = meta'[1 - NewSlot]
    BY <1>5 DEF New
  <2>2. 1 - (1 - NewSlot) = NewSlot
    BY <1>w DEF Metas
  <2>3. Old' = New
    BY <1>4, <1>5, <2>2 DEF Old, New
  <2> QED
    BY <1>4, <2>1, <2>3 DEF Newest
<1>7. /\ NewDbs.ver = wtxn /\ NewDbs.live = live /\ NewDbs.freedb = freedb
      /\ SavedMeta.mm_dbs = NewDbs /\ SavedMeta.mm_last_pg = nextpg - 1
  BY DEF NewDbs, SavedMeta
<1>8. \A t \in Nat, S \in SUBSET Pages :
        Safe(t, S, New, file, freedb, dirty, pghead) =>
          Safe(t, S, New', file', freedb', dirty', pghead')
  <2> SUFFICES ASSUME NEW t \in Nat, NEW S \in SUBSET Pages,
                      Safe(t, S, New, file, freedb, dirty, pghead)
               PROVE  Safe(t, S, New', file', freedb', dirty', pghead')
    OBVIOUS
  <2>1. \A q \in S : q <= New'.mm_last_pg
    <3>1. New.mm_last_pg \in Nat /\ nextpg \in Nat /\ \A q \in Pages : q \in Nat
      BY <1>0, MetaFacts, MetaPageFields, ConstantFacts
         DEF TypeInv, TypeOK, AllocType, MetaInv, Pages
    <3> QED
      BY <1>6, <1>s, <3>1 DEF Safe
  <2> QED
    BY <1>1, <1>6, <1>7, <2>1 DEF Safe
<1>9. MetaInv'
  <2>1. InPlace(meta)'
    BY <1>0, <1>4, <1>w DEF MetaInv, InPlace, Metas
  <2>2. Committed(New)'
    <3>1. WholeMeta(New')
      BY <1>6, <1>7, <1>s DEF WholeMeta
    <3>2. NoFuture(New'.mm_dbs.freedb, New'.mm_txnid)
      BY <1>6, <1>7, <1>s
    <3>3. Safe(wtxn, live, New', file, freedb, {}, {})
      <4>1. live \in SUBSET Pages
        BY <1>0 DEF TypeInv, TypeOK, TxnType
      <4> QED
        BY <1>6, <1>7, <1>s, <3>1, <4>1 DEF Safe, WholeMeta
    <3>4. /\ New'.mm_dbs.ver = New'.mm_txnid /\ New'.mm_txnid = wtxn
          /\ New'.mm_dbs.live = live
      BY <1>6, <1>7
    <3> QED
      BY <1>1, <1>s, <3>1, <3>2, <3>3, <3>4 DEF Committed, Protected
  <2>3. Committed(Old)'
    <3>1. Committed(New) /\ New.mm_dbs.live \in SUBSET Pages /\ New.mm_txnid \in Nat
      BY <1>0, <1>w, MetaFacts, MetaPageFields DEF MetaInv, Newest
    <3> QED
      BY <1>6, <1>8, <3>1 DEF Committed, Protected
  <2>4. (Old.mm_txnid + 1 = Newest)'
    BY <1>6, <1>w DEF Newest
  <2> QED
    BY <2>1, <2>2, <2>3, <2>4 DEF MetaInv
<1>10. MtiInv'
  BY <1>1, <1>3, <1>6, <1>w DEF MtiInv
<1>11. ReaderInv'
  <2>1. \A r \in Readers :
        /\ rpc'[r] \notin {"idle", "dead"} => alive'[Home[r]]
        /\ Holding(r)' =>
             /\ mti <= mti' /\ rpc'[r] = rpc[r] /\ pin'[r] = pin[r]
             /\ rver'[r] = rver[r] /\ rlive'[r] = rlive[r]
        /\ rpc'[r] = "pinned" =>
             \/ meta'[Slot(pin[r])].mm_dbs = meta[Slot(pin[r])].mm_dbs
             \/ meta'[Slot(pin[r])].mm_dbs.ver # pin[r]
    <3>1. \A r \in Readers : Slot(pin[r]) \in Metas
      BY <1>0, ConstantFacts, SlotFacts DEF TypeInv, TypeOK, ReaderType
    <3> QED
      BY <1>0, <1>1, <1>4, <1>w, <3>1 DEF ReaderInv, readerVars, Holding
  <2>2. mti \in 0..MaxTxn /\ mti' \in 0..MaxTxn
    BY <1>0, <1>1 DEF TypeInv, TypeOK, ProcType
  <2>3. \A t \in 0..mti, S \in SUBSET Pages :
          Known(t) /\ Safe(t, S, New, file, freedb, dirty, pghead) =>
            Safe(t, S, New', file', freedb', dirty', pghead')
    BY ONLY <1>8, <2>2
  <2> QED
    BY ONLY IInv, <2>1, <2>2, <2>3, KeepReader
<1>12. ScanInv' /\ CachedOldestSafe'
  BY <1>0, <1>1 DEF ScanInv, CachedOldestSafe, readerVars
<1>13. WriterInv'
  BY <1>1, <1>3, <1>6 DEF WriterInv, BaseInv, BuildInv, SavedInv
<1>14. DiskInv'
  <2>1. \A s \in Metas : /\ disk[s].mm_txnid \in Nat /\ meta[s].mm_txnid \in Nat
                         /\ disk[s].mm_txnid <= meta[s].mm_txnid
    BY <1>0, MetaPageFields, ConstantFacts DEF TypeInv, TypeOK, FileType, DiskInv
  <2>2. /\ disk[1 - NewSlot].mm_txnid <= Old.mm_txnid /\ Old.mm_txnid \in Nat
        /\ disk[1 - NewSlot].mm_txnid \in Nat
    BY <1>w, <2>1 DEF Old
  <2>3. InPlace(disk)' /\ (\A s \in Metas : disk[s].mm_txnid <= meta[s].mm_txnid)'
    <3>1. InPlace(disk)'
      BY <1>0, <1>1 DEF DiskInv, InPlace
    <3>2. disk[1 - NewSlot].mm_txnid <= wtxn
      BY <1>w, <2>2
    <3>3. \A s \in Metas : s = NewSlot \/ s = 1 - NewSlot
      BY <1>w DEF Metas
    <3> QED
      BY <1>1, <1>4, <2>1, <3>1, <3>2, <3>3
  <2>4. ASSUME ~NoSync
        PROVE  /\ disk[NewSlot] = New /\ unsynced = {}
               /\ disk'[1 - NewSlot'] = Old' /\ unsynced' = {}
               /\ \/ disk'[NewSlot'].mm_txnid < Old'.mm_txnid
                  \/ disk'[NewSlot'].mm_txnid = 0 /\ NewSlot' = 1
    <3>1. disk[NewSlot] = New /\ unsynced = {}
      BY <1>0, <1>3, <2>4 DEF DiskInv
    <3>2. 1 - (1 - NewSlot) = NewSlot
      BY <1>w DEF Metas
    <3>3. Old'.mm_txnid = Newest
      BY <1>6 DEF Newest
    <3>4. \/ disk[1 - NewSlot].mm_txnid < Newest
          \/ disk[1 - NewSlot].mm_txnid = 0 /\ 1 - NewSlot = 1
      BY <1>w, <2>2
    <3> QED
      BY <1>1, <1>5, <1>6, <3>1, <3>2, <3>3, <3>4
  <2> QED
    BY <1>3, <2>3, <2>4 DEF DiskInv
<1> QED
  BY <1>9, <1>10, <1>11, <1>12, <1>13, <1>14 DEF IInv

\* The newest meta page reaches the disk.
LEMMA InvSyncMeta ==
  ASSUME IInv, TypeInv', SyncMeta
  PROVE  IInv'
<1>0. /\ TypeInv /\ MetaInv /\ MtiInv /\ ReaderInv /\ CachedOldestSafe /\ ScanInv
      /\ WriterInv /\ DiskInv
  BY DEF IInv
<1>1. /\ UNCHANGED <<meta, file, unsynced, mti, wlock, pin, readerVars, wtxn, live, freedb,
                     pghead, nextpg, dirty, alive, pgoldest>>
      /\ wph = "txnid" /\ wph' = "meta_synced"
      /\ UNCHANGED disk \/ disk' = [disk EXCEPT ![Slot(wtxn)] = meta[Slot(wtxn)]]
  BY DEF SyncMeta, WStep, lockVars, procVars
<1>2. UNCHANGED <<New, Old, Newest, NewSlot>>
  BY <1>1, MetaFrame
<1>3. /\ ~Saved /\ ~Saved' /\ ~Building' /\ InDoubt' /\ InDoubt /\ ~Synced'
      /\ wph # "none"
  BY <1>1 DEF Building, Saved, InDoubt, Synced
<1>4. Slot(wtxn) = NewSlot /\ NewSlot \in Metas
  BY <1>0, <1>3, MetaFacts DEF MetaInv, WriterInv
<1>5. UNCHANGED disk \/ (disk' = [disk EXCEPT ![NewSlot] = New] /\ disk'[NewSlot] = New)
  <2>1. disk \in [Metas -> MetaPage]
    BY <1>0 DEF TypeInv, TypeOK, FileType
  <2> QED
    BY <1>1, <1>4, <2>1 DEF New
<1>6. MetaInv'
  <2>1. OldKept' => OldKept
    BY <1>1, <1>2, <1>5 DEF OldKept, Up
  <2>2. UNCHANGED <<meta, file, freedb, dirty, pghead>>
    BY <1>1
  <2> QED
    BY ONLY IInv, <1>2, <2>1, <2>2, KeepMeta
<1>7. MtiInv'
  BY <1>0, <1>1, <1>2, <1>3 DEF MtiInv, Up
<1>8. ReaderInv'
  BY <1>0, <1>1, <1>2 DEF ReaderInv, Protected, Holding, readerVars
<1>9. ScanInv' /\ CachedOldestSafe'
  BY <1>0, <1>1 DEF ScanInv, CachedOldestSafe, readerVars
<1>10. WriterInv'
  BY <1>0, <1>1, <1>2, <1>3 DEF WriterInv, BaseInv, BuildInv, SavedInv
<1>11. DiskInv'
  <2>1. CASE UNCHANGED disk
    BY <1>1, <1>2, <1>3, <2>1, KeepDisk
  <2>2. CASE disk' = [disk EXCEPT ![NewSlot] = New] /\ disk'[NewSlot] = New
    <3>1. disk \in [Metas -> MetaPage] /\ Newest \in Nat
      BY <1>0, MetaFacts DEF TypeInv, TypeOK, FileType, MetaInv
    <3>2. \A s \in Metas : disk'[s] = IF s = NewSlot THEN meta[s] ELSE disk[s]
      BY <2>2, <3>1 DEF New
    <3>3. InPlace(disk)'
      BY <1>0, <3>2 DEF InPlace, DiskInv, MetaInv
    <3>4. (\A s \in Metas : disk[s].mm_txnid <= meta[s].mm_txnid)'
      <4>1. meta[NewSlot].mm_txnid = Newest
        BY DEF New, Newest
      <4> QED
        BY <1>0, <1>1, <3>1, <3>2, <4>1 DEF DiskInv
    <3>5. disk'[NewSlot'] = New' /\ (~NoSync => New'.mm_dbs.live \cap unsynced' = {})
      BY <1>0, <1>1, <1>2, <2>2 DEF DiskInv
    <3> QED
      BY <1>3, <3>3, <3>4, <3>5 DEF DiskInv
  <2> QED
    BY <1>5, <2>1, <2>2
<1> QED
  BY <1>6, <1>7, <1>8, <1>9, <1>10, <1>11 DEF IInv

\* mti_txnid catches up with the newest meta page.
LEMMA InvPublish ==
  ASSUME IInv, TypeInv', Publish
  PROVE  IInv'
<1>0. /\ TypeInv /\ MetaInv /\ MtiInv /\ ReaderInv /\ CachedOldestSafe /\ ScanInv
      /\ WriterInv /\ DiskInv
  BY DEF IInv
<1>1. /\ UNCHANGED <<meta, disk, file, unsynced, wlock, pin, readerVars, wtxn, live, freedb,
                     pghead, nextpg, dirty, alive, pgoldest>>
      /\ wph = "meta_synced" /\ wph' = "published" /\ mti' = wtxn
  BY DEF Publish, WStep, fileVars, procVars
<1>2. UNCHANGED <<New, Old, Newest, NewSlot>>
  BY <1>1, MetaFrame
<1>3. /\ ~Saved' /\ ~Building' /\ ~InDoubt' /\ InDoubt /\ ~Synced' /\ wph # "none"
  BY <1>1 DEF Building, Saved, InDoubt, Synced
<1>4. mti' = Newest /\ wtxn = Newest /\ mti <= mti'
  BY <1>0, <1>1, <1>3, WorkFacts DEF WriterInv
<1>5. MetaInv'
  <2>1. OldKept' => OldKept
    BY <1>1, <1>2, <1>4 DEF OldKept
  <2>2. UNCHANGED <<meta, file, freedb, dirty, pghead>>
    BY <1>1
  <2> QED
    BY ONLY IInv, <1>2, <2>1, <2>2, KeepMeta
<1>6. MtiInv'
  BY <1>2, <1>3, <1>4 DEF MtiInv
<1>7. mti \in 0..MaxTxn /\ mti' \in 0..MaxTxn
  BY <1>0 DEF TypeInv, TypeOK, ProcType
<1>8. ReaderInv'
  <2>1. \A r \in Readers :
        /\ rpc'[r] \notin {"idle", "dead"} => alive'[Home[r]]
        /\ Holding(r)' =>
             /\ mti <= mti' /\ rpc'[r] = rpc[r] /\ pin'[r] = pin[r]
             /\ rver'[r] = rver[r] /\ rlive'[r] = rlive[r]
        /\ rpc'[r] = "pinned" =>
             \/ meta'[Slot(pin[r])].mm_dbs = meta[Slot(pin[r])].mm_dbs
             \/ meta'[Slot(pin[r])].mm_dbs.ver # pin[r]
    BY <1>0, <1>1, <1>4 DEF ReaderInv, readerVars, Holding
  <2>2. UNCHANGED <<New, file, freedb, dirty, pghead>>
    BY <1>1, <1>2
  <2> QED
    BY ONLY IInv, <1>7, <2>1, <2>2, KeepReader
<1>9. CachedOldestSafe'
  BY <1>1, <1>4, <1>7, KeepCached DEF Holding, readerVars
<1>10. ScanInv'
  BY <1>1 DEF ScanInv
<1>11. WriterInv'
  BY <1>1, <1>2, <1>3, <1>4 DEF WriterInv, BaseInv, BuildInv, SavedInv
<1>12. DiskInv'
  BY <1>1, <1>3, KeepDisk
<1> QED
  BY <1>5, <1>6, <1>8, <1>9, <1>10, <1>11, <1>12 DEF IInv

\* What a machine crash makes of the two meta pages: the newest, or the
\* other one when the newest had not reached the disk.
LEMMA CrashPick ==
  ASSUME ~NoSync, TypeInv, MetaInv, DiskInv, NEW m \in CrashedMetas
  PROVE  PickMeta(m) = New \/ (PickMeta(m) = Old /\ disk[NewSlot] # New)
<1>5. \A s \in Metas : m[s] \in {meta[s], disk[s]}
  BY DEF CrashedMetas
<1>6. /\ NewSlot \in Metas /\ 1 - NewSlot \in Metas /\ Newest \in Nat
      /\ New \in MetaPage /\ Old \in MetaPage
      /\ New = meta[NewSlot] /\ Old = meta[1 - NewSlot]
      /\ (Old.mm_txnid < Newest \/ (Newest = 0 /\ Old.mm_txnid = 0 /\ NewSlot = 0))
  BY MetaFacts DEF MetaInv, New, Old
<1>7. \A s \in Metas : /\ meta[s].mm_txnid \in Nat /\ disk[s].mm_txnid \in Nat
                       /\ disk[s].mm_txnid <= meta[s].mm_txnid
  BY MetaPageFields, ConstantFacts DEF TypeInv, TypeOK, FileType, DiskInv
<1>8. CASE m[NewSlot] = New
  <2>1. m[1 - NewSlot].mm_txnid \in Nat /\ m[1 - NewSlot].mm_txnid <= Old.mm_txnid
    BY <1>5, <1>6, <1>7
  <2>2. m[NewSlot].mm_txnid = Newest /\ Old.mm_txnid \in Nat
    BY <1>6, <1>7, <1>8 DEF Newest
  <2>3. CASE NewSlot = 0
    <3>1. ~(m[0].mm_txnid < m[1].mm_txnid)
      BY <1>6, <2>1, <2>2, <2>3
    <3> QED
      BY <1>8, <2>3, <3>1 DEF PickMeta
  <2>4. CASE NewSlot = 1
    <3>1. m[0].mm_txnid < m[1].mm_txnid
      BY <1>6, <2>1, <2>2, <2>4
    <3> QED
      BY <1>8, <2>4, <3>1 DEF PickMeta
  <2> QED
    BY <1>6, <2>3, <2>4 DEF Metas
<1>9. CASE m[NewSlot] # New
  <2>1. m[NewSlot] = disk[NewSlot] /\ disk[NewSlot] # New
    BY <1>5, <1>6, <1>9
  <2>2. /\ disk[1 - NewSlot] = Old
        /\ (disk[NewSlot].mm_txnid < Old.mm_txnid
            \/ (disk[NewSlot].mm_txnid = 0 /\ NewSlot = 1))
    BY <2>1 DEF DiskInv
  <2>3. m[1 - NewSlot] = Old /\ Old.mm_txnid \in Nat /\ disk[NewSlot].mm_txnid \in Nat
    BY <1>5, <1>6, <1>7, <2>2
  <2>4. CASE NewSlot = 0
    BY <2>1, <2>2, <2>3, <2>4 DEF PickMeta
  <2>5. CASE NewSlot = 1
    <3>1. ~(m[0].mm_txnid < m[1].mm_txnid)
      BY <2>1, <2>2, <2>3, <2>5
    <3> QED
      BY <2>1, <2>3, <2>5, <3>1 DEF PickMeta
  <2> QED
    BY <1>6, <2>1, <2>4, <2>5 DEF Metas
<1> QED
  BY <1>8, <1>9

\* A crash of the machine leaves a file that holds a committed version: the
\* newest one, or the one before it when the newest had not reached the disk.
LEMMA InvSystemCrash ==
  ASSUME IInv, TypeInv', Guarded, SystemCrash
  PROVE  IInv'
<1>0. /\ TypeInv /\ MetaInv /\ WriterInv /\ DiskInv
  BY DEF IInv
<1>1. /\ ~NoSync
      /\ alive' = [p \in Procs |-> alive[p] /\ p \notin Procs]
      /\ file' = [q \in Pages |-> IF q \in unsynced THEN NoTxn ELSE file[q]]
      /\ unsynced' = {}
  BY DEF SystemCrash, LoseMemory, Guarded
<1>2. /\ wph' = "none" /\ wtxn' = 0 /\ live' = {} /\ freedb' = NoRecords /\ nextpg' = 2
      /\ pghead' = {} /\ pglast' = 0 /\ loose' = {} /\ freepgs' = {} /\ dirty' = {}
      /\ werr' = FALSE /\ scani' = 0 /\ scanold' = 0
  <2>1. CASE wlock \in Procs
    BY <2>1 DEF SystemCrash, LoseMemory, ForgetTxn
  <2>2. CASE wlock \notin Procs
    <3>1. wph = "none" /\ NoWriter
      BY <1>0, <2>2 DEF TypeInv, TypeOK, WriterInv
    <3>2. UNCHANGED txnVars
      BY <2>2 DEF SystemCrash, LoseMemory
    <3> QED
      BY <3>1, <3>2 DEF NoWriter, txnVars, allocVars, scanVars
  <2> QED
    BY <2>1, <2>2
<1>3. ~Up' /\ \A p \in Procs : ~alive'[p]
  BY <1>1 DEF Up
<1>4. \A r \in Readers : rpc'[r] \in {"idle", "dead"}
  BY ConstantFacts DEF SystemCrash, LoseMemory
<1>5. PICK m \in [Metas -> {meta[0], meta[1], disk[0], disk[1]}] :
        /\ \A s \in Metas : m[s] \in {meta[s], disk[s]}
        /\ meta' = m /\ disk' = m
  BY DEF SystemCrash, CrashedMetas
<1>6. /\ NewSlot \in Metas /\ 1 - NewSlot \in Metas /\ Newest \in Nat
      /\ New \in MetaPage /\ Old \in MetaPage
      /\ New = meta[NewSlot] /\ Old = meta[1 - NewSlot]
      /\ (Old.mm_txnid < Newest \/ (Newest = 0 /\ Old.mm_txnid = 0 /\ NewSlot = 0))
  BY <1>0, MetaFacts DEF MetaInv, New, Old
<1>7. \A s \in Metas : /\ meta[s].mm_txnid \in Nat /\ disk[s].mm_txnid \in Nat
                       /\ disk[s].mm_txnid <= meta[s].mm_txnid
  BY <1>0, MetaPageFields, ConstantFacts DEF TypeInv, TypeOK, FileType, DiskInv
<1>8. /\ New' \in {New, Old} /\ Committed(New')
      /\ (\A q \in New'.mm_dbs.live : q \notin unsynced)
  <2>1. New' = PickMeta(m) /\ m \in CrashedMetas
    BY <1>5 DEF New, NewSlot, PickMeta, CrashedMetas
  <2>2. New' = New \/ (New' = Old /\ disk[NewSlot] # New)
    BY <1>0, <1>1, <2>1, CrashPick
  <2> QED
    BY <1>0, <1>1, <2>2 DEF MetaInv, OldKept, DiskInv
<1>9. MetaInv'
  <2>1. InPlace(meta)'
    BY <1>0, <1>5 DEF MetaInv, DiskInv, InPlace
  <2>2. ~OldKept'
    BY <1>3, <1>5 DEF OldKept, New
  <2>3. Committed(New)'
    <3> DEFINE n == New'
    <3>1. n \in MetaPage /\ n.mm_dbs.live \in SUBSET Pages
      BY <1>6, <1>8, MetaPageFields
    <3>2. /\ n.mm_dbs.ver = n.mm_txnid /\ WholeMeta(n)
          /\ NoFuture(n.mm_dbs.freedb, n.mm_txnid)
          /\ (\A q \in n.mm_dbs.live : file[q] <= n.mm_txnid)
      BY <1>8 DEF Committed, Protected, Safe
    <3>3. \A q \in n.mm_dbs.live : file'[q] = file[q]
      BY <1>1, <1>8, <3>1
    <3> HIDE DEF n
    <3>4. Safe(n.mm_txnid, n.mm_dbs.live, n, file', NoRecords, {}, {})
      BY <3>1, <3>2, <3>3 DEF Safe, WholeMeta, NoRecords
    <3>5. /\ n.mm_dbs.ver = n.mm_txnid /\ WholeMeta(n)
          /\ NoFuture(n.mm_dbs.freedb, n.mm_txnid)
          /\ Safe(n.mm_txnid, n.mm_dbs.live, n, file', freedb', dirty', pghead')
      BY <1>2, <3>2, <3>4
    <3> QED
      BY <3>5 DEF n, Committed, Protected
  <2> QED
    BY <2>1, <2>2, <2>3 DEF MetaInv
<1>10. MtiInv' /\ ReaderInv' /\ ScanInv' /\ CachedOldestSafe'
  BY <1>2, <1>3, <1>4 DEF MtiInv, ReaderInv, ScanInv, CachedOldestSafe, Holding
<1>11. WriterInv'
  BY <1>2 DEF WriterInv, BaseInv, BuildInv, SavedInv, Building, Saved, InDoubt, NoWriter
<1>12. DiskInv'
  <2>1. InPlace(disk)' /\ (\A s \in Metas : disk[s].mm_txnid <= meta[s].mm_txnid)'
    BY <1>0, <1>5, <1>7 DEF MetaInv, DiskInv, InPlace
  <2>2. disk'[NewSlot'] = New' /\ ~Synced'
    BY <1>2, <1>5 DEF New, Synced
  <2> QED
    BY <1>1, <2>1, <2>2 DEF DiskInv
<1> QED
  BY <1>9, <1>10, <1>11, <1>12 DEF IInv

\* The invariant holds when the environment is first opened.
LEMMA InvInit == Init => IInv
<1> SUFFICES ASSUME Init PROVE IInv
  OBVIOUS
<1>1. TypeInv
  BY InitType
<1>2. /\ meta = InitMetas /\ disk = InitMetas /\ mti = PickMeta(InitMetas).mm_txnid
      /\ file = [q \in Pages |-> 0] /\ unsynced = {} /\ NoWriter
      /\ (\A r \in Readers : rpc[r] = "idle")
      /\ pgoldest = [p \in Procs |-> 0]
  BY DEF Init
<1>3. /\ wph = "none" /\ freedb = NoRecords /\ dirty = {} /\ pghead = {}
  BY <1>2 DEF NoWriter
<1>4. InPlace(meta)
  BY <1>2, InitMetasAssumption DEF InPlace
<1>5. PickMeta(meta) = New /\ New \in MetaPage /\ Newest \in Nat /\ NewSlot \in Metas
  BY <1>1, <1>4, MetaFacts
<1>6. /\ New.mm_dbs.ver = New.mm_txnid /\ WholeMeta(New)
      /\ NoFuture(New.mm_dbs.freedb, New.mm_txnid)
  BY <1>2, <1>5, InitMetasAssumption DEF NoFuture
<1>7. Protected(New.mm_txnid, New.mm_dbs.live)
  <2>1. New.mm_dbs.live \in SUBSET Pages /\ New.mm_txnid \in Nat
    BY <1>5, MetaPageFields DEF Newest
  <2> QED
    BY <1>2, <1>3, <1>6, <2>1 DEF Protected, Safe, WholeMeta, NoRecords
<1>8. mti = Newest /\ ~OldKept
  BY <1>2, <1>5 DEF OldKept, New, Newest
<1>9. MetaInv
  BY <1>4, <1>6, <1>7, <1>8 DEF MetaInv, Committed
<1>10. MtiInv /\ ReaderInv /\ ScanInv /\ CachedOldestSafe
  BY <1>2, <1>3, <1>5, <1>8 DEF MtiInv, ReaderInv, ScanInv, CachedOldestSafe, Holding, InDoubt
<1>11. WriterInv
  BY <1>2, <1>3 DEF WriterInv, BaseInv, BuildInv, SavedInv, Building, Saved, InDoubt
<1>12. DiskInv
  <2>1. \A s \in Metas : meta[s].mm_txnid \in Nat
    BY <1>1, MetaPageFields, ConstantFacts DEF TypeInv, TypeOK, FileType
  <2> QED
    BY <1>2, <1>3, <1>4, <2>1 DEF DiskInv, InPlace, Synced, New
<1> QED
  BY <1>1, <1>9, <1>10, <1>11, <1>12 DEF IInv

\* Every step keeps the invariant.
LEMMA InvNext ==
  ASSUME Guarded, IInv, [Next]_vars
  PROVE  IInv'
<1>1. TypeInv'
  BY TypeStep DEF IInv
<1>2. CASE UNCHANGED vars
  <2>1. UNCHANGED <<meta, disk, file, unsynced, mti, pin, wlock, rpc, rtxn, rver, rlive, rnext,
                    wph, wtxn, live, freedb, nextpg, pghead, pglast, loose, freepgs, dirty,
                    werr, scani, scanold, alive, fatal, pgoldest>>
    BY <1>2 DEF vars, fileVars, lockVars, readerVars, txnVars, procVars, allocVars, scanVars
  <2>2. UNCHANGED <<New, Old, Newest, NewSlot>>
    BY <2>1, MetaFrame
  <2>3. MetaInv' /\ MtiInv' /\ ReaderInv'
    BY <2>1, <2>2 DEF IInv, MetaInv, MtiInv, ReaderInv, InPlace, Committed, Protected, OldKept,
       Up, InDoubt, Holding
  <2>4. CachedOldestSafe' /\ ScanInv'
    BY <2>1 DEF IInv, CachedOldestSafe, ScanInv, Holding
  <2>5. WriterInv'
    BY <2>1, <2>2 DEF IInv, WriterInv, BaseInv, BuildInv, SavedInv, WriterPages, SavedMeta,
       NewDbs, Building, Saved, InDoubt, NoWriter
  <2>6. DiskInv'
    BY <2>1, <2>2 DEF IInv, DiskInv, InPlace, Synced
  <2> QED
    BY <1>1, <2>3, <2>4, <2>5, <2>6 DEF IInv
<1>3. CASE \E r \in Readers : ReaderStep(r)
  BY <1>1, <1>3, InvReader
<1>4. CASE \E p \in Procs : ProcStep(p)
  BY <1>1, <1>4, InvProc
<1>5. CASE OperationStep
  BY <1>1, <1>5, InvOperation
<1>6. CASE CommitStep
  BY <1>1, <1>6, InvSave, InvFlush, InvSync, InvMetaFill, InvMetaTxnid, InvSyncMeta,
     InvPublish, InvEnd DEF CommitStep
<1>7. CASE Abort
  BY <1>1, <1>7, InvEnd
<1>8. CASE SystemCrash
  BY <1>1, <1>8, InvSystemCrash
<1> QED
  BY <1>2, <1>3, <1>4, <1>5, <1>6, <1>7, <1>8 DEF Next

\* The invariant of the engine, as long as it syncs where the machine may
\* crash, and no msync of MDB_WRITEMAP fails.
THEOREM Invariant ==
  ASSUME Guarded
  PROVE  Spec => []IInv
<1>1. Init => IInv
  BY InvInit
<1>2. IInv /\ [Next]_vars => IInv'
  BY InvNext
<1> QED
  BY <1>1, <1>2, PTL DEF Spec

\* Snapshot isolation on the file: no page of the version an active reader
\* holds is written before the reader ends (mdb_find_oldest, mdb_page_alloc,
\* mdb_page_flush), for any number of processes, readers, pages and commits.
THEOREM SnapshotsStayIntact ==
  ASSUME Guarded
  PROVE  Spec => []SnapshotIntact
<1>1. IInv => SnapshotIntact
  BY DEF IInv, ReaderInv, Protected, Safe, SnapshotIntact, HasView
<1> QED
  BY <1>1, Invariant, PTL

\* The me_pgoldest a process remembers never exceeds a reader's transaction.
THEOREM RememberedOldestIsSafe ==
  ASSUME Guarded
  PROVE  Spec => []CachedOldestSafe
<1>1. IInv => CachedOldestSafe
  BY DEF IInv
<1> QED
  BY <1>1, Invariant, PTL

\* A writer starts from the newest meta page and does not write over it,
\* also after the process before it died anywhere in a commit.
THEOREM WriterStartsFromNewest ==
  ASSUME Guarded
  PROVE  Spec => []WriterBaseIsNewest
<1>1. IInv => WriterBaseIsNewest
  <2> SUFFICES ASSUME IInv, Building \/ Saved PROVE PickMeta(meta).mm_txnid = wtxn - 1
    BY DEF WriterBaseIsNewest, Building, Saved
  <2>1. wtxn = Newest + 1 /\ Newest \in Nat
    BY WorkFacts DEF Building, Saved
  <2>2. PickMeta(meta) = New
    BY MetaFacts DEF IInv, MetaInv
  <2> QED
    BY <2>1, <2>2 DEF Newest
<1> QED
  BY <1>1, Invariant, PTL

\* The newest meta page always owns each page of the file exactly once: what
\* aborts, crashes, loose pages and recycled freeDB records leave behind.
THEOREM PagesStayPartitioned ==
  ASSUME Guarded
  PROVE  Spec => []SnapshotPartition
<1>1. IInv => SnapshotPartition
  BY MetaFacts DEF IInv, MetaInv, Committed, SnapshotPartition
<1> QED
  BY <1>1, Invariant, PTL

\* With syncs on, whatever a crash of the machine leaves of the two meta
\* pages, the one an open would pick reaches only pages that are on disk.
THEOREM CrashesLeaveACommit ==
  ASSUME Guarded, ~NoSync
  PROVE  Spec => []CrashSafe
<1>1. IInv => CrashSafe
  <2> SUFFICES ASSUME IInv, NEW m \in CrashedMetas, NEW q \in PickMeta(m).mm_dbs.live
               PROVE  q \notin unsynced /\ file[q] <= PickMeta(m).mm_dbs.ver
    BY DEF CrashSafe
  <2>0. TypeInv /\ MetaInv /\ DiskInv
    BY DEF IInv
  <2>1. PickMeta(m) = New \/ (PickMeta(m) = Old /\ disk[NewSlot] # New)
    BY <2>0, CrashPick
  <2>2. CASE PickMeta(m) = New
    BY <2>0, <2>2 DEF MetaInv, Committed, Protected, Safe, DiskInv
  <2>3. CASE PickMeta(m) = Old /\ disk[NewSlot] # New
    BY <2>0, <2>3 DEF MetaInv, OldKept, Committed, Protected, Safe, DiskInv
  <2> QED
    BY <2>1, <2>2, <2>3
<1> QED
  BY <1>1, Invariant, PTL
=============================================================================
