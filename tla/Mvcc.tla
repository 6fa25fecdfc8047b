-------------------------------- MODULE Mvcc --------------------------------
(***************************************************************************)
(* The multi-version core of the engine: one data file with two meta       *)
(* pages, one lock region (mti_txnid, the writer mutex, the reader table), *)
(* any number of processes, one writer at a time, readers that take no     *)
(* lock, pages that are copied on write and recycled through the freeDB.   *)
(*                                                                         *)
(* A database version is abstracted to the set of pages its two trees      *)
(* reach ("live") and to the contents of the freeDB: for each transaction  *)
(* id, the pages in the record kept under that key.  Page contents are     *)
(* abstracted to the id of the transaction that last wrote the page in the *)
(* shared file.  Memory is sequentially consistent.                        *)
(***************************************************************************)
EXTENDS Integers, FiniteSets

CONSTANTS
  Procs,       \* processes that open the environment
  NReaders,    \* reader slots, one reading thread each
  Home,        \* the process each reading thread belongs to
  InitMetas,   \* the two meta pages of the file when it is first opened
  Unlocked,    \* the writer mutex: not held
  OwnerDead,   \* the writer mutex: its holder died (robust mutex)
  MaxTxn,      \* bound: transaction ids
  MaxPg,       \* me_maxpg, the size of the map in pages
  MaxDirty,    \* MDB_IDL_UM_MAX, room in the dirty list
  NoSync,      \* MDB_NOSYNC
  NoMetaSync,  \* MDB_NOMETASYNC
  WriteMap,    \* MDB_WRITEMAP
  UserSync,    \* applications call mdb_env_sync
  IoErrors,    \* writes and syncs of the commit path may fail
  NoStall,     \* readers finish mdb_txn_renew0 before their meta is reused:
               \* dlmdb.h warns that suspended ones may see wrong data
  PowerLoss,   \* the machine may crash, not only processes
  MaxCrash     \* bound: crashes

Readers == 1..NReaders
Txns == 1..MaxTxn
Pages == 2..(MaxPg - 2)          \* pages 0 and 1 are the meta pages
NoTxn == MaxTxn + 1              \* (txnid_t)-1: larger than every id
Metas == {0, 1}

NoRecords == [t \in Txns |-> {}]

\* One meta page.  mm_dbs stands for the roots of the main tree and the
\* freeDB: the pages they reach, the freeDB's records and, for observation,
\* the transaction that wrote them.
MetaPage ==
  [mm_dbs : [ver : 0..MaxTxn, live : SUBSET Pages,
             freedb : [Txns -> SUBSET Pages]],
   mm_last_pg : 1..(MaxPg - 2),
   mm_txnid : 0..MaxTxn]

\* mdb_env_init_meta: a new file has two of these.
EmptyMeta ==
  [mm_dbs |-> [ver |-> 0, live |-> {}, freedb |-> NoRecords],
   mm_last_pg |-> 1, mm_txnid |-> 0]

Slot(t) == t % 2

\* mdb_env_pick_meta, without MDB_PREVSNAPSHOT.
PickMeta(m) == IF m[0].mm_txnid < m[1].mm_txnid THEN m[1] ELSE m[0]

IsMin(x, S) == x \in S /\ \A y \in S : x <= y

\* The pages of a version and of its freeDB records partition the file up to
\* mm_last_pg.
WholeMeta(m) ==
  LET dbs == m.mm_dbs IN
  /\ \A q \in Pages :
       q <= m.mm_last_pg <=>
         q \in dbs.live \/ \E t \in Txns : q \in dbs.freedb[t]
  /\ \A t \in Txns : dbs.live \cap dbs.freedb[t] = {}
  /\ \A t, u \in Txns : t # u => dbs.freedb[t] \cap dbs.freedb[u] = {}

ASSUME ConstantsAssumption ==
  /\ NReaders \in Nat /\ MaxTxn \in Nat /\ MaxPg \in Nat \ (0..2)
  /\ MaxDirty \in Nat /\ MaxCrash \in Nat
  /\ Home \in [1..NReaders -> Procs]
  /\ Unlocked \notin Procs /\ OwnerDead \notin Procs /\ Unlocked # OwnerDead
  /\ {NoSync, NoMetaSync, WriteMap, UserSync, IoErrors, NoStall,
      PowerLoss} \subseteq BOOLEAN

\* A new file, or one that some commits left and that is in sync: each id
\* is in its place and the newest meta page is whole.
ASSUME InitMetasAssumption ==
  /\ InitMetas \in [Metas -> MetaPage]
  /\ \A s \in Metas : InitMetas[s].mm_txnid = 0 \/ Slot(InitMetas[s].mm_txnid) = s
  /\ LET new == PickMeta(InitMetas) IN
       /\ new.mm_dbs.ver = new.mm_txnid
       /\ WholeMeta(new)
       /\ \A t \in Txns : t > new.mm_txnid => new.mm_dbs.freedb[t] = {}
       /\ \A s \in Metas : InitMetas[s].mm_dbs.ver <= new.mm_txnid

VARIABLES
  \* the data file: what processes see through the map, what is on disk
  meta, disk, file, unsynced,
  \* the lock region
  mti, pin, wlock,
  \* each reading thread, inside mdb_txn_renew0 and after
  rpc, rtxn, rver, rlive, rnext,
  \* the write transaction and the page allocator state of its process
  wph, wtxn, live, freedb, nextpg, pghead, pglast, freepgs, loose, dirty,
  werr, scani, scanold,
  \* each process
  alive, fatal, pgoldest,
  \* observation only: last commit that returned, crashes so far
  acked, crashes

fileVars   == <<meta, disk, file, unsynced>>
lockVars   == <<mti, pin, wlock>>
readerVars == <<rpc, rtxn, rver, rlive, rnext>>
allocVars  == <<nextpg, pghead, pglast, loose>>
scanVars   == <<scani, scanold>>
txnVars    == <<wph, wtxn, live, freedb, allocVars, freepgs, dirty, werr,
                scanVars>>
procVars   == <<alive, fatal, pgoldest>>
ghostVars  == <<acked, crashes>>
vars == <<fileVars, lockVars, readerVars, txnVars, procVars, ghostVars>>

NoWriter ==
  /\ wph = "none" /\ wtxn = 0 /\ live = {} /\ freedb = NoRecords
  /\ nextpg = 2 /\ pghead = {} /\ pglast = 0 /\ loose = {}
  /\ freepgs = {} /\ dirty = {} /\ werr = FALSE /\ scani = 0 /\ scanold = 0

Init ==
  /\ meta = InitMetas /\ disk = InitMetas
  /\ file = [q \in Pages |-> 0] /\ unsynced = {}
  /\ mti = PickMeta(InitMetas).mm_txnid /\ wlock = Unlocked
  /\ pin = [r \in Readers |-> NoTxn]
  /\ rpc = [r \in Readers |-> "idle"]
  /\ rtxn = [r \in Readers |-> 0]
  /\ rver = [r \in Readers |-> 0]
  /\ rlive = [r \in Readers |-> {}]
  /\ rnext = [r \in Readers |-> 0]
  /\ NoWriter
  /\ alive = [p \in Procs |-> TRUE]
  /\ fatal = [p \in Procs |-> FALSE]
  /\ pgoldest = [p \in Procs |-> 0]
  /\ acked = mti /\ crashes = 0

-----------------------------------------------------------------------------
(***************************************************************************)
(* Read transactions: mdb_txn_renew0 takes no lock once it has a slot.     *)
(***************************************************************************)
RStep(r, from, to) ==
  /\ rpc[r] \in from /\ alive[Home[r]]
  /\ rpc' = [rpc EXCEPT ![r] = to]
  /\ UNCHANGED <<fileVars, mti, wlock, txnVars, procVars, ghostVars>>

\* Read ti->mti_txnid: first, or again after a lost race.
ReaderLoad(r) ==
  /\ RStep(r, {"idle", "retry"}, "loaded")
  /\ rtxn' = [rtxn EXCEPT ![r] = mti]
  /\ UNCHANGED <<pin, rver, rlive, rnext>>

\* Publish it in the slot.
ReaderStore(r) ==
  /\ RStep(r, {"loaded"}, "stored")
  /\ pin' = [pin EXCEPT ![r] = rtxn[r]]
  /\ UNCHANGED <<rtxn, rver, rlive, rnext>>

\* Faulty: the slot is trusted without a second look at mti_txnid.
ReaderPinUnchecked(r) ==
  /\ RStep(r, {"stored"}, "pinned")
  /\ UNCHANGED <<pin, rtxn, rver, rlive, rnext>>

\* Compare with mti_txnid once more; the loop ends when they agree.
ReaderPin(r) ==
  /\ RStep(r, {"stored"}, IF pin[r] = mti THEN "pinned" ELSE "retry")
  /\ UNCHANGED <<pin, rtxn, rver, rlive, rnext>>

\* Faulty: the newest meta page instead of the one the slot selects.
ReaderCopyNewest(r) ==
  /\ RStep(r, {"pinned"}, "copied")
  /\ rver' = [rver EXCEPT ![r] = PickMeta(meta).mm_dbs.ver]
  /\ rlive' = [rlive EXCEPT ![r] = PickMeta(meta).mm_dbs.live]
  /\ UNCHANGED <<pin, rtxn, rnext>>

\* memcpy of mm_dbs from the meta page the slot's txnid selects.
ReaderCopyDbs(r) ==
  /\ RStep(r, {"pinned"}, "copied")
  /\ LET dbs == meta[Slot(pin[r])].mm_dbs IN
       /\ rver' = [rver EXCEPT ![r] = dbs.ver]
       /\ rlive' = [rlive EXCEPT ![r] = dbs.live]
  /\ UNCHANGED <<pin, rtxn, rnext>>

\* mt_next_pgno, read later; then MDB_PANIC if the environment is broken.
ReaderCopyLastPg(r) ==
  /\ RStep(r, {"copied"}, "active")
  /\ ~fatal[Home[r]]
  /\ rnext' = [rnext EXCEPT ![r] = meta[Slot(pin[r])].mm_last_pg + 1]
  /\ UNCHANGED <<pin, rtxn, rver, rlive>>

\* mdb_txn_end of a reader, also on the MDB_PANIC path of mdb_txn_renew0.
ReaderEnd(r) ==
  /\ \/ rpc[r] = "active"
     \/ rpc[r] = "copied" /\ fatal[Home[r]]
  /\ RStep(r, {"active", "copied"}, "idle")
  /\ pin' = [pin EXCEPT ![r] = NoTxn]
  /\ rtxn' = [rtxn EXCEPT ![r] = 0]
  /\ rver' = [rver EXCEPT ![r] = 0]
  /\ rlive' = [rlive EXCEPT ![r] = {}]
  /\ rnext' = [rnext EXCEPT ![r] = 0]

\* Slots of processes that died, cleared by mdb_reader_check0.
ClearDeadSlots ==
  /\ pin' = [r \in Readers |-> IF rpc[r] = "dead" THEN NoTxn ELSE pin[r]]
  /\ rpc' = [r \in Readers |-> IF rpc[r] = "dead" THEN "idle" ELSE rpc[r]]

\* mdb_reader_check.
ReaderCheck(p) ==
  /\ alive[p] /\ \E r \in Readers : rpc[r] = "dead"
  /\ ClearDeadSlots
  /\ UNCHANGED <<fileVars, mti, wlock, rtxn, rver, rlive, rnext, txnVars,
                 procVars, ghostVars>>

-----------------------------------------------------------------------------
(***************************************************************************)
(* The write transaction: begin.                                           *)
(***************************************************************************)

\* mdb_txn_renew0 with the writer mutex held; L is mti_txnid by then.
StartTxn(p, L) ==
  /\ wlock' = p /\ wph' = "open" /\ wtxn' = L + 1
  /\ live' = meta[Slot(L)].mm_dbs.live
  /\ freedb' = meta[Slot(L)].mm_dbs.freedb
  /\ nextpg' = meta[Slot(L)].mm_last_pg + 1
  /\ UNCHANGED <<pghead, pglast, freepgs, loose, dirty, werr, scanVars>>

WriterBegin(p) ==
  /\ alive[p] /\ ~fatal[p] /\ wlock = Unlocked
  /\ StartTxn(p, mti)
  /\ UNCHANGED <<fileVars, mti, pin, readerVars, procVars, ghostVars>>

\* mdb_mutex_failed: the mutex comes with EOWNERDEAD.
Recover ==
  /\ wlock = OwnerDead
  /\ mti' = PickMeta(meta).mm_txnid
  /\ ClearDeadSlots
  /\ UNCHANGED <<fileVars, rtxn, rver, rlive, rnext, procVars, ghostVars>>

\* Faulty: mti_txnid stays what it was when the owner died.
WriterBeginStale(p) ==
  /\ alive[p] /\ ~fatal[p] /\ wlock = OwnerDead
  /\ mti' = mti /\ ClearDeadSlots
  /\ StartTxn(p, mti)
  /\ UNCHANGED <<fileVars, rtxn, rver, rlive, rnext, procVars, ghostVars>>

WriterBeginRecover(p) ==
  /\ alive[p] /\ ~fatal[p]
  /\ Recover
  /\ StartTxn(p, PickMeta(meta).mm_txnid)

\* The same in a process whose environment is broken: MDB_PANIC, unlock.
WriterPanicRecover(p) ==
  /\ alive[p] /\ fatal[p]
  /\ Recover
  /\ wlock' = Unlocked
  /\ UNCHANGED txnVars

ForgetTxn ==
  /\ wph' = "none" /\ wtxn' = 0 /\ live' = {} /\ freedb' = NoRecords
  /\ nextpg' = 2 /\ pghead' = {} /\ pglast' = 0 /\ loose' = {}
  /\ freepgs' = {} /\ dirty' = {} /\ werr' = FALSE
  /\ scani' = 0 /\ scanold' = 0

\* mdb_txn_end of a writer.
TxnEnd == ForgetTxn /\ wlock' = Unlocked

\* mdb_txn_abort at any time before the meta page is touched: the caller's
\* wish, an error of an operation, or a failed step of the commit.
Abort ==
  /\ \/ wph \in {"open", "scanned"}
     \/ IoErrors /\ wph \in {"saved", "flushed", "synced"}
  /\ TxnEnd
  /\ UNCHANGED <<fileVars, mti, pin, readerVars, procVars, ghostVars>>

-----------------------------------------------------------------------------
(***************************************************************************)
(* mdb_page_alloc for one page: a loose page, else the lowest page of      *)
(* me_pghead, else the next freeDB record older than every reader, else    *)
(* the map's end.  mdb_find_oldest reads the reader slots one by one, from *)
(* the last to the first, while readers come and go.                       *)
(***************************************************************************)
Unread == {t \in Txns : t > pglast /\ freedb[t] # {}}

\* The freeDB's next key, or the one the loop asks for when there is none.
NextKey(t) == IF Unread = {} THEN t = pglast + 1 ELSE IsMin(t, Unread)

\* The cached me_pgoldest stops this allocation and may be out of date.
NeedScan ==
  /\ loose = {} /\ pghead = {}
  /\ pgoldest[wlock] # wtxn - 1
  /\ \E t \in 1..NoTxn : NextKey(t) /\ pgoldest[wlock] <= t

\* An operation on the trees may run.
Operating == wph \in {"open", "scanned"} /\ ~werr /\ wtxn <= MaxTxn

\* Faulty: the scan misses the last slot.
ScanBeginShort ==
  /\ Operating /\ wph = "open" /\ Cardinality(dirty) < MaxDirty /\ NeedScan
  /\ wph' = "scan" /\ scani' = NReaders - 1 /\ scanold' = wtxn - 1
  /\ UNCHANGED <<fileVars, lockVars, readerVars, wtxn, live, freedb,
                 allocVars, freepgs, dirty, werr, procVars, ghostVars>>

ScanBegin ==
  /\ Operating /\ wph = "open" /\ Cardinality(dirty) < MaxDirty /\ NeedScan
  /\ wph' = "scan" /\ scani' = NReaders /\ scanold' = wtxn - 1
  /\ UNCHANGED <<fileVars, lockVars, readerVars, wtxn, live, freedb,
                 allocVars, freepgs, dirty, werr, procVars, ghostVars>>

ScanSlot ==
  /\ wph = "scan" /\ scani > 0
  /\ scani' = scani - 1
  /\ scanold' = IF pin[scani] < scanold THEN pin[scani] ELSE scanold
  /\ UNCHANGED <<fileVars, lockVars, readerVars, wph, wtxn, live, freedb,
                 allocVars, freepgs, dirty, werr, procVars, ghostVars>>

ScanEnd ==
  /\ wph = "scan" /\ scani = 0
  /\ wph' = "scanned"
  /\ pgoldest' = [pgoldest EXCEPT ![wlock] = scanold]
  /\ scanold' = 0
  /\ UNCHANGED <<fileVars, lockVars, readerVars, wtxn, live, freedb,
                 allocVars, freepgs, dirty, werr, scani, alive, fatal,
                 ghostVars>>

MayAllocate ==
  /\ Operating
  /\ loose # {} \/ Cardinality(dirty) < MaxDirty
  /\ wph = "scanned" \/ ~NeedScan

\* A record whose pages no reader can still need.
Reusable(t) == IsMin(t, Unread) /\ t < pgoldest[wlock]

AllocLoose(q) ==
  /\ q \in loose
  /\ loose' = loose \ {q}
  /\ UNCHANGED <<pghead, pglast, nextpg>>

AllocHead(q) ==
  /\ loose = {} /\ IsMin(q, pghead)
  /\ pghead' = pghead \ {q}
  /\ UNCHANGED <<loose, pglast, nextpg>>

AllocRecord(q) ==
  /\ loose = {} /\ pghead = {}
  /\ \E t \in Txns :
       /\ Reusable(t) /\ IsMin(q, freedb[t])
       /\ pghead' = freedb[t] \ {q} /\ pglast' = t
  /\ UNCHANGED <<loose, nextpg>>

AtMapEnd == loose = {} /\ pghead = {} /\ ~\E t \in Txns : Reusable(t)

AllocNew(q) ==
  /\ AtMapEnd /\ nextpg + 1 < MaxPg
  /\ q = nextpg /\ nextpg' = nextpg + 1
  /\ UNCHANGED <<loose, pghead, pglast>>

PageAlloc(q) ==
  /\ MayAllocate
  /\ AllocLoose(q) \/ AllocHead(q) \/ AllocRecord(q) \/ AllocNew(q)

\* MDB_MAP_FULL and MDB_TXN_FULL leave the transaction unusable.
AllocFail ==
  /\ Operating
  /\ \/ MayAllocate /\ AtMapEnd /\ nextpg + 1 >= MaxPg
     \/ loose = {} /\ Cardinality(dirty) >= MaxDirty
  /\ werr' = TRUE
  /\ UNCHANGED <<fileVars, lockVars, readerVars, wph, wtxn, live, freedb,
                 allocVars, freepgs, dirty, scanVars, procVars, ghostVars>>

-----------------------------------------------------------------------------
(***************************************************************************)
(* What operations on the trees do to pages.                               *)
(***************************************************************************)

\* mdb_page_dirty.  With MDB_WRITEMAP the page is modified in the map.
DirtyPage(q) ==
  /\ dirty' = dirty \cup {q}
  /\ IF WriteMap THEN /\ file' = [file EXCEPT ![q] = wtxn]
                      /\ unsynced' = unsynced \cup {q}
                 ELSE UNCHANGED <<file, unsynced>>
  /\ wph' = "open"
  /\ UNCHANGED <<meta, disk, lockVars, readerVars, wtxn, freedb, werr,
                 scanVars, procVars, ghostVars>>

\* Faulty: the replaced page is not freed.
TouchLeaky(old) ==
  /\ Operating /\ old \in live \ dirty
  /\ \E q \in Pages :
       /\ PageAlloc(q) /\ DirtyPage(q)
       /\ live' = (live \ {old}) \cup {q}
       /\ UNCHANGED freepgs

\* mdb_page_touch of a clean page: copy on write.
Touch(old) ==
  /\ Operating /\ old \in live \ dirty
  /\ \E q \in Pages :
       /\ PageAlloc(q) /\ DirtyPage(q)
       /\ live' = (live \ {old}) \cup {q}
       /\ freepgs' = freepgs \cup {old}

\* mdb_page_new.
NewPage ==
  \E q \in Pages :
    /\ PageAlloc(q) /\ DirtyPage(q)
    /\ live' = live \cup {q}
    /\ UNCHANGED freepgs

DropPage(old) ==
  /\ Operating /\ wph = "open" /\ old \in live
  /\ live' = live \ {old}
  /\ UNCHANGED <<fileVars, lockVars, readerVars, wph, wtxn, freedb, nextpg,
                 pglast, werr, scanVars, procVars, ghostVars>>

\* mdb_page_loose of a page of this transaction, not of the freeDB.
LoosePage(old) ==
  /\ DropPage(old) /\ old \in dirty
  /\ loose' = loose \cup {old}
  /\ UNCHANGED <<pghead, freepgs, dirty>>

\* mdb_page_loose otherwise, and mdb_ovpage_free without a me_pghead.
FreePage(old) ==
  /\ DropPage(old)
  /\ freepgs' = freepgs \cup {old}
  /\ UNCHANGED <<pghead, loose, dirty>>

\* mdb_ovpage_free of an overflow page of this transaction.
FreeOverflow(old) ==
  /\ DropPage(old) /\ old \in dirty /\ pglast # 0
  /\ pghead' = pghead \cup {old} /\ dirty' = dirty \ {old}
  /\ UNCHANGED <<loose, freepgs>>

-----------------------------------------------------------------------------
(***************************************************************************)
(* The write transaction: commit.                                          *)
(***************************************************************************)
WStep(from, to) ==
  /\ wph = from /\ wph' = to
  /\ UNCHANGED <<wtxn, live, nextpg, pglast, freepgs, werr, scanVars>>

\* Faulty: loose pages are forgotten when there is no me_pghead.
FreelistSaveLoseLoose ==
  /\ ~werr /\ (dirty # {} \/ freepgs # {})
  /\ WStep("open", "saved")
  /\ LET spare == IF pglast = 0 THEN {} ELSE pghead \cup loose
         freed == freepgs
     IN \E key \in [spare -> 1..pglast] :
          freedb' = [t \in Txns |->
                       IF t = wtxn THEN freed
                       ELSE IF t <= pglast THEN {q \in spare : key[q] = t}
                       ELSE freedb[t]]
  /\ dirty' = IF pglast = 0 THEN dirty \ loose ELSE dirty
  /\ pghead' = {} /\ loose' = {}
  /\ UNCHANGED <<fileVars, lockVars, readerVars, procVars, ghostVars>>

\* mdb_freelist_save: records up to me_pglast are consumed, this
\* transaction's own record holds the pages it freed, and what is left of
\* me_pghead and of the loose pages goes back under ids from me_pglast
\* down.  (The copies it makes of freeDB pages are Touch steps before it.)
FreelistSave ==
  /\ ~werr /\ (dirty # {} \/ freepgs # {})
  /\ WStep("open", "saved")
  /\ LET spare == IF pglast = 0 THEN {} ELSE pghead \cup loose
         freed == IF pglast = 0 THEN freepgs \cup loose ELSE freepgs
     IN \E key \in [spare -> 1..pglast] :
          freedb' = [t \in Txns |->
                       IF t = wtxn THEN freed
                       ELSE IF t <= pglast THEN {q \in spare : key[q] = t}
                       ELSE freedb[t]]
  /\ dirty' = IF pglast = 0 THEN dirty \ loose ELSE dirty
  /\ pghead' = {} /\ loose' = {}
  /\ UNCHANGED <<fileVars, lockVars, readerVars, procVars, ghostVars>>

\* mdb_page_flush.  With MDB_WRITEMAP the pages already are in the map.
PageFlush ==
  /\ WStep("saved", "flushed")
  /\ dirty' = {}
  /\ IF WriteMap THEN UNCHANGED <<file, unsynced>>
     ELSE /\ file' = [q \in Pages |-> IF q \in dirty THEN wtxn ELSE file[q]]
          /\ unsynced' = unsynced \cup dirty
  /\ UNCHANGED <<meta, disk, lockVars, readerVars, freedb, pghead, loose,
                 procVars, ghostVars>>

\* Faulty: the pages are not on disk when the meta page is written.
EnvSync0Late ==
  /\ WStep("flushed", "synced")
  /\ UNCHANGED <<fileVars, lockVars, readerVars, freedb, pghead, loose, dirty,
                 procVars, ghostVars>>

\* mdb_env_sync0 before the meta page; it also reaches older meta pages.
EnvSync0 ==
  /\ WStep("flushed", "synced")
  /\ IF NoSync THEN UNCHANGED <<disk, unsynced>>
               ELSE disk' = meta /\ unsynced' = {}
  /\ UNCHANGED <<meta, file, lockVars, readerVars, freedb, pghead, loose,
                 dirty, procVars, ghostVars>>

\* A step of mdb_env_write_meta on the meta page the txnid selects.
MetaStep(from, to) ==
  /\ WStep(from, to)
  /\ UNCHANGED <<disk, file, unsynced, lockVars, readerVars, freedb, pghead,
                 loose, dirty, procVars, ghostVars>>

NewDbs == [ver |-> wtxn, live |-> live, freedb |-> freedb]

\* A reader of that meta page that has not finished copying it.
StalledOn(s) ==
  \E r \in Readers : rpc[r] \in {"pinned", "copied"} /\ Slot(pin[r]) = s

\* Readers see the fields in the order they are stored (MDB_WRITEMAP), or
\* in the order the kernel copies the one pwrite.
WriteMetaDbs ==
  /\ MetaStep("synced", "dbs")
  /\ NoStall => ~StalledOn(Slot(wtxn))
  /\ meta' = [meta EXCEPT ![Slot(wtxn)].mm_dbs = NewDbs]

WriteMetaLastPg ==
  /\ MetaStep("dbs", "last_pg")
  /\ meta' = [meta EXCEPT ![Slot(wtxn)].mm_last_pg = nextpg - 1]

WriteMetaTxnid ==
  /\ MetaStep("last_pg", "txnid")
  /\ meta' = [meta EXCEPT ![Slot(wtxn)].mm_txnid = wtxn]

\* Faulty: the meta page is left to the next sync.
SyncMetaSkipped ==
  /\ WStep("txnid", "meta_synced")
  /\ UNCHANGED <<fileVars, lockVars, readerVars, freedb, pghead, loose, dirty,
                 procVars, ghostVars>>

\* O_DSYNC of me_mfd, or msync of the meta page.
SyncMeta ==
  /\ WStep("txnid", "meta_synced")
  /\ disk' = IF NoSync \/ NoMetaSync THEN disk
             ELSE [disk EXCEPT ![Slot(wtxn)] = meta[Slot(wtxn)]]
  /\ UNCHANGED <<meta, file, unsynced, lockVars, readerVars, freedb, pghead,
                 loose, dirty, procVars, ghostVars>>

\* mti_txnid: readers and the next writer start from the new meta page.
Publish ==
  /\ WStep("meta_synced", "published")
  /\ mti' = wtxn
  /\ UNCHANGED <<fileVars, pin, wlock, readerVars, freedb, pghead, loose,
                 dirty, procVars, ghostVars>>

CommitReturn ==
  /\ wph = "published"
  /\ acked' = wtxn
  /\ TxnEnd
  /\ UNCHANGED <<fileVars, mti, pin, readerVars, procVars, crashes>>

\* The pwrite of the meta page fails: the old mm_last_pg and mm_txnid are
\* written back beside the new mm_dbs; the environment is broken.
WriteMetaFail ==
  /\ IoErrors /\ ~WriteMap /\ wph = "dbs"
  /\ fatal' = [fatal EXCEPT ![wlock] = TRUE]
  /\ TxnEnd
  /\ UNCHANGED <<fileVars, mti, pin, readerVars, alive, pgoldest, ghostVars>>

\* The msync of the meta page fails: the environment is broken, the stored
\* meta page stays in the map.
SyncMetaFail ==
  /\ IoErrors /\ WriteMap /\ ~NoSync /\ ~NoMetaSync /\ wph = "txnid"
  /\ fatal' = [fatal EXCEPT ![wlock] = TRUE]
  /\ TxnEnd
  /\ UNCHANGED <<fileVars, mti, pin, readerVars, alive, pgoldest, ghostVars>>

-----------------------------------------------------------------------------
(***************************************************************************)
(* mdb_env_sync, crashes, and opening the environment again.               *)
(***************************************************************************)

\* A forced mdb_env_sync; the writer is still changing pages of the map.
EnvSync(p) ==
  /\ UserSync /\ alive[p] /\ (disk # meta \/ unsynced # {})
  /\ disk' = meta
  /\ unsynced' = IF WriteMap /\ wph \in {"open", "scan", "scanned"}
                 THEN unsynced \cap dirty ELSE {}
  /\ UNCHANGED <<meta, file, lockVars, readerVars, txnVars, procVars,
                 ghostVars>>

\* The memory of the processes in P is gone; their slots stay behind.
LoseMemory(P) ==
  LET lost == {r \in Readers : Home[r] \in P} IN
  /\ crashes < MaxCrash /\ crashes' = crashes + 1
  /\ alive' = [p \in Procs |-> alive[p] /\ p \notin P]
  /\ rpc' = [r \in Readers |->
               IF r \in lost /\ rpc[r] # "idle" THEN "dead" ELSE rpc[r]]
  /\ rtxn' = [r \in Readers |-> IF r \in lost THEN 0 ELSE rtxn[r]]
  /\ rver' = [r \in Readers |-> IF r \in lost THEN 0 ELSE rver[r]]
  /\ rlive' = [r \in Readers |-> IF r \in lost THEN {} ELSE rlive[r]]
  /\ rnext' = [r \in Readers |-> IF r \in lost THEN 0 ELSE rnext[r]]
  /\ IF wlock \in P THEN ForgetTxn /\ wlock' = OwnerDead
                    ELSE UNCHANGED <<wlock, txnVars>>
  /\ UNCHANGED <<mti, pin, fatal, pgoldest, acked>>

\* A process dies.  A pwrite it is in still completes; stores to the map
\* stop where they are.
ProcessCrash(p) ==
  /\ alive[p]
  /\ wlock = p /\ wph \in {"dbs", "last_pg"} => WriteMap
  /\ LoseMemory({p})
  /\ UNCHANGED fileVars

\* mdb_env_close of a broken environment.  (Of a working one it has the
\* effect of a ProcessCrash that finds nothing running.)
Close(p) ==
  /\ alive[p] /\ fatal[p] /\ wlock # p
  /\ \A r \in Readers : Home[r] = p => rpc[r] \in {"idle", "dead"}
  /\ alive' = [alive EXCEPT ![p] = FALSE]
  /\ UNCHANGED <<fileVars, lockVars, readerVars, txnVars, fatal, pgoldest,
                 ghostVars>>

\* The machine dies: of each meta page the disk has the last synced state
\* or the last written one, of an unsynced page it has anything.
CrashedMetas == {m \in [Metas -> {meta[0], meta[1], disk[0], disk[1]}] :
                   \A s \in Metas : m[s] \in {meta[s], disk[s]}}

SystemCrash ==
  /\ PowerLoss /\ \E p \in Procs : alive[p]
  /\ LoseMemory(Procs)
  /\ \E m \in CrashedMetas : meta' = m /\ disk' = m
  /\ file' = [q \in Pages |-> IF q \in unsynced THEN NoTxn ELSE file[q]]
  /\ unsynced' = {}

\* mdb_env_open: whoever comes first initialises the lock region.
Open(p) ==
  /\ ~alive[p]
  /\ alive' = [alive EXCEPT ![p] = TRUE]
  /\ fatal' = [fatal EXCEPT ![p] = FALSE]
  /\ pgoldest' = [pgoldest EXCEPT ![p] = 0]
  /\ IF \E o \in Procs : alive[o]
     THEN UNCHANGED <<mti, pin, wlock, rpc>>
     ELSE /\ mti' = PickMeta(meta).mm_txnid
          /\ wlock' = Unlocked
          /\ pin' = [r \in Readers |-> NoTxn]
          /\ rpc' = [r \in Readers |-> "idle"]
  /\ UNCHANGED <<fileVars, rtxn, rver, rlive, rnext, txnVars, ghostVars>>

-----------------------------------------------------------------------------
ReaderStep(r) ==
  \/ ReaderLoad(r) \/ ReaderStore(r) \/ ReaderPin(r)
  \/ ReaderCopyDbs(r) \/ ReaderCopyLastPg(r) \/ ReaderEnd(r)

ProcStep(p) ==
  \/ WriterBegin(p) \/ WriterBeginRecover(p) \/ WriterPanicRecover(p)
  \/ ReaderCheck(p) \/ EnvSync(p) \/ ProcessCrash(p) \/ Close(p)
  \/ Open(p)

PageStep(q) == Touch(q) \/ LoosePage(q) \/ FreePage(q) \/ FreeOverflow(q)

OperationStep ==
  \/ NewPage \/ AllocFail \/ ScanBegin \/ ScanSlot \/ ScanEnd
  \/ \E q \in Pages : PageStep(q)

CommitStep ==
  \/ FreelistSave \/ PageFlush \/ EnvSync0
  \/ WriteMetaDbs \/ WriteMetaLastPg \/ WriteMetaTxnid \/ SyncMeta
  \/ Publish \/ CommitReturn \/ WriteMetaFail \/ SyncMetaFail

Next ==
  \/ \E r \in Readers : ReaderStep(r)
  \/ \E p \in Procs : ProcStep(p)
  \/ OperationStep \/ CommitStep \/ Abort \/ SystemCrash

Spec == Init /\ [][Next]_vars

-----------------------------------------------------------------------------
(***************************************************************************)
(* Properties.                                                             *)
(***************************************************************************)
ReaderPhases ==
  {"idle", "loaded", "stored", "retry", "pinned", "copied", "active", "dead"}
WriterPhases ==
  {"none", "open", "scan", "scanned", "saved", "flushed", "synced", "dbs",
   "last_pg", "txnid", "meta_synced", "published"}

FileType ==
  /\ meta \in [Metas -> MetaPage] /\ disk \in [Metas -> MetaPage]
  /\ file \in [Pages -> 0..NoTxn] /\ unsynced \in SUBSET Pages

ReaderType ==
  /\ pin \in [Readers -> 0..NoTxn] /\ rpc \in [Readers -> ReaderPhases]
  /\ rtxn \in [Readers -> 0..MaxTxn] /\ rver \in [Readers -> 0..MaxTxn]
  /\ rlive \in [Readers -> SUBSET Pages] /\ rnext \in [Readers -> 0..MaxPg]

TxnType ==
  /\ wph \in WriterPhases /\ wtxn \in 0..NoTxn /\ werr \in BOOLEAN
  /\ live \in SUBSET Pages /\ freedb \in [Txns -> SUBSET Pages]
  /\ freepgs \in SUBSET Pages /\ dirty \in SUBSET Pages

AllocType ==
  /\ nextpg \in 2..(MaxPg - 1) /\ pglast \in 0..MaxTxn
  /\ pghead \in SUBSET Pages /\ loose \in SUBSET Pages
  /\ scani \in 0..NReaders /\ scanold \in 0..NoTxn

ProcType ==
  /\ mti \in 0..MaxTxn /\ wlock \in Procs \cup {Unlocked, OwnerDead}
  /\ alive \in [Procs -> BOOLEAN] /\ fatal \in [Procs -> BOOLEAN]
  /\ pgoldest \in [Procs -> 0..NoTxn]
  /\ acked \in 0..MaxTxn /\ crashes \in 0..MaxCrash

\* Every variable has its type; the writer mutex is held exactly while a
\* write transaction runs.
TypeOK ==
  /\ FileType /\ ReaderType /\ TxnType /\ AllocType /\ ProcType
  /\ wph # "none" <=> wlock \in Procs

\* A read transaction whose view is the version its slot protects.
HasView(r) == rpc[r] = "active" /\ rver[r] = pin[r]

\* Snapshot isolation on the file: no page a reader's version reaches is
\* written again while the reader is active, whatever writers, other
\* readers and crashed processes do (mdb_find_oldest, mdb_page_alloc).
SnapshotIntact ==
  \A r \in Readers : HasView(r) => \A q \in rlive[r] : file[q] <= rver[r]

\* The oldest reader a process remembers is never younger than a reader
\* that is now protected, nor than the last commit: using the remembered
\* value instead of a new scan never frees too much.
CachedOldestSafe ==
  \A p \in Procs : alive[p] =>
    /\ pgoldest[p] <= mti
    /\ \A r \in Readers :
         rpc[r] \in {"pinned", "copied", "active"} => pgoldest[p] <= pin[r]

\* A write transaction starts from the newest meta page and never writes
\* over it, also after a writer died between its meta page and mti_txnid
\* (mdb_mutex_failed: "otherwise next writer can overwrite data which
\* latest meta page refers to").
WriterBaseIsNewest ==
  wph \in {"open", "scan", "scanned", "saved", "flushed", "synced", "dbs",
           "last_pg"} =>
    PickMeta(meta).mm_txnid = wtxn - 1

\* At every moment the newest meta page partitions the file: no page is lost
\* and none is owned twice, whatever was aborted, freed or recycled (MDB_page:
\* "reachable exactly once in the snapshot"; mdb_audit).
SnapshotPartition == WholeMeta(PickMeta(meta))

\* What a crash of the machine now would leave: the newest meta page of
\* every outcome reaches only pages that are on disk and not overwritten.
CrashSafe ==
  \A m \in CrashedMetas :
    LET dbs == PickMeta(m).mm_dbs IN
      \A q \in dbs.live : q \notin unsynced /\ file[q] <= dbs.ver

\* A commit that returned survives every crash; with MDB_NOMETASYNC the
\* last one may be undone, none before it.
DurabilityBound ==
  \A m \in CrashedMetas :
    PickMeta(m).mm_txnid >= IF NoMetaSync THEN acked - 1 ELSE acked
=============================================================================
