------------------------------ MODULE MvccInv ------------------------------
(***************************************************************************)
(* The inductive invariant of Mvcc.  The properties of interest say that a *)
(* version somebody may still read is intact now; the invariant adds why   *)
(* it stays so: no freeDB record that may be consumed, no page list of the *)
(* writer and no dirty page meets it, and the ids by which the writer      *)
(* judges that are right.                                                  *)
(***************************************************************************)
EXTENDS Mvcc

\* The newest meta page, where PickMeta finds it, and the other one.
NewSlot == IF meta[0].mm_txnid < meta[1].mm_txnid THEN 1 ELSE 0
New == meta[NewSlot]
Old == meta[1 - NewSlot]
Newest == New.mm_txnid

Up == \E p \in Procs : alive[p]
Holding(r) == rpc[r] \in {"pinned", "copied", "active"}

Building == wph \in {"open", "scan", "scanned"}
Saved == wph \in {"saved", "flushed", "synced", "dbs", "last_pg"}
Synced == wph \in {"synced", "dbs", "last_pg"}
InDoubt == wph \in {"txnid", "meta_synced"}

\* The pages S of version t are safe from this and every later writer that
\* knows of a reader at t: given the newest meta page, the page versions in
\* the file, and the writer's freeDB, dirty pages and me_pghead.
Safe(t, S, new, f, fdb, d, ph) ==
  /\ \A q \in S : q <= new.mm_last_pg /\ f[q] <= t
  /\ S \cap d = {} /\ S \cap ph = {}
  /\ \A k \in Txns : k <= t => /\ S \cap new.mm_dbs.freedb[k] = {}
                               /\ S \cap fdb[k] = {}

Protected(t, S) == Safe(t, S, New, file, freedb, dirty, pghead)

NoFuture(f, n) == \A k \in Txns : k > n => f[k] = {}

\* A meta page from which a writer may start.
Committed(m) ==
  /\ m.mm_dbs.ver = m.mm_txnid
  /\ WholeMeta(m) /\ NoFuture(m.mm_dbs.freedb, m.mm_txnid)
  /\ Protected(m.mm_txnid, m.mm_dbs.live)

\* The other meta page still matters: readers are sent to it, or a crash of
\* the machine would fall back to it.
OldKept ==
  \/ Up /\ mti # Newest
  \/ ~NoSync /\ disk[NewSlot] # New

\* A meta page holds a transaction id that belongs in its place, or none.
InPlace(m) ==
  \A s \in Metas : m[s].mm_txnid = 0 \/ Slot(m[s].mm_txnid) = s

MetaInv ==
  /\ InPlace(meta)
  /\ Committed(New)
  /\ OldKept => Committed(Old) /\ Old.mm_txnid + 1 = Newest

MtiInv ==
  /\ Up /\ mti # Newest => mti + 1 = Newest /\ (InDoubt \/ wlock = OwnerDead)
  /\ Up /\ InDoubt => mti # Newest

ReaderInv ==
  \A r \in Readers :
    /\ rpc[r] \notin {"idle", "dead"} => alive[Home[r]]
    /\ Holding(r) => pin[r] <= mti
    /\ rpc[r] = "pinned" /\ meta[Slot(pin[r])].mm_dbs.ver = pin[r] =>
         Protected(pin[r], meta[Slot(pin[r])].mm_dbs.live)
    /\ rpc[r] \in {"copied", "active"} /\ rver[r] = pin[r] =>
         Protected(pin[r], rlive[r])

ScanInv ==
  wph = "scan" =>
    /\ scanold <= mti
    /\ \A r \in Readers : r > scani /\ Holding(r) => scanold <= pin[r]

\* The writer's page lists partition its part of the file.
WriterPages ==
  /\ \A q \in Pages :
       q < nextpg <=> \/ q \in live \/ q \in freepgs
                      \/ q \in loose \/ q \in pghead
                      \/ \E t \in Txns : t > pglast /\ q \in freedb[t]
  /\ live \cap freepgs = {} /\ live \cap loose = {} /\ live \cap pghead = {}
  /\ freepgs \cap loose = {} /\ freepgs \cap pghead = {}
  /\ loose \cap pghead = {} /\ loose \subseteq dirty
  /\ \A t \in Txns : t > pglast =>
       /\ freedb[t] \cap live = {} /\ freedb[t] \cap freepgs = {}
       /\ freedb[t] \cap loose = {} /\ freedb[t] \cap pghead = {}
  /\ \A t, u \in Txns :
       t # u /\ t > pglast /\ u > pglast => freedb[t] \cap freedb[u] = {}

SavedMeta ==
  [mm_dbs |-> NewDbs, mm_last_pg |-> nextpg - 1, mm_txnid |-> wtxn]

\* The writer works on the newest version and not on its pages.
BaseInv ==
  Building \/ Saved =>
    /\ wtxn = Newest + 1 /\ mti = Newest /\ New.mm_last_pg < nextpg
    /\ \A q \in live : q \in dirty \/ file[q] <= wtxn
    /\ \A q \in dirty : WriteMap => file[q] <= wtxn

BuildInv ==
  Building =>
    /\ WriterPages /\ NoFuture(freedb, Newest) /\ pglast <= Newest
    /\ pglast = 0 => pghead = {}

\* After mdb_freelist_save the meta page to be written is a whole one.
SavedInv ==
  /\ Saved => WholeMeta(SavedMeta) /\ NoFuture(freedb, wtxn) /\ pghead = {}
  /\ wph \in {"flushed", "synced", "dbs", "last_pg"} => dirty = {}
  /\ wph \in {"dbs", "last_pg"} => meta[1 - NewSlot].mm_dbs = NewDbs
  /\ wph = "last_pg" => meta[1 - NewSlot].mm_last_pg = nextpg - 1

WriterInv ==
  /\ BaseInv /\ BuildInv /\ SavedInv
  /\ InDoubt \/ wph = "published" => wtxn = Newest
  /\ wph = "none" => NoWriter

DiskInv ==
  /\ InPlace(disk)
  /\ \A s \in Metas : disk[s].mm_txnid <= meta[s].mm_txnid
  /\ ~NoSync =>
       /\ Synced => disk[NewSlot] = New /\ unsynced = {}
       /\ New.mm_dbs.live \cap unsynced = {}
       /\ disk[NewSlot] # New =>
            /\ disk[1 - NewSlot] = Old /\ Old.mm_dbs.live \cap unsynced = {}
            /\ \/ disk[NewSlot].mm_txnid < Old.mm_txnid
               \/ disk[NewSlot].mm_txnid = 0 /\ NewSlot = 1

\* Bounds that types alone do not give.
TxnBound ==
  /\ wph = "none" \/ wtxn = NoTxn => dirty = {} /\ freepgs = {}
  /\ wph \notin {"none", "open", "scan", "scanned"} => wtxn <= MaxTxn
  /\ wph # "none" => wtxn >= 1

HolderAlive == wlock \in Procs => alive[wlock]

TypeInv == TypeOK /\ TxnBound /\ HolderAlive

\* Every conjunct is needed to carry SnapshotIntact over one more step.
IInv ==
  TypeInv /\ MetaInv /\ MtiInv /\ ReaderInv /\ CachedOldestSafe /\ ScanInv
    /\ WriterInv /\ DiskInv

-----------------------------------------------------------------------------
(***************************************************************************)
(* Two invariants of their own, for the durability of commits and for the  *)
(* refinement of Snapshot.                                                 *)
(***************************************************************************)

\* The ids in the meta pages grow and keep up with mti_txnid, also when an
\* msync failed and the newest meta page is not the one mti_txnid names.
IdInv ==
  /\ InPlace(meta) /\ InPlace(disk)
  /\ \A s \in Metas : disk[s].mm_txnid <= meta[s].mm_txnid
  /\ Up => /\ meta[Slot(mti)].mm_txnid = mti
           /\ \A s \in Metas : meta[s].mm_txnid <= mti + 1
  /\ Building \/ Saved \/ InDoubt => wtxn = mti + 1
  /\ InDoubt \/ wph = "published" => meta[Slot(wtxn)].mm_txnid = wtxn
  /\ wph = "published" => wtxn = mti

\* The newest commit on disk.
OnDisk == PickMeta(disk).mm_txnid

LastDurable(t) == IF NoMetaSync THEN t - 1 ELSE t

\* A commit is on disk before it returns.
DurableInv ==
  /\ IdInv
  /\ ~NoSync =>
       /\ OnDisk >= LastDurable(acked)
       /\ Synced \/ wph = "txnid" => OnDisk >= wtxn - 1
       /\ wph \in {"meta_synced", "published"} => OnDisk >= LastDurable(wtxn)

\* What a reader copies, and has copied, is the version its slot names, with
\* all its pages below mt_next_pgno: nobody writes over the meta page that
\* it is copying.
FreshInv ==
  /\ \A r \in Readers :
       LET m == meta[Slot(pin[r])] IN
       /\ rpc[r] \in {"pinned", "copied"} =>
            m.mm_dbs.ver = pin[r] /\ \A q \in m.mm_dbs.live : q <= m.mm_last_pg
       /\ rpc[r] = "copied" => rver[r] = pin[r] /\ rlive[r] = m.mm_dbs.live
       /\ rpc[r] = "active" => rver[r] = pin[r] /\ \A q \in rlive[r] : q < rnext[r]
  /\ wph = "dbs" => ~StalledOn(Slot(wtxn))
=============================================================================
