# A verification development for dlmdb

dlmdb is a fork of LMDB: a memory-mapped, copy-on-write B+tree store for one
machine, with one writer at a time, readers that take no lock, and additions
of its own (counted trees, prefix compression of leaf pages, list duplicates).
Nearly everything is in `src/libraries/liblmdb/mdb.c`. This directory holds
TLA+ modules translated from that file, TLC configurations that check them on
small instances, and TLAPS proofs about the core for every size.

Paths without a directory below are in `src/libraries/liblmdb/`.

## 1. Inventory

| Component | State | Operations | What makes it correct |
|---|---|---|---|
| Meta pages, commit, recovery | two meta pages (`MDB_meta`), `mti_txnid`, robust writer mutex, `me_flags` | `mdb_txn_begin`, `_mdb_txn_commit`, `mdb_env_write_meta`, `mdb_env_sync`, `mdb_txn_end`, `mdb_mutex_failed` | the next writer builds on the newest commit and overwrites the other page; a crash leaves a whole commit; a commit that returned survives |
| Read transactions | `mr_txnid` in a slot, the copied `mm_dbs` | `mdb_txn_renew0`, `mdb_txn_end` | pages of the snapshot are not recycled while it lasts |
| Page allocation and the freeDB | `me_pghead`, `me_pglast`, `me_pgoldest`, `mt_free_pgs`, `mt_loose_pgs`, `mt_u.dirty_list`, `mt_spill_pgs` | `mdb_page_alloc`, `mdb_find_oldest`, `mdb_page_touch`, `mdb_page_loose`, `mdb_ovpage_free`, `mdb_freelist_save`, `mdb_page_spill` | each page of the file has one owner in each version; the search for a run of pages stays in its list; the save loop ends |
| Reader table | `mr_pid`, `mr_txnid`, `mti_numreaders`, reader mutex, fcntl locks on pids | slot claim in `mdb_txn_renew0`, `mdb_env_reader_dest`, `mdb_reader_check`, `mdb_env_close0` | a live slot is never cleared or shared, a dead one is found |
| Opening and closing | fcntl lock on the lock file, lock region, `MDB_RDONLY`, `MDB_PREVSNAPSHOT` | `mdb_env_open`, `mdb_env_setup_locks`, `mdb_env_excl_lock`, `mdb_env_share_locks`, `mdb_env_open2`, `mdb_env_close` | one process initialises the region; `mti_txnid` never falls behind the meta pages |
| Copying an environment | two buffers, `mc_new`, `mc_error` | `mdb_env_copyfd1` with `mdb_env_copythr`, `mdb_env_copyfd0`, prepared copies (`MDB_copy`) | the copy is the snapshot, errors reach the caller, the threads do not wait for each other |
| Nested transactions | parent and child lists, shadowed cursors, `mt_pgstate` | `mdb_txn_begin` with a parent, commit into the parent, abort | a child's abort leaves the parent as it was |
| B+tree | pages, cursor stacks | `mdb_put`, `mdb_del`, `mdb_page_split`, `mdb_page_merge`, `mdb_rebalance`, cursors | order, balance, page counts; every cursor follows its page |
| Counted trees (`MDB_COUNTED`) | count in each branch node | rank, range counts, `mdb_adjust_counted_parents` | each count is the size of its subtree |
| Prefix compression | leaf nodes as deltas to a trunk key | encode, decode, split points, per-cursor decode caches | decode inverts encode, both halves of a split fit, caches are not stale |
| Sorted duplicates, LEAF2, list_dup, projection | sub-pages and sub-databases | `mdb_cursor_put` with dups, `mdb_list_dup*`, projection (`src/duplicate-projection.md`) | as for the tree, one level down |
| Database handles | `me_dbxs`, `me_dbflags`, `me_dbiseqs`, `mt_dbflags` | `mdb_dbi_open`, `mdb_dbi_close`, `mdb_dbis_update` | a stale handle is noticed |
| ID lists | `midl.c` | search, insert, merge, sort | sorted, no loss, no overflow |
| Command line tools, tests, benchmarks | none | | thin callers of the library |

How they interact. Processes share the data file (through a map and through
`pwrite`) and the lock region. The writer mutex serialises write transactions;
readers are known to writers only through their slots, which `mdb_find_oldest`
reads without a lock. The allocator takes pages from freeDB records older than
the oldest slot; the freeDB is itself a tree whose pages the allocator
provides. Commit order is: free lists, data pages, sync, meta page,
`mti_txnid`. Opening decides, under fcntl locks, who may reset all of that.

What is hard: readers race with commits and with the scan of their slots;
processes die at any point with a mutex held or a meta page half stored; the
machine dies with pages unsynced; page numbers pass through many lists over
many transactions; process ids are reused; an opener fails while another
waits. `PROJECT.json` lists these hazards at their lines with the properties
that cover them.

## 2. Plan

Done, in this order:

1. `Mvcc`: meta pages, read and write transactions, page recycling, crashes.
   `Snapshot` is what it promises; `MvccSnapshot` the refinement mapping.
2. `MvccInv`, `MvccTypeProofs`, `MvccProofs`: the inductive invariant, proved.
3. `EnvOpen`: the lock file protocol and the open modes.
4. `ReaderTable`: slots, process ids, repair of the reader mutex.
5. `EnvCopy`: the two threads of the compacting copy.
6. `ReaderTableProofs`: why a slot is never lost, proved.
7. `Midl`, `TxnPages`, `FreelistSave`: the page lists of one write transaction
   with nesting and spilling, and the loop of `mdb_freelist_save`.
8. `BTreePages`, `BTreeOps`, `BTreeAccess`, `BTree`: insertion, deletion,
   split, move, merge and rebalance with tracked cursors, subtree counts and
   prefix compression. `OrderedMap` is what a program is promised.
9. `EnvOpenProofs`, `EnvCopyProofs`: no commit is lost by an opener, no page
   by the two threads of the copy, proved.
10. `MvccDurabilityProofs`: a commit that returned survives, proved without
    `Guarded`. `MvccRefinementProofs`: `Mvcc` implements `Snapshot`, proved.

Left, the most important first:

11. The two caches of a cursor (sequential rank, decoded prefixes) as state of
   `BTree`, so that their validity is checked and not only read (section 6
   shows why this one matters).
12. Sorted duplicates: sub-pages that grow into sub-databases, the list calls
    and projection on top of them.
13. Database handles and `mdb_dbis_update`; prepared copies (`MDB_copy`).
14. Proofs: the owner of a page in `TxnPages` (`PagesPartitioned` for every
    depth of nesting).

## 3. The modules

### Mvcc

One data file, any number of processes `Procs`, reading threads `Readers` with
one slot each, at most one write transaction.

| Variable | Code |
|---|---|
| `meta`, `disk` | the two meta pages as the map shows them, and as they are on disk |
| `file`, `unsynced` | per page, the transaction that last wrote it in the map; pages not on disk |
| `mti`, `pin`, `wlock` | `mti_txnid`, `mr_txnid` of each slot, the writer mutex (`Unlocked`, a process, `OwnerDead`) |
| `rpc`, `rtxn`, `rver`, `rlive`, `rnext` | where a reader is in `mdb_txn_renew0`, the value it loaded, the version, pages and map end it copied |
| `wph`, `wtxn`, `live`, `freedb`, `nextpg` | phase of the write transaction, `mt_txnid`, the pages its trees reach, its freeDB, `mt_next_pgno` |
| `pghead`, `pglast`, `freepgs`, `loose`, `dirty` | `me_pghead`, `me_pglast`, `mt_free_pgs`, `mt_loose_pgs`, the dirty list |
| `scani`, `scanold`, `pgoldest` | the loop of `mdb_find_oldest`, `me_pgoldest` of each process |
| `alive`, `fatal`, `werr` | the process runs, `MDB_FATAL_ERROR`, `MDB_TXN_ERROR` |
| `acked`, `crashes` | observations: last commit that returned, crashes so far |

A tree is the set of its pages, page contents are the id of the last writer.
That is all the properties need: a snapshot is intact when none of its pages
was written after it. A read transaction begins in five steps (load
`mti_txnid`, store it in the slot, compare again, copy the roots, copy the
last page), because everything may happen between them. `mdb_find_oldest`
reads one slot per step. A commit is free lists, flush, sync, three stores
into the meta page, sync of the meta page, `mti_txnid`, unlock. A process may
die between any two steps (inside one `pwrite` the kernel finishes it; stores
into the map stop where they are), and a loss of power keeps, for each meta
page, the last synced or the last written state and makes unsynced pages
garbage.

Constants: `NoSync`, `NoMetaSync`, `WriteMap` are the environment flags;
`UserSync`, `IoErrors`, `PowerLoss` switch those events on; `MaxTxn`, `MaxPg`,
`MaxDirty`, `MaxCrash` are bounds (the second and third are limits of the
code, too). `NoStall` says that a reader is not suspended between choosing a
meta page and copying it for so long that two commits pass. The caveats of
`dlmdb.h` (lines 112-114) warn about this: the code copies `mm_dbs` and
`mm_last_pg` (mdb.c:6968-6971) without a check, so such a reader gets roots of
one version and the size of another. The run on isolation leaves `NoStall` off
and speaks about readers whose copy did come from the version in their slot.

### Snapshot, MvccSnapshot

`Snapshot` has four variables: the newest version, the version that is sure to
survive, whether a commit is in doubt, and what each reader sees. A commit
takes effect at one moment; if its process dies it takes effect later, once,
or never; a loss of power goes back no further than the durable version.
`MvccSnapshot` maps `Mvcc` onto it. A reader whose page was overwritten is
mapped to a version that does not exist, so `ImplementsSnapshot` contains
snapshot isolation. `MvccInv` has the invariants the proofs are about: `IInv`,
`DurableInv` and `FreshInv` (section 5).

### EnvOpen

Processes open one environment in four modes (read-write, read-only, each also
with `MDB_PREVSNAPSHOT`). State: the data file (`none`, `empty`, `metas`), the
fcntl lock of each process, `magic`, `mti`, `wmutex` of the region, and per
process the place in `mdb_env_open` (`pc`), the header it read, its write and
its read transaction. A version is the set of commits it contains, so that a
lost commit shows. The steps of `mdb_env_open` are those at which other
processes can be seen: exclusive lock or wait, share granted, region checked
or initialised, header read, meta pages created, locks shared. `clean` is an
observation, see the findings. The end of the module has the inductive
invariant `IInv`: who may hold which lock, and, while the history is clean,
what the data file, the region and the transactions have to do with each other.

### ReaderTable

Threads claim slots in the four stores of `mdb_txn_renew0`, exit
(`mdb_env_reader_dest`, no mutex), and check for dead readers step by step;
processes open, close (no mutex) and die. A process is its id, so `Open` after
`Die` is reuse of the id. `pidlock` are the fcntl locks behind
`mdb_reader_pid`. The repair of a mutex whose owner died (`Recover`) runs a
check inside a claim or inside another check, as `mdb_mutex_failed` does.

### EnvCopy

`mdb_env_copyfd1` and `mdb_env_copythr` with their mutex, condition variable,
two buffers, and the overflow tail that stays in the map. The walk is a list
of items (a page, or an overflow chain); a page of the copy is its number.
`write` may take any part of a buffer, or fail; the walk may fail;
`pthread_cond_wait` may return without a signal, `MaxSpurious` times.
`Total` is the recursive function that numbers the pages; `IInv`, at the end,
says what the two buffers hold at every moment.

### Midl, TxnPages, FreelistSave

`Midl` has the list algorithms of `midl.c` (binary search, merge from the
tails, range append) on sequences. `TxnPages` has one write transaction and
the transactions nested in it:

| Variable | Code |
|---|---|
| `txns` | the stack of transactions; each has the dirty list (`dirty`, page to contents), the room left in it (`room`), `spill`, `free`, `loose`, the `P_KEEP` flags (`keep`), `mt_next_pgno` (`next`), the cursors and their backups (`cur`), the error flag and the tree (`root`, `leaves`, `ov`, `val`) |
| `pgstate` | `me_pghead` (null or ids) and `me_pglast`; a nested begin saves it in `saved` |
| `file`, `fdb` | contents of the pages of the file, the freeDB (one leaf, its records, their overflow runs) |
| `base`, `leak` | observations: the committed version, and whether hazard mdb.c:6203 happened |
| `save` (in `FreelistSave`) | the local variables of `mdb_freelist_save` |

A handler of the code is a chain of calls that each change several of these;
it is one action here, computed on the record `World` (all the variables
together) by operators named after the calls: `PageAlloc`, `PageTouch`,
`PageSpill`, `PageUnspill`, `OvpageFree`, `PageLoose`, `PageFlush`. The
contents of a page is one bit that every write flips; `val` says what the
transaction wrote, and so what a page must show wherever it is kept. What the
operations do to a tree is reduced to what the lists see of it: move a cursor
(`OpSeek`), write a leaf, split it, put, overwrite or delete an overflow run of
two pages, merge a leaf away in both directions. A spill or a flush may fail.
A commit is then `SaveDelete`, `SavePutFree`, `SaveReserve`, `SaveFill`
(one round of the outer loop is one or more of these) and the flush.

### BTreePages, BTreeOps, BTreeAccess, BTree, OrderedMap

One `MDB_COUNTED` database in a write transaction, with or without
`MDB_PREFIX_COMPRESSION`. Everything a call may change is one record `w`:
pages, root, depth, entries, cursors. `BTreePages` reads and writes single
nodes (`mdb_node_add`, `mdb_node_del`, `mdb_node_search`, sizes, encoding,
counts); `BTreeOps` has `mdb_page_touch`'s redirection of cursors,
`mdb_page_split`, `mdb_update_key`, `mdb_node_move`, `mdb_page_merge`,
`mdb_rebalance`, `mdb_cursor_del0`, each with its loop over the other cursors
and its count adjustment in the order of the code, as functions from `w` to
`w`; `BTreeAccess` has the calls (`mdb_cursor_set`, `_first`, `_last`, `_next`,
`_prev`, `mdb_cursor_put`, `mdb_cursor_del`, `mdb_put`, `mdb_del`, ranks and
range counts). A call is one action of `BTree`: a transaction is
single-threaded, so nothing runs in between.

A key is a number with a sequence of bytes, a value is its size. Local
cursors of the code (`mn` of a split, a rebalance, a move) are in `w.cur`
while they are on `mt_cursors`, since the loops over the cursors change them,
too. A compressed node keeps the length of the prefix it shares with the
trunk and its own key; it decodes to key 0 when the trunk it is read under
does not have that prefix. `keySplit` records that the path of section 6,
item 2, was taken.

`OrderedMap` is the specification: a map, cursors that stay on their keys, and
the answers of the calls. `seen` is what a program can see of `w`; `BTree`
implements `OrderedMap` with `kv`, `at`, `del`, `ended` taken from it.

The memory of all models is sequentially consistent.

## 4. What TLC checks

Each property has a faulty variant of one definition in its module (comment
"Faulty" or "mutant"), a mistake one could make in that code, under which TLC
finds the property violated.

`TypeOK` is listed only where no inductive invariant is: each `IInv` has it as a
conjunct. `IInv`, `DurableInv` and `FreshInv` were checked before they were
proved inductive; section 5 has the proofs.

| Run | Instance | Shows |
|---|---|---|
| `MvccIsolation` | 1 process, 2 readers that stall anywhere, 4 transactions, 3 pages | `SnapshotIntact`: no page of an active snapshot is overwritten. `CachedOldestSafe`: `me_pgoldest`, kept over transactions, stays a safe bound |
| `MvccPowerLoss` | 1 process, 1 reader, 4 transactions, `MDB_NOMETASYNC`, one loss of power or death | `CrashSafe`, the inductive invariant `IInv`, refinement of `Snapshot` |
| `MvccRecovery` | 2 processes, 1 reader, 4 transactions, 2 pages, I/O errors, one death | `WriterBaseIsNewest`, and `FreshInv`, from which the refinement of `Snapshot` is proved |
| `MvccWriteMap` | 1 process, 4 transactions, 2 dirty pages, `MDB_WRITEMAP`, failing syncs, forced syncs, one crash | `SnapshotPartition`, `DurabilityBound`, and `DurableInv`, from which the last is proved |
| `EnvOpen` | 3 processes, 4 modes, failing openers, 2 commits | `NoCommitLost`, `FreshRead`, `WriterKeepsMutex`, the inductive invariant `IInv` |
| `ReaderTable` | 2 processes with 2 and 1 threads, 2 slots | `HolderKeepsSlot`, `CheckFindsAll`, the inductive invariant `IInv` |
| `EnvCopy` | buffers of 3 pages, 10 items with chains of 2, 3, 4 pages | `PagesInPlace`, `ResultIsTrue`, `HandedUntouched`, the inductive invariant `IInv`, and `CopyEnds` |
| `FreelistSave` | 5 operations, 2 levels, 2 cursors, dirty list of 4 pages, spills of 2, 25 pages; starting with no free page, or with two freeDB records of which one has three overflow pages | what a transaction wrote is what it reads (`ReadsOwnWrites`) and what reaches the file (`CommitWritesAll`); each page has one owner on every level (`PagesPartitioned`) and after the commit (`FreeListSaved`); `CommittedIntact`, `CursorsFresh`, `RoomIsExact`, `ListsSearchable`, `TypeOK`, and `SaveEnds` |
| `BTree` | 2 calls with any key of 8 on 12 trees of up to 3 levels, a cursor on every key, 2 of them moved and written through, room for 12 bytes of nodes in a page | `TreeShape`, `PagesFit`, `NoCallFails`, `CursorPathsHold`, `CountsExact`, `RanksAreOrdinals`, `ImplementsOrderedMap`, `TypeOK` |
| `MvccMsyncFail`, `EnvPrevCommit`, `EnvOpenDies` | see section 6 | counterexamples |

Why the bounds are enough. A page that transaction *t* frees goes under key
*t* in the freeDB and is reused by *t + 2* at the earliest; the instances
start from a file with one commit, so `MaxTxn = 4` is the first value at which
a page is recycled, and all four places of a reader relative to a recycling
(before, during the scan, behind it, after) occur. With the two pages of
`MvccRecovery` the file is full after one copy, so transactions also fail with
`MDB_MAP_FULL` and go on after a page was recycled. Three data pages are one
for the tree, one for its copy, and one freed. One crash is one fault between
any two steps; the process reopens and goes on. Two slots make the reader
table both partly and completely full with three threads; with three slots the
same properties hold (7.9 million states). Three processes are an opener, one
that waits, and one that works or dies; two commits fill both meta pages
(three also pass, 6.9 million states). The items of the copy use each buffer
several times, hand one over full, others early because of a tail, and let a
tail follow a chain that opens a buffer.

In `FreelistSave` a dirty list of four pages runs full after three operations,
so spills happen in the parent, in the child and again after the child
returned. These cases were seen to occur: both levels spill; a child dirties a
page its parent spilled; a spilled page is freed (the deleted slots of
`mt_spill_pgs`); loose pages in the child and when the save begins; the put of
a record that allocates from the record before it; three and more records;
records that shrink (`more` below 1); the leak of section 6. Not reached:
a retry because the put freed pages itself (`again`), and records of length 0.

In `BTree` two calls are few, but they start from twelve trees built to be at
the edges: full and sparse pages, filled from the left, from the right and
from both ends, with and without compression. With 12 bytes in a page and keys
of 1 to 4 bytes these happen: moves of a node from the left and from the
right, on leaves and branches; merges of both kinds; the collapse of the root
and its emptying; splits of leaves and branches, by appending, in the middle
and by a replaced value; a separator that grows and splits its parent. Random
behaviours of 40 calls (540 thousand steps, also with longer pages and keys)
found no violation either. Not reached, because sizes do not come out that
way: `mdb_prefix_split_before_trunk_delete` overflowing, a refusal of
`mdb_node_move` or `mdb_page_merge` for lack of room, `AdjustSplit` to the
right, a stored suffix that equals the trunk (section 6, item 3, keys of the
instance avoid it).

Deadlock is checked wherever the system cannot stop; `EnvCopy` (the copy is
over) and `BTree` (calls are bounded) can.

Fairness. Two properties are about what must happen. `CopyEnds`: weak fairness
of each of the two threads is what a scheduler gives; no fairness of the mutex
is needed, since a thread that finds nothing to do sleeps until the other one
has acted. Spurious wakeups come to an end. `SaveEnds`: a commit is one call
that nothing interrupts, so once begun it goes on (`CommitFairness`); the
question is whether its loop, which changes what it has to store, comes to an
end. The other components promise nothing of the kind: a writer may keep the
mutex for ever, a reader its snapshot.

## 5. What TLAPS proves

`MvccTypeProofs` and `MvccProofs`, for every number of processes, readers,
pages, transactions and crashes, and every initial pair of meta pages that
`InitMetasAssumption` admits:

| Theorem | Statement |
|---|---|
| `TypeCorrect` | `Spec => []TypeOK` |
| `Invariant` | `Guarded`: `Spec => []IInv` |
| `SnapshotsStayIntact` | `Guarded`: `Spec => []SnapshotIntact` |
| `RememberedOldestIsSafe` | `Guarded`: `Spec => []CachedOldestSafe` |
| `WriterStartsFromNewest` | `Guarded`: `Spec => []WriterBaseIsNewest` |
| `PagesStayPartitioned` | `Guarded`: `Spec => []SnapshotPartition` |
| `CrashesLeaveACommit` | `Guarded`, `~NoSync`: `Spec => []CrashSafe` |

`Guarded` excludes two things: a loss of power under `MDB_NOSYNC`, which
promises nothing then, and failing msyncs under `MDB_WRITEMAP`, for which the
run `MvccMsyncFail` is a counterexample.

The argument. `SnapshotIntact` speaks of pages as they are now; it is
preserved only if nobody who may write such a page exists. `IInv` (module
`MvccInv`) says why none does. `Safe(t, S, ...)` says that pages `S` of
version `t` were not written after `t`, are not dirty, not in `me_pghead`, and
in no freeDB record with a key up to `t`, neither in the newest meta page nor
in the writer's copy. `MetaInv`: the newest version is `Safe` and partitions
the file; so is the one before it as long as a reader can be sent there or a
crash can fall back to it (`OldKept`). `MtiInv`: `mti_txnid` is behind the
newest meta page by at most one, and only while a commit is in doubt.
`ReaderInv`: what a reader copied is `Safe` for its id. `ScanInv` and
`CachedOldestSafe`: the bound that `mdb_find_oldest` is computing, and the one
that was remembered, are not above any such reader; a reader that starts
behind the scan pins at least `mti_txnid`, which is not below the bound.
`WriterInv`: the page lists of the writer partition its part of the file
before and after `mdb_freelist_save`. `DiskInv`: which states of the meta
pages the disk may hold. Every record that `mdb_page_alloc` consumes has a key
below the bound, hence below every id for which something is `Safe`, and
`Safe` says that the record shares no page with it. Each action has a lemma;
lemmas named `Keep...` say what a step must leave alone to preserve one
conjunct.

`MvccDurabilityProofs`, for the same constants:

| Theorem | Statement |
|---|---|
| `DurableInvariant` | `Spec => []DurableInv` |
| `CommitsAreDurable` | `~NoSync`: `Spec => []DurabilityBound` |

Neither needs `Guarded`: a failed msync of the meta page lets the next writer
overwrite the newest version (section 6), but that version belongs to a commit
that returned an error. `IInv` is false then, so these theorems have an
invariant of their own, which is about ids only. `IdInv`: the ids in the two
meta pages are in their places, those on disk are not ahead of those in the
map, and both are at most one ahead of `mti_txnid`, whose meta page has its
id. `DurableInv` adds how far the disk is: before the meta page is written, it
has the commit before; after the sync of the meta page, this one; and always
the last commit that returned (with `MDB_NOMETASYNC` each of these is one
less, because the meta page goes out with the next sync). A crash leaves for
each meta page an id between those of disk and map, so `mdb_env_pick_meta`
finds no smaller one.

`MvccRefinementProofs`:

| Theorem | Statement |
|---|---|
| `ReadersCopyOneVersion` | `Guarded`, `NoStall`: `Spec => []FreshInv` |
| `EngineImplementsSnapshot` | `Guarded`, `NoStall`: `Spec => ImplementsSnapshot` |

`NoStall` is needed: a reader that is suspended between choosing a meta page
and copying it while two commits pass gets another version than the one in its
slot (see `Mvcc` in section 3), and then sees no version at all. `FreshInv`
says that this cannot happen otherwise: the meta page that a slot in use
selects holds that version until it is copied, because the page being filled
is the one `mti_txnid` does not name, and nobody is stalled on it. With `IInv`
and `FreshInv` the view of a reader is the id in its slot, and the durable
version is the newest one on disk (`SameMapping`); so the steps are mapped
with this simpler mapping, the instance `A`. A reader begins when its second
look finds `mti_txnid` unchanged; a commit is in doubt from the store of
`mm_txnid` on, and takes effect with `mti_txnid`, with the recovery of the
mutex, or with the end of the last process, after which the next opener reads
the meta pages (`Ends`); every sync is a `Sync`, because the disk does not get
ahead of the map (`Syncs`); everything else is a stutter.

`EnvOpenProofs`, for every number of processes and commits and every set of
modes:

| Theorem | Statement |
|---|---|
| `Invariant` | `Spec => []IInv` |
| `TypeCorrect` | `Spec => []TypeOK` |
| `MutexIsKept` | `Spec => []WriterKeepsMutex` |
| `CommitsAreKept` | `Spec => []NoCommitLost` |
| `ReadsAreFresh` | `Spec => FreshRead` |

The argument. The locks and the mutex are right in every history (`LockInv`,
`MutexInv`): whoever has the whole fcntl lock is alone, so nobody initialises
the region under a writer. The rest holds as long as the history is clean
(`CleanInv`). `FileInv`: the file has its meta pages before a second process
gets a share of the lock, so nobody creates them twice. `MtiInv`: as soon as
the region is shared, `mti_txnid` names the newest meta page, or the one before
it while a commit is in doubt, and the meta page it names has every commit
that returned. `WriterInv`: a writer therefore builds on the newest version,
and `ChainInv`, the newest meta page contains what the other one has. A first
opener that dies before it shares the lock leaves `InUse` true with a region
it did not fill; that is what `clean` excludes, and where the run
`EnvOpenDies` finds a counterexample.

`EnvCopyProofs`, for every list of pages and chains, every size of the buffers,
failing or not, and every number of spurious wakeups:

| Theorem | Statement |
|---|---|
| `Invariant` | `Spec => []IInv` |
| `TypeCorrect` | `Spec => []TypeOK` |
| `PagesLandInPlace` | `Spec => []PagesInPlace` |
| `ResultHolds` | `Spec => []ResultIsTrue` |
| `BuffersAreLeftAlone` | `Spec => HandedUntouched` |

The argument. `TurnInv`: the buffers are used in turn, `mc_new` is the number
that were handed over, and at most one is when the provider fills the other.
`StreamInv`, as long as nothing failed: what has been written, what is left of
the writer's buffer with its tail, and what is in the other one are the
numbers from 0 to `nextPgno`, without a gap (`WriterInv` for a buffer half
written, when its tail follows, and in between). `EmptyInv`: a buffer that
nobody handed over holds nothing, so its length can be reset twice. After a
failure only `PagesInPlace` is left of this, since the threads go on without
writing. `EofInv` and `ErrorInv`: the walk is over when `MDB_EOF` is sent, and
the error the provider returns is the writer's or its own. That `nextPgno` is
`Total` of the items walked so far needs that the recursive function `Total`
has its values, which is proved by taking the least number without one (the
order of the naturals is well-founded).

`ReaderTableProofs`, for every number of threads, processes and slots, and
every assignment of threads to processes:

| Theorem | Statement |
|---|---|
| `Invariant` | `Spec => []IInv` |
| `TypeCorrect` | `Spec => []TypeOK` |
| `SlotsAreKept` | `Spec => []HolderKeepsSlot` |
| `ChecksAreComplete` | `Spec => []CheckFindsAll` |

The argument. A slot could be lost in two ways: two threads get it, or a check
clears it. The first needs `MutexInv` and `ClaimInv`: the slot being claimed is
nobody's, and whoever claims has the mutex. For the second, a check clears
slots of an id that it found unlocked, but that was an earlier moment: the
process may have come back. `ClearInv` says that even then it has no slot yet:
it locks its id first (`ProcessInv`), so `mdb_reader_check0`'s second look
under the mutex sees it, and from then on its threads wait for that mutex. A
check that runs inside `mdb_mutex_failed` has the mutex from the start and
needs no second look. `CheckFindsAll` needs `StaleInv`: every slot of a stale
process lies between the index of the loop and `rdrs`, and its process has not
been looked at yet; this fails if a slot of an id could be skipped because
the id was seen alive and died meanwhile, which `stale` (dead since the
beginning) excludes. `LoopInv` keeps the indices in range. Each action has a
lemma; each starts with the effect of the step (`step`) and has one step per
conjunct.

Only model-checked: everything about `FreelistSave` (with `Midl` and
`TxnPages`) and `BTree` (with `OrderedMap`). Their modules use recursive
operators, with which the prover loses its arithmetic. Liveness, `CopyEnds`
and `SaveEnds`, is out of its reach, as is `ENABLED`. Induction over data is
within it only where, as for `Total`, a least counterexample can be taken of a
recursive function.

## 6. Where the code does not do what it says

* `MvccMsyncFail`. With `MDB_WRITEMAP`, when the msync of the meta page fails
  (mdb.c:8296-8299) the new `mm_txnid` stays in the shared map and `mti_txnid`
  is not updated. The writer's process is marked broken, others are not: the
  next writer reuses the id, builds on the older version and recycles pages of
  the newest meta page. The `pwrite` path takes care of this by writing old
  data back (mdb.c:8341-8346).
* `EnvPrevCommit`. The first commit with `MDB_PREVSNAPSHOT` calls
  `mdb_env_share_locks` (mdb.c:8055) before it clears the flag (mdb.c:8059),
  so `mti_txnid` is set to the other meta page's id and the second commit
  overwrites the first one.
* `EnvOpenDies`. A process that waits in `F_SETLKW` (mdb.c:9326) gets its
  share when the first opener fails or dies with the region initialised and
  `mti_txnid` 0; it runs on with 0, and its first commit takes id 1 whatever
  the meta pages say.

The following were met while `BTree` and `TxnPages` were written. They have no
run of their own: 1 and 4 concern state or an answer that the models leave open, 2 and
5 are named exceptions of a passing property, 3 is avoided by the keys of the
instance.

1. The rank cache of a cursor. `mdb_cursor_get_rank` (mdb.c:19139-19218)
   answers from `mc_rank*` when the same rank is asked again (mdb.c:19163)
   without a test that the tree is unchanged, so after a put or delete through
   another cursor it returns the position of before. dlmdb.h:1317-1321 says
   that ranks are those of the current tree.
2. Counts after a move that splits. When the separator that
   `mdb_node_move` writes does not fit its parent, `mdb_update_key` splits the
   parent (mdb.c:15861-15892) and the counts are adjusted on the page and
   index of before the split: counts of a `MDB_COUNTED` tree, and every rank
   after it, are off. `CountsExact` and `RanksAreOrdinals` hold otherwise
   (`~keySplit`); without the exception simulation finds a violation.
3. A trunk look-alike. `mdb_leaf_rebuild_after_trunk_insert`
   (mdb.c:4192-4195) takes a node whose stored bytes equal those of the old
   trunk for the trunk itself. The stored bytes are a length and a suffix, so
   with keys `"\0abc"` and `"abc"` a put of `"\0aaa"` loses `"abc"`.
4. A stale `C_EOF`. `MDB_LAST` sets `C_EOF`; a `MDB_APPEND` through another
   cursor or `mdb_put` that opens a new page leaves it set, and `MDB_NEXT`
   (mdb.c:11229) answers `MDB_NOTFOUND` although there is a next key. In
   `OrderedMap` a cursor in `ended` may give either answer.
5. `P_KEEP` after a failed spill. `mdb_page_spill` of a nested transaction
   marks the parent's pages (mdb.c:6203); if its write fails they stay marked
   when the child aborts, and the parent's flush passes them over
   (mdb.c:7625). `CommitWritesAll` holds unless this happened (`leak`).

Two smaller ones: `mdb_page_split` of a page with one node (possible only when
the trunk's new encoding does not fit) reads `mp_ptrs[2]` that was never
written (mdb.c:17205-17232), without effect on the result; and a put through a
cursor that is refused with `MDB_NOOVERWRITE` leaves `C_DEL` set.

`NoCommitLost` and `FreshRead` are checked for all behaviours that are
`clean`: nobody opened the previous snapshot, and no first opener gave up with
another process waiting. Without that, `CommitsKept` fails as above; it also
fails when a read-only process opens the previous snapshot beside a writer,
because `mdb_env_open2` stores the older id in the shared `mti_txnid`
(mdb.c:9021-9022) whatever the mode.

## 7. What is not modelled

* Weak memory: a reader's store to its slot may be delayed past its second
  look at `mti_txnid`; the code has no fence there.
* In `Mvcc`: runs of several pages, spilling and nested transactions, which
  are in `TxnPages`, and the inside of `mdb_freelist_save`, which is in
  `FreelistSave`; in `Mvcc` its outcome is one step, with the remaining pages
  spread over old keys in any way. A `pwrite` that fails when the old meta
  page is written back (mdb.c:8352).
* In `EnvOpen`: `MDB_NOLOCK`, `MDB_INMEMORY`, resizing of the map, failures of
  single system calls as such (`OpenFail` stands for all of them).
* In `ReaderTable`: `MDB_NOTLS`, use of an environment after fork.
* In `EnvCopy`: the tree walk itself, the plain copy, prepared copies.
* In `TxnPages`, `FreelistSave`: readers (the oldest is always recent enough;
  `Mvcc` has them), `MDB_WRITEMAP`, trees of more than two levels, a freeDB of
  more than one leaf, runs of more than two pages by the user, handles opened
  in a nested transaction.
* In `BTree`: the page lists beneath (`TxnPages` has them), overflow values,
  errors of allocation, nested transactions and their shadow cursors,
  `MDB_CURRENT`, `MDB_MULTIPLE`, `mdb_drop`, `MDB_REVERSEKEY` and user
  comparators. The rank, position and decode caches are read as if they were
  never used; where that hides something, section 6 says so.
* Not modelled: sorted duplicates with the list calls and projection, LEAF2
  pages, database handles, prepared copies. They are a second copy of
  the tree code one level down, or bookkeeping that a unit test reaches.
* Not planned: Windows and SysV variants, `MDB_VL32`, the command line tools.
  Tests and benchmarks (more than a third of the repository's lines) have no
  behaviour of their own to model.

## 8. Running it

    tlc -config MvccIsolation.cfg MCMvcc.tla
    tlapm MvccProofs.tla

`MC<module>.tla` instantiates a module for TLC; `PROJECT.json` says which
configuration goes with which module and maps each definition to its lines.
