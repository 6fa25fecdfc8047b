------------------------------- MODULE EnvOpen -------------------------------
(***************************************************************************)
(* Opening and closing one environment by several processes: the fcntl     *)
(* lock on the lock file, the first opener's initialisation of the lock    *)
(* region, the modes MDB_RDONLY and MDB_PREVSNAPSHOT, and what they do to  *)
(* mti_txnid, from which every transaction starts.                         *)
(*                                                                         *)
(* A database version is abstracted to the set of commits it contains.     *)
(***************************************************************************)
EXTENDS Integers, FiniteSets

CONSTANTS
  Procs,
  Modes,       \* how processes open: a subset of AllModes
  OpenErrors,  \* mdb_env_open may fail, or its process die, half way
  MaxCommits,  \* bound: commits
  Unlocked, OwnerDead   \* the writer mutex, not held or its holder died

AllModes == {"rw", "ro", "rwprev", "roprev"}
ReadOnly == {"ro", "roprev"}
Prev == {"rwprev", "roprev"}

Metas == {0, 1}
Slot(t) == t % 2
Commits == 1..MaxCommits
Version == [mm_txnid : 0..MaxCommits, hist : SUBSET Commits]
Empty == [mm_txnid |-> 0, hist |-> {}]
NoHeader == [mm_txnid |-> -1, hist |-> {}]   \* ENOENT: the data file is empty
NoView == {0}                                \* no read transaction

ASSUME ConstantsAssumption ==
  /\ Modes \subseteq AllModes /\ OpenErrors \in BOOLEAN /\ MaxCommits \in Nat
  /\ Unlocked \notin Procs /\ OwnerDead \notin Procs /\ Unlocked # OwnerDead

VARIABLES
  file,     \* the data file: "none", "empty" or "metas"
  meta,     \* its two meta pages
  lock,     \* the fcntl lock each process has on the lock file
  magic, mti, wmutex,   \* the lock region
  pc,       \* where each process is
  mode,     \* the flags it opens with
  prev,     \* its me_flags has MDB_PREVSNAPSHOT
  hdr,      \* the meta page mdb_env_read_header gave it
  txn,      \* its write transaction: the version it will commit
  view,     \* its read transaction
  acked,    \* observation: commits that returned and may not be lost
  commits,  \* observation: commits so far
  clean     \* observation: nobody opened the previous snapshot, and no first
            \* opener gave up half way while another process waited

fileVars   == <<file, meta>>
regionVars == <<magic, mti, wmutex>>
procVars   == <<pc, mode, prev, hdr>>
txnVars    == <<txn, view, acked, commits>>
vars == <<fileVars, lock, regionVars, procVars, txnVars, clean>>

Init ==
  /\ file = "none" /\ meta = [s \in Metas |-> Empty]
  /\ lock = [p \in Procs |-> "none"]
  /\ magic = FALSE /\ mti = 0 /\ wmutex = Unlocked
  /\ pc = [p \in Procs |-> "closed"]
  /\ mode = [p \in Procs |-> "rw"]
  /\ prev = [p \in Procs |-> FALSE]
  /\ hdr = [p \in Procs |-> NoHeader]
  /\ txn = [p \in Procs |-> Empty]
  /\ view = [p \in Procs |-> NoView]
  /\ acked = {} /\ commits = 0 /\ clean = TRUE

Step(p, from, to) ==
  /\ pc[p] = from
  /\ pc' = [pc EXCEPT ![p] = to]

\* mdb_env_pick_meta.
PickMeta(p) ==
  IF (meta[0].mm_txnid < meta[1].mm_txnid) # prev[p] THEN meta[1] ELSE meta[0]

Newest == IF meta[0].mm_txnid < meta[1].mm_txnid THEN meta[1] ELSE meta[0]
Oldest == IF meta[1].mm_txnid < meta[0].mm_txnid THEN meta[1] ELSE meta[0]

Excl(p) == lock[p] = "excl"

-----------------------------------------------------------------------------
(***************************************************************************)
(* mdb_env_open.                                                           *)
(***************************************************************************)

\* Faulty: the exclusive lock does not respect shared ones.
ExclLockGreedy(p) ==
  \E md \in Modes :
    /\ md \in ReadOnly => file # "none"
    /\ mode' = [mode EXCEPT ![p] = md]
    /\ prev' = [prev EXCEPT ![p] = md \in Prev]
    /\ IF \A o \in Procs : lock[o] # "excl"
       THEN Step(p, "closed", "locked") /\ lock' = [lock EXCEPT ![p] = "excl"]
       ELSE Step(p, "closed", "wait") /\ UNCHANGED lock
    /\ UNCHANGED <<fileVars, regionVars, hdr, txnVars, clean>>

\* mdb_env_excl_lock: F_SETLK for the whole lock, or wait for a share of it.
\* A read-only environment opens the data file before.
ExclLock(p) ==
  \E md \in Modes :
    /\ md \in ReadOnly => file # "none"
    /\ mode' = [mode EXCEPT ![p] = md]
    /\ prev' = [prev EXCEPT ![p] = md \in Prev]
    /\ IF \A o \in Procs : lock[o] = "none"
       THEN Step(p, "closed", "locked") /\ lock' = [lock EXCEPT ![p] = "excl"]
       ELSE Step(p, "closed", "wait") /\ UNCHANGED lock
    /\ UNCHANGED <<fileVars, regionVars, hdr, txnVars, clean>>

\* F_SETLKW: the share, as soon as nobody has the whole lock.
ShareGranted(p) ==
  /\ Step(p, "wait", "shared")
  /\ \A o \in Procs : ~Excl(o)
  /\ lock' = [lock EXCEPT ![p] = "shared"]
  /\ UNCHANGED <<fileVars, regionVars, mode, prev, hdr, txnVars, clean>>

\* mdb_env_close0, also of an environment that is only half open.
Leave(p) ==
  /\ pc' = [pc EXCEPT ![p] = "closed"]
  /\ lock' = [lock EXCEPT ![p] = "none"]
  /\ mode' = [mode EXCEPT ![p] = "rw"]
  /\ prev' = [prev EXCEPT ![p] = FALSE]
  /\ hdr' = [hdr EXCEPT ![p] = NoHeader]
  /\ txn' = [txn EXCEPT ![p] = Empty]
  /\ view' = [view EXCEPT ![p] = NoView]
  /\ UNCHANGED <<fileVars, magic, mti, acked, commits>>

\* ... of the process that holds the whole lock and is to initialise the
\* region, while another one waits.
GivesUp(p) ==
  /\ Excl(p) /\ pc[p] \in {"locked", "region", "header", "mapped"}
  /\ \E o \in Procs : pc[o] = "wait"

\* mdb_env_setup_locks with a share: the region must be there; a writer of
\* the previous snapshot wants the whole lock (EAGAIN).
RegionUsable(p) == magic /\ mode[p] # "rwprev"

CheckRegion(p) ==
  /\ RegionUsable(p)
  /\ Step(p, "shared", "region")
  /\ UNCHANGED <<fileVars, lock, regionVars, mode, prev, hdr, txnVars, clean>>

RefuseRegion(p) ==
  /\ pc[p] = "shared" /\ ~RegionUsable(p)
  /\ Leave(p) /\ UNCHANGED <<wmutex, clean>>

\* mdb_env_setup_locks with the whole lock: a new region.
InitRegion(p) ==
  /\ Step(p, "locked", "region")
  /\ magic' = TRUE /\ mti' = 0 /\ wmutex' = Unlocked
  /\ UNCHANGED <<fileVars, lock, mode, prev, hdr, txnVars, clean>>

\* mdb_fopen of the data file and mdb_env_read_header.
ReadHeader(p) ==
  /\ Step(p, "region", "header")
  /\ file' = IF file = "none" THEN "empty" ELSE file
  /\ hdr' = [hdr EXCEPT ![p] =
               IF file # "metas" THEN NoHeader
               ELSE IF prev[p] THEN Oldest ELSE Newest]
  /\ UNCHANGED <<meta, lock, regionVars, mode, prev, txnVars, clean>>

\* The rest of mdb_env_open2: mdb_env_init_meta of a new file, which a
\* read-only environment cannot do; mti_txnid of the previous snapshot.
OpenEnv2(p) ==
  /\ Step(p, "header", "mapped")
  /\ hdr[p] = NoHeader => mode[p] \notin ReadOnly
  /\ IF hdr[p] = NoHeader
     THEN file' = "metas" /\ meta' = [s \in Metas |-> Empty]
     ELSE UNCHANGED fileVars
  /\ mti' = IF ~prev[p] THEN mti
            ELSE IF hdr[p] = NoHeader THEN 0 ELSE hdr[p].mm_txnid
  /\ hdr' = [hdr EXCEPT ![p] = NoHeader]   \* a local variable
  /\ clean' = (clean /\ ~prev[p])
  /\ UNCHANGED <<lock, magic, wmutex, mode, prev, txnVars>>

InitMetaFail(p) ==
  /\ pc[p] = "header" /\ hdr[p] = NoHeader /\ mode[p] \in ReadOnly
  /\ clean' = (clean /\ ~GivesUp(p))
  /\ Leave(p) /\ UNCHANGED wmutex

\* mdb_env_share_locks.
ShareLocks(p) ==
  /\ mti' = PickMeta(p).mm_txnid
  /\ lock' = [lock EXCEPT ![p] = "shared"]

\* Faulty: the lock is downgraded without a look at the meta pages.
OpenEndBlind(p) ==
  /\ Step(p, "mapped", "open")
  /\ lock' = [lock EXCEPT ![p] = IF prev[p] THEN lock[p] ELSE "shared"]
  /\ UNCHANGED <<mti, fileVars, magic, wmutex, mode, prev, hdr, txnVars, clean>>

\* The end of mdb_env_open.
OpenEnd(p) ==
  /\ Step(p, "mapped", "open")
  /\ IF Excl(p) /\ ~prev[p] THEN ShareLocks(p) ELSE UNCHANGED <<mti, lock, clean>>
  /\ UNCHANGED <<fileVars, magic, wmutex, mode, prev, hdr, txnVars, clean>>

Opening == {"locked", "wait", "shared", "region", "header", "mapped"}
Writing == {"write", "meta", "published"}
Running == {"open"} \cup Writing

\* Any other error of mdb_env_open, or its process dies.
OpenFail(p) ==
  /\ OpenErrors /\ pc[p] \in Opening
  /\ clean' = (clean /\ ~GivesUp(p))
  /\ Leave(p) /\ UNCHANGED wmutex

-----------------------------------------------------------------------------
(***************************************************************************)
(* An open environment.                                                    *)
(***************************************************************************)

\* The meta page mdb_txn_renew0 takes for a reader.
ReaderMeta(p) ==
  IF mti = 0 /\ mode[p] \in ReadOnly THEN PickMeta(p) ELSE meta[Slot(mti)]

ReadBegin(p) ==
  /\ pc[p] \in Running /\ view[p] = NoView
  /\ view' = [view EXCEPT ![p] = ReaderMeta(p).hist]
  /\ UNCHANGED <<fileVars, lock, regionVars, procVars, txn, acked, commits, clean>>

ReadEnd(p) ==
  /\ pc[p] \in Running /\ view[p] # NoView
  /\ view' = [view EXCEPT ![p] = NoView]
  /\ UNCHANGED <<fileVars, lock, regionVars, procVars, txn, acked, commits, clean>>

\* mdb_txn_renew0 of a writer with mti_txnid = t.
StartTxn(p, t) ==
  /\ mode[p] \notin ReadOnly /\ commits < MaxCommits
  /\ Step(p, "open", "write")
  /\ wmutex' = p
  /\ txn' = [txn EXCEPT ![p] = [mm_txnid |-> t + 1, hist |-> meta[Slot(t)].hist]]
  /\ UNCHANGED <<fileVars, lock, magic, mode, prev, hdr, view, acked, commits, clean>>

WriterBegin(p) ==
  /\ wmutex = Unlocked
  /\ StartTxn(p, mti) /\ UNCHANGED mti

\* Faulty: mdb_mutex_failed does not look at the meta pages.
WriterRecoverBlind(p) ==
  /\ wmutex = OwnerDead
  /\ StartTxn(p, mti) /\ UNCHANGED mti

\* mdb_mutex_failed first.
WriterRecover(p) ==
  /\ wmutex = OwnerDead
  /\ mti' = PickMeta(p).mm_txnid
  /\ StartTxn(p, PickMeta(p).mm_txnid)

Abort(p) ==
  /\ Step(p, "write", "open")
  /\ wmutex' = Unlocked /\ txn' = [txn EXCEPT ![p] = Empty]
  /\ UNCHANGED <<fileVars, lock, magic, mti, mode, prev, hdr, view, acked, commits, clean>>

\* mdb_env_write_meta.  A writer of the previous snapshot gives up, as it is
\* meant to, the commits it does not build on.
WriteMeta(p) ==
  /\ Step(p, "write", "meta")
  /\ commits' = commits + 1
  /\ LET v == [txn[p] EXCEPT !.hist = @ \cup {commits + 1}] IN
       /\ txn' = [txn EXCEPT ![p] = v]
       /\ meta' = [meta EXCEPT ![Slot(v.mm_txnid)] = v]
       /\ acked' = IF prev[p] THEN acked \cap v.hist ELSE acked
  /\ UNCHANGED <<file, lock, regionVars, mode, prev, hdr, view, clean>>

Publish(p) ==
  /\ Step(p, "meta", "published")
  /\ mti' = txn[p].mm_txnid
  /\ UNCHANGED <<fileVars, lock, magic, wmutex, mode, prev, hdr, txnVars, clean>>

\* _mdb_txn_commit: the environment goes on as an ordinary one.
LeavePrev(p) ==
  /\ pc[p] = "published" /\ prev[p]
  /\ ShareLocks(p)
  /\ prev' = [prev EXCEPT ![p] = FALSE]
  /\ UNCHANGED <<fileVars, magic, wmutex, pc, mode, hdr, txnVars, clean>>

CommitReturn(p) ==
  /\ Step(p, "published", "open") /\ ~prev[p]
  /\ wmutex' = Unlocked
  /\ acked' = acked \cup txn[p].hist
  /\ txn' = [txn EXCEPT ![p] = Empty]
  /\ UNCHANGED <<fileVars, lock, magic, mti, mode, prev, hdr, view, commits, clean>>

\* mdb_env_close.
Close(p) ==
  /\ pc[p] = "open" /\ view[p] = NoView
  /\ Leave(p) /\ UNCHANGED <<wmutex, clean>>

\* The process dies; the kernel drops its lock, the mutex is robust.
Crash(p) ==
  /\ pc[p] \in Running
  /\ Leave(p)
  /\ wmutex' = IF wmutex = p THEN OwnerDead ELSE wmutex
  /\ UNCHANGED clean

-----------------------------------------------------------------------------
OpenStep(p) ==
  \/ ExclLock(p) \/ ShareGranted(p) \/ CheckRegion(p) \/ RefuseRegion(p)
  \/ InitRegion(p) \/ ReadHeader(p) \/ OpenEnv2(p) \/ InitMetaFail(p)
  \/ OpenEnd(p) \/ OpenFail(p)

RunStep(p) ==
  \/ ReadBegin(p) \/ ReadEnd(p)
  \/ WriterBegin(p) \/ WriterRecover(p) \/ Abort(p) \/ WriteMeta(p)
  \/ Publish(p) \/ LeavePrev(p) \/ CommitReturn(p) \/ Close(p) \/ Crash(p)

Next == \E p \in Procs : OpenStep(p) \/ RunStep(p)

Spec == Init /\ [][Next]_vars

-----------------------------------------------------------------------------
TypeOK ==
  /\ file \in {"none", "empty", "metas"} /\ meta \in [Metas -> Version]
  /\ lock \in [Procs -> {"none", "shared", "excl"}]
  /\ magic \in BOOLEAN /\ mti \in 0..MaxCommits
  /\ wmutex \in Procs \cup {Unlocked, OwnerDead}
  /\ pc \in [Procs -> {"closed"} \cup Opening \cup Running]
  /\ mode \in [Procs -> AllModes] /\ prev \in [Procs -> BOOLEAN]
  /\ hdr \in [Procs -> Version \cup {NoHeader}]
  /\ txn \in [Procs -> Version]
  /\ view \in [Procs -> (SUBSET Commits) \cup {NoView}]
  /\ acked \in SUBSET Commits /\ commits \in 0..MaxCommits /\ clean \in BOOLEAN

\* Whoever is in a write transaction holds the writer mutex: no opener
\* initialises the region under it, whatever fails or dies and in whichever
\* mode (mdb_env_excl_lock: "nobody is using the lock region").
WriterKeepsMutex ==
  \A p \in Procs : pc[p] \in Writing => wmutex = p

\* A commit that returned is in every later newest version.  Only a commit of
\* an environment opened with MDB_PREVSNAPSHOT and write access gives up
\* commits, those it does not build on (dlmdb.h: "This loses the latest
\* transaction", "If opened with write access, this must be the only process").
CommitsKept == file = "metas" => acked \subseteq Newest.hist

\* Whatever order processes open, close, fail and die in, no commit is lost as
\* long as nobody opens the previous snapshot and no first opener gives up
\* between mdb_env_excl_lock and mdb_env_share_locks with another one waiting.
NoCommitLost == clean => CommitsKept

\* Under the same conditions a read transaction sees every commit that
\* returned before it began, in a read-only environment, too, that was the
\* first to open.
FreshRead ==
  [][\A p \in Procs : clean /\ view[p] = NoView /\ view'[p] # NoView =>
       acked \subseteq view'[p]]_vars
-----------------------------------------------------------------------------
(* The inductive invariant: why no commit is lost                          *)

\* Who has which lock, and what the whole lock excludes.
LockInv ==
  \A p \in Procs :
    /\ lock[p] = "none" <=> pc[p] \in {"closed", "wait"}
    /\ pc[p] = "locked" => Excl(p)
    /\ pc[p] = "shared" => ~Excl(p)
    /\ Excl(p) => \A o \in Procs \ {p} : lock[o] = "none"

MutexInv == wmutex \in Procs => pc[wmutex] \in Writing

\* Transaction ids are not ahead of the commits.
IdInv ==
  /\ mti <= commits
  /\ \A s \in Metas : meta[s].mm_txnid <= commits
  /\ \A p \in Procs :
       /\ hdr[p].mm_txnid <= commits
       /\ pc[p] = "write" => commits < MaxCommits /\ txn[p].mm_txnid <= commits + 1
       /\ pc[p] # "write" => txn[p].mm_txnid <= commits

\* A process in the last part of mdb_env_open, or with the environment open.
Mapped(p) == pc[p] \in {"mapped"} \cup Running

\* The data file is complete before a second process comes in.
FileInv ==
  \A p \in Procs :
    /\ Mapped(p) => ~prev[p] /\ file = "metas"
    /\ Excl(p) => pc[p] \in {"locked", "region", "header", "mapped"}
    /\ lock[p] = "shared" => file = "metas"
    /\ pc[p] = "header" => (hdr[p] = NoHeader <=> file # "metas")

\* The newest meta page holds n, the other one the version before.
ChainAt(n) ==
  LET new == meta[Slot(n)]
      old == meta[1 - Slot(n)]
  IN  /\ new.mm_txnid = n /\ old.hist \subseteq new.hist
      /\ old.mm_txnid = IF n = 0 THEN 0 ELSE n - 1

ChainInv == file = "metas" => ChainAt(Newest.mm_txnid)

\* The region is in use: somebody has a share of the lock or is to get it.
InUse ==
  /\ \A p \in Procs : ~Excl(p)
  /\ \E p \in Procs : pc[p] # "closed"

\* A commit is between its two stores, or its process died there.
InDoubt == wmutex = OwnerDead \/ \E p \in Procs : pc[p] = "meta"

\* mti_txnid follows the meta pages; a reader it sends to a meta page finds
\* there every commit that returned.
MtiInv ==
  InUse =>
    /\ file = "metas"
    /\ mti = Newest.mm_txnid \/ (InDoubt /\ mti = Newest.mm_txnid - 1)
    /\ acked \subseteq meta[Slot(mti)].hist

WriterInv ==
  \A p \in Procs :
    /\ pc[p] = "write" =>
         mti = Newest.mm_txnid /\ txn[p] = [mm_txnid |-> mti + 1, hist |-> Newest.hist]
    /\ pc[p] = "meta" => txn[p] = Newest /\ mti = Newest.mm_txnid - 1
    /\ pc[p] = "published" => txn[p] = Newest /\ mti = Newest.mm_txnid

AckedInv == IF file = "metas" THEN acked \subseteq Newest.hist ELSE acked = {}

(***************************************************************************)
(* As long as the history is clean the lock file keeps mti_txnid, the meta *)
(* pages and the commits that returned together.                           *)
(***************************************************************************)
CleanInv == FileInv /\ ChainInv /\ MtiInv /\ WriterInv /\ AckedInv

IInv ==
  /\ TypeOK /\ LockInv /\ MutexInv /\ WriterKeepsMutex /\ IdInv
  /\ clean => CleanInv
=============================================================================
