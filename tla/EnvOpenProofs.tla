--------------------------- MODULE EnvOpenProofs ----------------------------
(***************************************************************************)
(* The inductive invariant of EnvOpen (IInv) holds of every behaviour, for *)
(* any number of processes and commits and any set of modes, and the       *)
(* safety properties of EnvOpen follow from it. One lemma for each step of *)
(* the protocol; it starts with the effect of the step (step) and then     *)
(* goes through the conjuncts of the invariant. The steps at which a       *)
(* process gives up, closes or dies differ only in the guard and are done  *)
(* by one lemma (GoesDownInv).                                             *)
(***************************************************************************)
EXTENDS EnvOpen, TLAPS

\* Consecutive transaction ids name different meta pages.
LEMMA SlotFact ==
  ASSUME NEW n \in Nat
  PROVE  /\ Slot(n) \in Metas /\ 1 - Slot(n) \in Metas
         /\ Slot(n + 1) = 1 - Slot(n) /\ Slot(n + 1) # Slot(n)
         /\ 1 - Slot(n + 1) = Slot(n)
BY DEF Slot, Metas

\* mdb_env_pick_meta returns one of the two meta pages, the newest unless
\* MDB_PREVSNAPSHOT asks for the other.
LEMMA NewestType ==
  ASSUME TypeOK
  PROVE  /\ Newest \in Version /\ Newest \in {meta[0], meta[1]}
         /\ Newest.mm_txnid \in 0..MaxCommits /\ Newest.hist \in SUBSET Commits
         /\ \A o \in Procs : PickMeta(o) \in Version
                 /\ (~prev[o] => PickMeta(o) = Newest)
                 /\ PickMeta(o) \in {meta[0], meta[1]}
BY DEF TypeOK, Newest, PickMeta, Version, Metas

\* The meta page with the higher id is the newest, wherever the older one is in the
\* sequence.
LEMMA NewestOf ==
  ASSUME NEW m \in [Metas -> Version], NEW n
          \in Nat, m[Slot(n)].mm_txnid = n, m[1 - Slot(n)].mm_txnid = IF n = 0
          THEN 0 ELSE n - 1
  PROVE  (IF m[0].mm_txnid < m[1].mm_txnid THEN m[1] ELSE m[0]) = m[Slot(n)]
<1>1. CASE n = 0
  BY DEF Slot
<1>2. CASE n # 0
  <2>1. Slot(n) \in {0, 1}
    BY DEF Slot
  <2> QED BY <1>2, <2>1
<1> QED BY <1>1, <1>2

\* The newest version is in the meta page that its own id names.
LEMMA NewestAt ==
  ASSUME TypeOK, file = "metas", ChainInv
  PROVE  /\ Newest = meta[Slot(Newest.mm_txnid)] /\ Newest.mm_txnid \in Nat
         /\ ChainAt(Newest.mm_txnid)
<1>1. Newest.mm_txnid \in Nat
  BY NewestType
<1> QED BY <1>1, NewestOf DEF TypeOK, ChainInv, ChainAt, Newest

\* Overwriting one meta page leaves the other alone.
LEMMA HistUpdate ==
  ASSUME NEW t \in Version, NEW S
  PROVE  [t EXCEPT !.hist = @ \cup S] = [mm_txnid |-> t.mm_txnid,
          hist |-> t.hist \cup S]
BY DEF Version

\* The version of a new data file, and what stands for a file without header.
LEMMA EmptyFact == Empty \in Version /\ Empty.mm_txnid = 0 /\ Empty.hist = {}
        /\ NoHeader.mm_txnid = -1 /\ NoHeader \notin Version
BY ConstantsAssumption DEF Empty, NoHeader, Version

\* mdb_env_excl_lock takes the whole lock when nobody has a share of it, and
\* otherwise waits for one.
LEMMA ExclLockInv == ASSUME IInv, NEW p \in Procs, ExclLock(p) PROVE IInv'
<1> USE ConstantsAssumption DEF IInv
<1>m. PICK md \in Modes :
      /\ pc[p] = "closed" /\ mode' = [mode EXCEPT ![p] = md]
      /\ prev' = [prev EXCEPT ![p] = md \in Prev]
      /\ IF \A o \in Procs : lock[o] = "none"
         THEN pc' = [pc EXCEPT ![p] = "locked"] /\ lock' = [lock EXCEPT ![p] = "excl"]
         ELSE pc' = [pc EXCEPT ![p] = "wait"] /\ UNCHANGED lock
      /\ UNCHANGED <<fileVars, regionVars, hdr, txnVars, clean>>
  BY DEF ExclLock, Step
<1>1. CASE \A o \in Procs : lock[o] = "none"
  <2>t. md \in AllModes /\ (md \in Prev) \in BOOLEAN
    OBVIOUS
  <2>step.
        /\ pc[p] = "closed"
        /\ \A o \in Procs : lock[o] = "none"
        /\ file' = file /\ meta' = meta
        /\ lock' = [lock EXCEPT ![p] = "excl"]
        /\ magic' = magic /\ mti' = mti /\ wmutex' = wmutex
        /\ pc' = [pc EXCEPT ![p] = "locked"]
        /\ mode' = [mode EXCEPT ![p] = md]
        /\ prev' = [prev EXCEPT ![p] = md \in Prev]
        /\ hdr' = hdr /\ txn' = txn /\ view' = view /\ acked' = acked
        /\ commits' = commits
        /\ clean' = clean
    BY <1>m, <1>1 DEF fileVars, regionVars, txnVars
  <2>a. \A o \in Procs :
        /\ pc'[o] = IF o = p THEN "locked" ELSE pc[o]
        /\ lock'[o] = IF o = p THEN "excl" ELSE lock[o]
    BY <2>step DEF TypeOK
  <2>b. \A o \in Procs :
        /\ mode'[o] = IF o = p THEN md ELSE mode[o]
        /\ prev'[o] = IF o = p THEN md \in Prev ELSE prev[o]
    BY <2>step DEF TypeOK
  <2>n.
        /\ Newest' = Newest /\ Newest \in Version
        /\ Newest.mm_txnid \in 0..MaxCommits /\ Newest.hist \in SUBSET Commits
    BY <2>step, NewestType DEF Newest
  <2>1. TypeOK'
    BY <2>step DEF TypeOK, Opening
  <2>2. LockInv'
    BY <2>step, <2>a DEF LockInv, Excl
  <2>3. MutexInv'
    BY <2>step DEF MutexInv, Writing
  <2>4. WriterKeepsMutex'
    BY <2>step DEF WriterKeepsMutex, Writing
  <2>5. IdInv'
    BY <2>step DEF IdInv
  <2>6. ASSUME clean' PROVE CleanInv'
    <3>c. clean /\ FileInv /\ ChainInv /\ MtiInv /\ WriterInv /\ AckedInv
      BY <2>6, <2>step DEF CleanInv
    <3>1. FileInv'
      BY <3>c, <2>step, <2>a DEF FileInv, Mapped, Running, Writing, Excl
    <3>2. ChainInv'
      BY <3>c, <2>step, <2>n DEF ChainInv, ChainAt
    <3>3. MtiInv'
      BY <2>a DEF MtiInv, InUse, Excl
    <3>4. WriterInv'
      BY <3>c, <2>step, <2>n DEF WriterInv
    <3>5. AckedInv'
      BY <3>c, <2>step, <2>n DEF AckedInv
    <3> QED BY <3>1, <3>2, <3>3, <3>4, <3>5 DEF CleanInv
  <2> QED BY <2>1, <2>2, <2>3, <2>4, <2>5, <2>6
<1>2. CASE ~\A o \in Procs : lock[o] = "none"
  <2>t. md \in AllModes /\ (md \in Prev) \in BOOLEAN
    OBVIOUS
  <2>step.
        /\ pc[p] = "closed"
        /\ ~\A o \in Procs : lock[o] = "none"
        /\ file' = file /\ meta' = meta /\ lock' = lock /\ magic' = magic
        /\ mti' = mti
        /\ wmutex' = wmutex
        /\ pc' = [pc EXCEPT ![p] = "wait"]
        /\ mode' = [mode EXCEPT ![p] = md]
        /\ prev' = [prev EXCEPT ![p] = md \in Prev]
        /\ hdr' = hdr /\ txn' = txn /\ view' = view /\ acked' = acked
        /\ commits' = commits
        /\ clean' = clean
    BY <1>m, <1>2 DEF fileVars, regionVars, txnVars
  <2>a. \A o \in Procs :
        /\ pc'[o] = IF o = p THEN "wait" ELSE pc[o]
    BY <2>step DEF TypeOK
  <2>b. \A o \in Procs :
        /\ mode'[o] = IF o = p THEN md ELSE mode[o]
        /\ prev'[o] = IF o = p THEN md \in Prev ELSE prev[o]
    BY <2>step DEF TypeOK
  <2>n.
        /\ Newest' = Newest /\ Newest \in Version
        /\ Newest.mm_txnid \in 0..MaxCommits /\ Newest.hist \in SUBSET Commits
    BY <2>step, NewestType DEF Newest
  <2>1. TypeOK'
    BY <2>step DEF TypeOK, Opening
  <2>2. LockInv'
    BY <2>step DEF LockInv, Excl
  <2>3. MutexInv'
    BY <2>step DEF MutexInv, Writing
  <2>4. WriterKeepsMutex'
    BY <2>step DEF WriterKeepsMutex, Writing
  <2>5. IdInv'
    BY <2>step DEF IdInv
  <2>6. ASSUME clean' PROVE CleanInv'
    <3>c. clean /\ FileInv /\ ChainInv /\ MtiInv /\ WriterInv /\ AckedInv
      BY <2>6, <2>step DEF CleanInv
    <3>1. FileInv'
      BY <3>c, <2>step DEF FileInv, Mapped, Running, Writing, Excl
    <3>2. ChainInv'
      BY <3>c, <2>step, <2>n DEF ChainInv, ChainAt
    <3>3. MtiInv'
      BY <3>c, <2>step, <2>n DEF MtiInv, InUse, InDoubt, Excl, LockInv
    <3>4. WriterInv'
      BY <3>c, <2>step, <2>n DEF WriterInv
    <3>5. AckedInv'
      BY <3>c, <2>step, <2>n DEF AckedInv
    <3> QED BY <3>1, <3>2, <3>3, <3>4, <3>5 DEF CleanInv
  <2> QED BY <2>1, <2>2, <2>3, <2>4, <2>5, <2>6
<1> QED BY <1>1, <1>2

\* The wait of mdb_env_excl_lock ends: whoever had the whole lock has downgraded it
\* or gone.
LEMMA ShareGrantedInv == ASSUME IInv, NEW p \in Procs, ShareGranted(p) PROVE IInv'
<1> USE ConstantsAssumption DEF IInv
<1>step.
      /\ pc[p] = "wait" /\ \A o \in Procs : lock[o] # "excl"
      /\ file' = file /\ meta' = meta
      /\ lock' = [lock EXCEPT ![p] = "shared"]
      /\ magic' = magic /\ mti' = mti /\ wmutex' = wmutex
      /\ pc' = [pc EXCEPT ![p] = "shared"]
      /\ mode' = mode /\ prev' = prev /\ hdr' = hdr /\ txn' = txn /\ view' = view
      /\ acked' = acked /\ commits' = commits /\ clean' = clean
  BY DEF ShareGranted, Step, Excl, fileVars, regionVars, txnVars
<1>a. \A o \in Procs :
      /\ pc'[o] = IF o = p THEN "shared" ELSE pc[o]
      /\ lock'[o] = IF o = p THEN "shared" ELSE lock[o]
  BY <1>step DEF TypeOK
<1>n.
      /\ Newest' = Newest /\ Newest \in Version /\ Newest.mm_txnid \in 0..MaxCommits
      /\ Newest.hist \in SUBSET Commits
  BY <1>step, NewestType DEF Newest
<1>1. TypeOK'
  BY <1>step DEF TypeOK, Opening
<1>2. LockInv'
  BY <1>step, <1>a DEF LockInv, Excl
<1>3. MutexInv'
  BY <1>step DEF MutexInv, Writing
<1>4. WriterKeepsMutex'
  BY <1>step DEF WriterKeepsMutex, Writing
<1>5. IdInv'
  BY <1>step DEF IdInv
<1>6. ASSUME clean' PROVE CleanInv'
  <2>c. clean /\ FileInv /\ ChainInv /\ MtiInv /\ WriterInv /\ AckedInv
    BY <1>6, <1>step DEF CleanInv
  <2>f. file = "metas"
    BY <2>c, <1>step DEF MtiInv, InUse, Excl
  <2>1. FileInv'
    BY <2>c, <2>f, <1>step DEF FileInv, Mapped, Running, Writing, Excl
  <2>2. ChainInv'
    BY <2>c, <1>step, <1>n DEF ChainInv, ChainAt
  <2>3. MtiInv'
    BY <2>c, <1>step, <1>n DEF MtiInv, InUse, InDoubt, Excl
  <2>4. WriterInv'
    BY <2>c, <1>step, <1>n DEF WriterInv
  <2>5. AckedInv'
    BY <2>c, <1>step, <1>n DEF AckedInv
  <2> QED BY <2>1, <2>2, <2>3, <2>4, <2>5 DEF CleanInv
<1> QED BY <1>1, <1>2, <1>3, <1>4, <1>5, <1>6

\* A process with a share of the lock finds an initialised lock region.
LEMMA CheckRegionInv == ASSUME IInv, NEW p \in Procs, CheckRegion(p) PROVE IInv'
<1> USE ConstantsAssumption DEF IInv
<1>step.
      /\ pc[p] = "shared"
      /\ file' = file /\ meta' = meta /\ lock' = lock /\ magic' = magic
      /\ mti' = mti
      /\ wmutex' = wmutex
      /\ pc' = [pc EXCEPT ![p] = "region"]
      /\ mode' = mode /\ prev' = prev /\ hdr' = hdr /\ txn' = txn /\ view' = view
      /\ acked' = acked /\ commits' = commits /\ clean' = clean
  BY DEF CheckRegion, Step, fileVars, regionVars, txnVars
<1>a. \A o \in Procs :
      /\ pc'[o] = IF o = p THEN "region" ELSE pc[o]
  BY <1>step DEF TypeOK
<1>n.
      /\ Newest' = Newest /\ Newest \in Version /\ Newest.mm_txnid \in 0..MaxCommits
      /\ Newest.hist \in SUBSET Commits
  BY <1>step, NewestType DEF Newest
<1>1. TypeOK'
  BY <1>step DEF TypeOK, Opening
<1>2. LockInv'
  BY <1>step DEF LockInv, Excl
<1>3. MutexInv'
  BY <1>step DEF MutexInv, Writing
<1>4. WriterKeepsMutex'
  BY <1>step DEF WriterKeepsMutex, Writing
<1>5. IdInv'
  BY <1>step DEF IdInv
<1>6. ASSUME clean' PROVE CleanInv'
  <2>c. clean /\ FileInv /\ ChainInv /\ MtiInv /\ WriterInv /\ AckedInv
    BY <1>6, <1>step DEF CleanInv
  <2>1. FileInv'
    BY <2>c, <1>step DEF FileInv, Mapped, Running, Writing, Excl
  <2>2. ChainInv'
    BY <2>c, <1>step, <1>n DEF ChainInv, ChainAt
  <2>3. MtiInv'
    BY <2>c, <1>step, <1>n DEF MtiInv, InUse, InDoubt, LockInv
  <2>4. WriterInv'
    BY <2>c, <1>step, <1>n DEF WriterInv
  <2>5. AckedInv'
    BY <2>c, <1>step, <1>n DEF AckedInv
  <2> QED BY <2>1, <2>2, <2>3, <2>4, <2>5 DEF CleanInv
<1> QED BY <1>1, <1>2, <1>3, <1>4, <1>5, <1>6

\* The process with the whole lock initialises the lock region; nobody is in a
\* write transaction.
LEMMA InitRegionInv == ASSUME IInv, NEW p \in Procs, InitRegion(p) PROVE IInv'
<1> USE ConstantsAssumption DEF IInv
<1>step.
      /\ pc[p] = "locked"
      /\ file' = file /\ meta' = meta /\ lock' = lock
      /\ magic' = TRUE
      /\ mti' = 0
      /\ wmutex' = Unlocked
      /\ pc' = [pc EXCEPT ![p] = "region"]
      /\ mode' = mode /\ prev' = prev /\ hdr' = hdr /\ txn' = txn /\ view' = view
      /\ acked' = acked /\ commits' = commits /\ clean' = clean
  BY DEF InitRegion, Step, fileVars, txnVars
<1>a. \A o \in Procs :
      /\ pc'[o] = IF o = p THEN "region" ELSE pc[o]
  BY <1>step DEF TypeOK
<1>n.
      /\ Newest' = Newest /\ Newest \in Version /\ Newest.mm_txnid \in 0..MaxCommits
      /\ Newest.hist \in SUBSET Commits
  BY <1>step, NewestType DEF Newest
<1>1. TypeOK'
  BY <1>step DEF TypeOK, Opening
<1>2. LockInv'
  BY <1>step DEF LockInv, Excl
<1>3. MutexInv'
  BY <1>step DEF MutexInv
<1>4. WriterKeepsMutex'
  BY <1>step DEF WriterKeepsMutex, Writing, LockInv
<1>5. IdInv'
  BY <1>step DEF IdInv, TypeOK
<1>6. ASSUME clean' PROVE CleanInv'
  <2>c. clean /\ FileInv /\ ChainInv /\ MtiInv /\ WriterInv /\ AckedInv
    BY <1>6, <1>step DEF CleanInv
  <2>l. \A o \in Procs \ {p} : pc[o] \in {"closed", "wait"}
    BY <1>step DEF LockInv
  <2>1. FileInv'
    BY <2>c, <1>step DEF FileInv, Mapped, Running, Writing, Excl
  <2>2. ChainInv'
    BY <2>c, <1>step, <1>n DEF ChainInv, ChainAt
  <2>3. MtiInv'
    BY <1>step DEF MtiInv, InUse, Excl, LockInv
  <2>4. WriterInv'
    BY <2>l, <1>step DEF WriterInv
  <2>5. AckedInv'
    BY <2>c, <1>step, <1>n DEF AckedInv
  <2> QED BY <2>1, <2>2, <2>3, <2>4, <2>5 DEF CleanInv
<1> QED BY <1>1, <1>2, <1>3, <1>4, <1>5, <1>6

\* Reading the meta pages, or finding a file without any (mdb_env_read_header).
LEMMA ReadHeaderInv == ASSUME IInv, NEW p \in Procs, ReadHeader(p) PROVE IInv'
<1> USE ConstantsAssumption DEF IInv
<1>step.
      /\ pc[p] = "region"
      /\ file' = (IF file = "none" THEN "empty" ELSE file)
      /\ meta' = meta /\ lock' = lock /\ magic' = magic /\ mti' = mti
      /\ wmutex' = wmutex
      /\ pc' = [pc EXCEPT ![p] = "header"]
      /\ mode' = mode /\ prev' = prev
      /\ hdr' = [hdr EXCEPT ![p] = IF file # "metas" THEN NoHeader
              ELSE IF prev[p] THEN Oldest ELSE Newest]
      /\ txn' = txn /\ view' = view /\ acked' = acked /\ commits' = commits
      /\ clean' = clean
  BY DEF ReadHeader, Step, regionVars, txnVars
<1>a. \A o \in Procs :
      /\ pc'[o] = IF o = p THEN "header" ELSE pc[o]
  BY <1>step DEF TypeOK
<1>b. \A o \in Procs :
      /\ hdr'[o] = IF o = p THEN IF file # "metas" THEN NoHeader
              ELSE IF prev[p] THEN Oldest ELSE Newest ELSE hdr[o]
  BY <1>step DEF TypeOK
<1>n.
      /\ Newest' = Newest /\ Newest \in Version /\ Newest.mm_txnid \in 0..MaxCommits
      /\ Newest.hist \in SUBSET Commits
  BY <1>step, NewestType DEF Newest
<1>o. Oldest \in Version /\ Oldest.mm_txnid <= commits /\ Newest.mm_txnid <= commits
  BY DEF Oldest, Newest, TypeOK, IdInv, Metas
<1>1. TypeOK'
  BY <1>step, <1>n, <1>o DEF TypeOK, Opening
<1>2. LockInv'
  BY <1>step DEF LockInv, Excl
<1>3. MutexInv'
  BY <1>step DEF MutexInv, Writing
<1>4. WriterKeepsMutex'
  BY <1>step DEF WriterKeepsMutex, Writing
<1>5. IdInv'
  BY <1>step, <1>o, EmptyFact DEF IdInv, TypeOK
<1>6. ASSUME clean' PROVE CleanInv'
  <2>c. clean /\ FileInv /\ ChainInv /\ MtiInv /\ WriterInv /\ AckedInv
    BY <1>6, <1>step DEF CleanInv
  <2>1. FileInv'
    BY <2>c, <1>step, <1>b, <1>n, <1>o, EmptyFact
       DEF FileInv, Mapped, Running, Writing, Excl
  <2>2. ChainInv'
    BY <2>c, <1>step, <1>n DEF ChainInv, ChainAt
  <2>3. MtiInv'
    BY <2>c, <1>step, <1>n DEF MtiInv, InUse, InDoubt, Excl
  <2>4. WriterInv'
    BY <2>c, <1>step, <1>n DEF WriterInv
  <2>5. AckedInv'
    BY <2>c, <1>step, <1>n DEF AckedInv
  <2> QED BY <2>1, <2>2, <2>3, <2>4, <2>5 DEF CleanInv
<1> QED BY <1>1, <1>2, <1>3, <1>4, <1>5, <1>6

\* The rest of mdb_env_open2: a new file gets its meta pages, and mti_txnid is set
\* for the previous snapshot.
LEMMA OpenEnv2Inv == ASSUME IInv, NEW p \in Procs, OpenEnv2(p) PROVE IInv'
<1> USE ConstantsAssumption DEF IInv
<1>1. CASE hdr[p] = NoHeader
  <2>step.
        /\ pc[p] = "header"
        /\ file' = "metas"
        /\ meta' = [s \in Metas |-> Empty]
        /\ lock' = lock /\ magic' = magic
        /\ mti' = (IF ~prev[p] THEN mti ELSE 0)
        /\ wmutex' = wmutex
        /\ pc' = [pc EXCEPT ![p] = "mapped"]
        /\ mode' = mode /\ prev' = prev
        /\ hdr' = [hdr EXCEPT ![p] = NoHeader]
        /\ txn' = txn /\ view' = view /\ acked' = acked /\ commits' = commits
        /\ clean' = (clean /\ ~prev[p])
    BY <1>1 DEF OpenEnv2, Step, txnVars
  <2>a. \A o \in Procs :
        /\ pc'[o] = IF o = p THEN "mapped" ELSE pc[o]
    BY <2>step DEF TypeOK
  <2>b. \A o \in Procs :
        /\ hdr'[o] = IF o = p THEN NoHeader ELSE hdr[o]
    BY <2>step DEF TypeOK
  <2>1. TypeOK'
    BY <2>step, EmptyFact DEF TypeOK, Opening
  <2>2. LockInv'
    BY <2>step DEF LockInv, Excl
  <2>3. MutexInv'
    BY <2>step DEF MutexInv, Writing
  <2>4. WriterKeepsMutex'
    BY <2>step DEF WriterKeepsMutex, Writing
  <2>5. IdInv'
    BY <2>step, EmptyFact DEF IdInv, TypeOK
  <2>6. ASSUME clean' PROVE CleanInv'
    <3>c. clean /\ FileInv /\ ChainInv /\ MtiInv /\ WriterInv /\ AckedInv
      BY <2>6, <2>step DEF CleanInv
    <3>l. file # "metas" /\ lock[p] = "excl" /\ ~prev[p]
      BY <3>c, <1>1, <2>6, <2>step DEF FileInv, LockInv, TypeOK
    <3>o. \A o \in Procs \ {p} : pc[o] \in {"closed", "wait"} /\ lock[o] = "none"
      BY <3>l DEF LockInv, Excl
    <3>step. Newest' = Empty /\ \A s \in Metas : meta'[s] = Empty
      BY <2>step DEF Newest, Metas
    <3>1. FileInv'
      BY <3>l, <3>o, <2>step, <2>a DEF FileInv, Mapped, Running, Writing, Excl
    <3>2. ChainInv'
      BY <3>step, EmptyFact, SlotFact DEF ChainInv, ChainAt
    <3>3. MtiInv'
      BY <3>l, <2>step DEF MtiInv, InUse, Excl
    <3>4. WriterInv'
      BY <3>o, <2>step DEF WriterInv
    <3>5. AckedInv'
      BY <3>l, <3>c, <2>step DEF AckedInv
    <3> QED BY <3>1, <3>2, <3>3, <3>4, <3>5 DEF CleanInv
  <2> QED BY <2>1, <2>2, <2>3, <2>4, <2>5, <2>6
<1>2. CASE hdr[p] # NoHeader
  <2>step.
        /\ pc[p] = "header" /\ hdr[p] \in Version
        /\ hdr[p].mm_txnid \in 0..MaxCommits /\ hdr[p].mm_txnid <= commits
        /\ file' = file /\ meta' = meta /\ lock' = lock /\ magic' = magic
        /\ mti' = (IF ~prev[p] THEN mti ELSE hdr[p].mm_txnid)
        /\ wmutex' = wmutex
        /\ pc' = [pc EXCEPT ![p] = "mapped"]
        /\ mode' = mode /\ prev' = prev
        /\ hdr' = [hdr EXCEPT ![p] = NoHeader]
        /\ txn' = txn /\ view' = view /\ acked' = acked /\ commits' = commits
        /\ clean' = (clean /\ ~prev[p])
    BY <1>2 DEF OpenEnv2, Step, TypeOK, Version, IdInv, fileVars, txnVars
  <2>a. \A o \in Procs :
        /\ pc'[o] = IF o = p THEN "mapped" ELSE pc[o]
    BY <2>step DEF TypeOK
  <2>b. \A o \in Procs :
        /\ hdr'[o] = IF o = p THEN NoHeader ELSE hdr[o]
    BY <2>step DEF TypeOK
  <2>n.
        /\ Newest' = Newest /\ Newest \in Version
        /\ Newest.mm_txnid \in 0..MaxCommits /\ Newest.hist \in SUBSET Commits
    BY <2>step, NewestType DEF Newest
  <2>1. TypeOK'
    BY <2>step DEF TypeOK, Opening
  <2>2. LockInv'
    BY <2>step DEF LockInv, Excl
  <2>3. MutexInv'
    BY <2>step DEF MutexInv, Writing
  <2>4. WriterKeepsMutex'
    BY <2>step DEF WriterKeepsMutex, Writing
  <2>5. IdInv'
    BY <2>step, EmptyFact DEF IdInv, TypeOK
  <2>6. ASSUME clean' PROVE CleanInv'
    <3>c. clean /\ FileInv /\ ChainInv /\ MtiInv /\ WriterInv /\ AckedInv
      BY <2>6, <2>step DEF CleanInv
    <3>l. file = "metas" /\ ~prev[p] /\ mti' = mti
      BY <3>c, <1>2, <2>6, <2>step DEF FileInv
    <3>1. FileInv'
      BY <3>c, <3>l, <2>step, <2>a DEF FileInv, Mapped, Excl
    <3>2. ChainInv'
      BY <3>c, <2>step, <2>n DEF ChainInv, ChainAt
    <3>3. MtiInv'
      BY <3>c, <3>l, <2>step, <2>n DEF MtiInv, InUse, InDoubt, Excl
    <3>4. WriterInv'
      BY <3>c, <3>l, <2>step, <2>n DEF WriterInv
    <3>5. AckedInv'
      BY <3>c, <2>step, <2>n DEF AckedInv
    <3> QED BY <3>1, <3>2, <3>3, <3>4, <3>5 DEF CleanInv
  <2> QED BY <2>1, <2>2, <2>3, <2>4, <2>5, <2>6
<1> QED BY <1>1, <1>2

\* The exclusive lock becomes a shared one, and mti_txnid is set from the meta
\* pages (mdb_env_share_locks).
LEMMA OpenEndInv == ASSUME IInv, NEW p \in Procs, OpenEnd(p) PROVE IInv'
<1> USE ConstantsAssumption DEF IInv
<1>1. CASE Excl(p) /\ ~prev[p]
  <2>step.
        /\ pc[p] = "mapped" /\ lock[p] = "excl" /\ ~prev[p]
        /\ file' = file /\ meta' = meta
        /\ lock' = [lock EXCEPT ![p] = "shared"]
        /\ magic' = magic
        /\ mti' = PickMeta(p).mm_txnid
        /\ wmutex' = wmutex
        /\ pc' = [pc EXCEPT ![p] = "open"]
        /\ mode' = mode /\ prev' = prev /\ hdr' = hdr /\ txn' = txn /\ view' = view
        /\ acked' = acked /\ commits' = commits /\ clean' = clean
    BY <1>1 DEF OpenEnd, Step, ShareLocks, Excl, fileVars, txnVars
  <2>a. \A o \in Procs :
        /\ pc'[o] = IF o = p THEN "open" ELSE pc[o]
        /\ lock'[o] = IF o = p THEN "shared" ELSE lock[o]
    BY <2>step DEF TypeOK
  <2>n.
        /\ Newest' = Newest /\ Newest \in Version
        /\ Newest.mm_txnid \in 0..MaxCommits /\ Newest.hist \in SUBSET Commits
    BY <2>step, NewestType DEF Newest
  <2>p. PickMeta(p) = Newest
    BY NewestType, <2>step
  <2>1. TypeOK'
    BY <2>step, <2>n, <2>p DEF TypeOK, Running
  <2>2. LockInv'
    BY <2>step DEF LockInv, Excl
  <2>3. MutexInv'
    BY <2>step DEF MutexInv, Writing
  <2>4. WriterKeepsMutex'
    BY <2>step DEF WriterKeepsMutex, Writing
  <2>5. IdInv'
    BY <2>step, <2>p DEF IdInv, Newest, Metas
  <2>6. ASSUME clean' PROVE CleanInv'
    <3>c. clean /\ FileInv /\ ChainInv /\ MtiInv /\ WriterInv /\ AckedInv
      BY <2>6, <2>step DEF CleanInv
    <3>o. \A o \in Procs \ {p} : pc[o] \in {"closed", "wait"} /\ lock[o] = "none"
      BY <2>step DEF LockInv, Excl
    <3>f. file = "metas" /\ Newest = meta[Slot(Newest.mm_txnid)]
      BY <3>c, <2>step, NewestAt DEF FileInv, Mapped
    <3>1. FileInv'
      BY <3>c, <2>step, <2>a DEF FileInv, Mapped, Excl
    <3>2. ChainInv'
      BY <3>c, <2>step, <2>n DEF ChainInv, ChainAt
    <3>3. MtiInv'
      BY <3>c, <3>f, <2>step, <2>n, <2>p DEF MtiInv, AckedInv
    <3>4. WriterInv'
      BY <3>o, <2>step DEF WriterInv
    <3>5. AckedInv'
      BY <3>c, <2>step, <2>n DEF AckedInv
    <3> QED BY <3>1, <3>2, <3>3, <3>4, <3>5 DEF CleanInv
  <2> QED BY <2>1, <2>2, <2>3, <2>4, <2>5, <2>6
<1>2. CASE ~(Excl(p) /\ ~prev[p])
  <2>step.
        /\ pc[p] = "mapped" /\ ~(lock[p] = "excl" /\ ~prev[p])
        /\ file' = file /\ meta' = meta /\ lock' = lock /\ magic' = magic
        /\ mti' = mti
        /\ wmutex' = wmutex
        /\ pc' = [pc EXCEPT ![p] = "open"]
        /\ mode' = mode /\ prev' = prev /\ hdr' = hdr /\ txn' = txn /\ view' = view
        /\ acked' = acked /\ commits' = commits /\ clean' = clean
    BY <1>2 DEF OpenEnd, Step, Excl, fileVars, txnVars
  <2>a. \A o \in Procs :
        /\ pc'[o] = IF o = p THEN "open" ELSE pc[o]
    BY <2>step DEF TypeOK
  <2>n.
        /\ Newest' = Newest /\ Newest \in Version
        /\ Newest.mm_txnid \in 0..MaxCommits /\ Newest.hist \in SUBSET Commits
    BY <2>step, NewestType DEF Newest
  <2>1. TypeOK'
    BY <2>step DEF TypeOK, Running
  <2>2. LockInv'
    BY <2>step DEF LockInv, Excl
  <2>3. MutexInv'
    BY <2>step DEF MutexInv, Writing
  <2>4. WriterKeepsMutex'
    BY <2>step DEF WriterKeepsMutex, Writing
  <2>5. IdInv'
    BY <2>step DEF IdInv
  <2>6. ASSUME clean' PROVE CleanInv'
    <3>c. clean /\ FileInv /\ ChainInv /\ MtiInv /\ WriterInv /\ AckedInv
      BY <2>6, <2>step DEF CleanInv
    <3>1. FileInv'
      BY <3>c, <2>step DEF FileInv, Mapped, Excl
    <3>2. ChainInv'
      BY <3>c, <2>step, <2>n DEF ChainInv, ChainAt
    <3>3. MtiInv'
      BY <3>c, <2>step, <2>n DEF MtiInv, InUse, InDoubt, Excl
    <3>4. WriterInv'
      BY <3>c, <2>step, <2>n DEF WriterInv
    <3>5. AckedInv'
      BY <3>c, <2>step, <2>n DEF AckedInv
    <3> QED BY <3>1, <3>2, <3>3, <3>4, <3>5 DEF CleanInv
  <2> QED BY <2>1, <2>2, <2>3, <2>4, <2>5, <2>6
<1> QED BY <1>1, <1>2

\* A read transaction takes the meta page that mti_txnid names.
LEMMA ReadBeginInv == ASSUME IInv, NEW p \in Procs, ReadBegin(p) PROVE IInv'
<1> USE ConstantsAssumption DEF IInv
<1>step.
      /\ pc[p] \in Running
      /\ file' = file /\ meta' = meta /\ lock' = lock /\ magic' = magic
      /\ mti' = mti
      /\ wmutex' = wmutex /\ pc' = pc /\ mode' = mode /\ prev' = prev /\ hdr' = hdr
      /\ txn' = txn
      /\ view' = [view EXCEPT ![p] = ReaderMeta(p).hist]
      /\ acked' = acked /\ commits' = commits /\ clean' = clean
  BY DEF ReadBegin, fileVars, regionVars, procVars
<1>b. \A o \in Procs :
      /\ view'[o] = IF o = p THEN ReaderMeta(p).hist ELSE view[o]
  BY <1>step DEF TypeOK
<1>n.
      /\ Newest' = Newest /\ Newest \in Version /\ Newest.mm_txnid \in 0..MaxCommits
      /\ Newest.hist \in SUBSET Commits
  BY <1>step, NewestType DEF Newest
<1>v. ReaderMeta(p).hist \in SUBSET Commits
  BY NewestType, SlotFact DEF ReaderMeta, TypeOK, Version
<1>1. TypeOK'
  BY <1>step, <1>v DEF TypeOK
<1>2. LockInv'
  BY <1>step DEF LockInv, Excl
<1>3. MutexInv'
  BY <1>step DEF MutexInv
<1>4. WriterKeepsMutex'
  BY <1>step DEF WriterKeepsMutex
<1>5. IdInv'
  BY <1>step DEF IdInv
<1>6. ASSUME clean' PROVE CleanInv'
  <2>c. clean /\ FileInv /\ ChainInv /\ MtiInv /\ WriterInv /\ AckedInv
    BY <1>6, <1>step DEF CleanInv
  <2>1. FileInv'
    BY <2>c, <1>step DEF FileInv, Mapped, Excl
  <2>2. ChainInv'
    BY <2>c, <1>step, <1>n DEF ChainInv, ChainAt
  <2>3. MtiInv'
    BY <2>c, <1>step, <1>n DEF MtiInv, InUse, InDoubt, Excl
  <2>4. WriterInv'
    BY <2>c, <1>step, <1>n DEF WriterInv
  <2>5. AckedInv'
    BY <2>c, <1>step, <1>n DEF AckedInv
  <2> QED BY <2>1, <2>2, <2>3, <2>4, <2>5 DEF CleanInv
<1> QED BY <1>1, <1>2, <1>3, <1>4, <1>5, <1>6

\* A read transaction ends.
LEMMA ReadEndInv == ASSUME IInv, NEW p \in Procs, ReadEnd(p) PROVE IInv'
<1> USE ConstantsAssumption DEF IInv
<1>step.
      /\ pc[p] \in Running
      /\ file' = file /\ meta' = meta /\ lock' = lock /\ magic' = magic
      /\ mti' = mti
      /\ wmutex' = wmutex /\ pc' = pc /\ mode' = mode /\ prev' = prev /\ hdr' = hdr
      /\ txn' = txn
      /\ view' = [view EXCEPT ![p] = NoView]
      /\ acked' = acked /\ commits' = commits /\ clean' = clean
  BY DEF ReadEnd, fileVars, regionVars, procVars
<1>b. \A o \in Procs :
      /\ view'[o] = IF o = p THEN NoView ELSE view[o]
  BY <1>step DEF TypeOK
<1>n.
      /\ Newest' = Newest /\ Newest \in Version /\ Newest.mm_txnid \in 0..MaxCommits
      /\ Newest.hist \in SUBSET Commits
  BY <1>step, NewestType DEF Newest
<1>1. TypeOK'
  BY <1>step DEF TypeOK
<1>2. LockInv'
  BY <1>step DEF LockInv, Excl
<1>3. MutexInv'
  BY <1>step DEF MutexInv
<1>4. WriterKeepsMutex'
  BY <1>step DEF WriterKeepsMutex
<1>5. IdInv'
  BY <1>step DEF IdInv
<1>6. ASSUME clean' PROVE CleanInv'
  <2>c. clean /\ FileInv /\ ChainInv /\ MtiInv /\ WriterInv /\ AckedInv
    BY <1>6, <1>step DEF CleanInv
  <2>1. FileInv'
    BY <2>c, <1>step DEF FileInv, Mapped, Excl
  <2>2. ChainInv'
    BY <2>c, <1>step, <1>n DEF ChainInv, ChainAt
  <2>3. MtiInv'
    BY <2>c, <1>step, <1>n DEF MtiInv, InUse, InDoubt, Excl
  <2>4. WriterInv'
    BY <2>c, <1>step, <1>n DEF WriterInv
  <2>5. AckedInv'
    BY <2>c, <1>step, <1>n DEF AckedInv
  <2> QED BY <2>1, <2>2, <2>3, <2>4, <2>5 DEF CleanInv
<1> QED BY <1>1, <1>2, <1>3, <1>4, <1>5, <1>6

\* A writer gets the mutex and starts from the newest meta page.
LEMMA WriterBeginInv == ASSUME IInv, NEW p \in Procs, WriterBegin(p) PROVE IInv'
<1> USE ConstantsAssumption DEF IInv
<1>step.
      /\ pc[p] = "open" /\ commits < MaxCommits
      /\ wmutex = Unlocked
      /\ file' = file /\ meta' = meta /\ lock' = lock /\ magic' = magic
      /\ mti' = mti
      /\ wmutex' = p
      /\ pc' = [pc EXCEPT ![p] = "write"]
      /\ mode' = mode /\ prev' = prev /\ hdr' = hdr
      /\ txn' = [txn EXCEPT ![p] = [mm_txnid |-> mti + 1, hist |-> meta[Slot(mti)].hist]]
      /\ view' = view /\ acked' = acked /\ commits' = commits /\ clean' = clean
  BY DEF WriterBegin, StartTxn, Step, fileVars
<1>a. \A o \in Procs :
      /\ pc'[o] = IF o = p THEN "write" ELSE pc[o]
  BY <1>step DEF TypeOK
<1>b. \A o \in Procs :
      /\ txn'[o] = IF o = p
              THEN [mm_txnid |-> mti + 1, hist |-> meta[Slot(mti)].hist] ELSE txn[o]
  BY <1>step DEF TypeOK
<1>n.
      /\ Newest' = Newest /\ Newest \in Version /\ Newest.mm_txnid \in 0..MaxCommits
      /\ Newest.hist \in SUBSET Commits
  BY <1>step, NewestType DEF Newest
<1>i. mti \in 0..commits /\ mti \in Nat /\ commits \in Nat
  BY DEF TypeOK, IdInv
<1>h. meta[Slot(mti)].hist \in SUBSET Commits
  BY SlotFact DEF TypeOK, Version
<1>v. [mm_txnid |-> mti + 1, hist |-> meta[Slot(mti)].hist] \in Version
  BY <1>i, <1>h, <1>step DEF Version
<1>1. TypeOK'
  BY <1>step, <1>v DEF TypeOK, Running, Writing
<1>2. LockInv'
  BY <1>step DEF LockInv, Excl
<1>3. MutexInv'
  BY <1>step, <1>a DEF MutexInv, Writing
<1>4. WriterKeepsMutex'
  BY <1>step DEF WriterKeepsMutex
<1>5. IdInv'
  BY <1>step, <1>a, <1>b, <1>i DEF IdInv
<1>6. ASSUME clean' PROVE CleanInv'
  <2>c. clean /\ FileInv /\ ChainInv /\ MtiInv /\ WriterInv /\ AckedInv
    BY <1>6, <1>step DEF CleanInv
  <2>w. \A o \in Procs \ {p} : pc[o] \notin Writing
    BY <1>step DEF WriterKeepsMutex
  <2>u. InUse /\ file = "metas" /\ ~prev[p]
    BY <2>c, <1>step DEF InUse, FileInv, LockInv, Mapped, Running
  <2>d. ~InDoubt
    BY <2>w, <1>step DEF InDoubt, Writing
  <2>m. mti = Newest.mm_txnid /\ Newest = meta[Slot(mti)]
    BY <2>c, <2>u, <2>d, NewestAt DEF MtiInv
  <2>1. FileInv'
    BY <2>c, <1>step DEF FileInv, Mapped, Running, Excl
  <2>2. ChainInv'
    BY <2>c, <1>step, <1>n DEF ChainInv, ChainAt
  <2>3. MtiInv'
    BY <2>c, <1>step, <1>n DEF MtiInv, InUse, InDoubt, Excl
  <2>4. WriterInv'
    <3>1.
          /\ txn'[p] = [mm_txnid |-> mti + 1, hist |-> Newest.hist]
          /\ Newest' = Newest /\ mti' = mti
      BY <2>m, <1>step, <1>b, <1>n
    <3>2. \A o \in Procs \ {p} : pc'[o] \notin Writing
      BY <2>w, <1>step
    <3> QED BY <2>m, <3>1, <3>2, <1>a DEF WriterInv, Writing
  <2>5. AckedInv'
    BY <2>c, <1>step, <1>n DEF AckedInv
  <2> QED BY <2>1, <2>2, <2>3, <2>4, <2>5 DEF CleanInv
<1> QED BY <1>1, <1>2, <1>3, <1>4, <1>5, <1>6

\* A writer gets the mutex of a writer that died, and sets mti_txnid from the meta
\* pages (mdb_mutex_failed).
LEMMA WriterRecoverInv == ASSUME IInv, NEW p \in Procs, WriterRecover(p) PROVE IInv'
<1> USE ConstantsAssumption DEF IInv
<1>step.
      /\ pc[p] = "open" /\ commits < MaxCommits
      /\ wmutex = OwnerDead
      /\ file' = file /\ meta' = meta /\ lock' = lock /\ magic' = magic
      /\ mti' = PickMeta(p).mm_txnid
      /\ wmutex' = p
      /\ pc' = [pc EXCEPT ![p] = "write"]
      /\ mode' = mode /\ prev' = prev /\ hdr' = hdr
      /\ txn' = [txn EXCEPT ![p] = [mm_txnid |-> PickMeta(p).mm_txnid + 1,
                                     hist |-> meta[Slot(PickMeta(p).mm_txnid)].hist]]
      /\ view' = view /\ acked' = acked /\ commits' = commits /\ clean' = clean
  BY DEF WriterRecover, StartTxn, Step, fileVars
<1>a. \A o \in Procs :
      /\ pc'[o] = IF o = p THEN "write" ELSE pc[o]
  BY <1>step DEF TypeOK
<1>b. \A o \in Procs :
      /\ txn'[o] = IF o = p
              THEN [mm_txnid |-> PickMeta(p).mm_txnid + 1,
              hist |-> meta[Slot(PickMeta(p).mm_txnid)].hist] ELSE txn[o]
  BY <1>step DEF TypeOK
<1>n.
      /\ Newest' = Newest /\ Newest \in Version /\ Newest.mm_txnid \in 0..MaxCommits
      /\ Newest.hist \in SUBSET Commits
  BY <1>step, NewestType DEF Newest
<1>i.
      /\ PickMeta(p).mm_txnid \in 0..commits /\ PickMeta(p).mm_txnid \in Nat
      /\ commits \in Nat
  BY NewestType DEF TypeOK, IdInv, Metas, Version
<1>h. meta[Slot(PickMeta(p).mm_txnid)].hist \in SUBSET Commits
  BY <1>i, SlotFact DEF TypeOK, Version
<1>v. [mm_txnid |-> PickMeta(p).mm_txnid + 1,
        hist |-> meta[Slot(PickMeta(p).mm_txnid)].hist] \in Version
  BY <1>i, <1>h, <1>step DEF Version
<1>1. TypeOK'
  BY <1>step, <1>i, <1>v DEF TypeOK, Running, Writing
<1>2. LockInv'
  BY <1>step DEF LockInv, Excl
<1>3. MutexInv'
  BY <1>step, <1>a DEF MutexInv, Writing
<1>4. WriterKeepsMutex'
  BY <1>step DEF WriterKeepsMutex
<1>5. IdInv'
  BY <1>step, <1>a, <1>b, <1>i DEF IdInv
<1>6. ASSUME clean' PROVE CleanInv'
  <2>c. clean /\ FileInv /\ ChainInv /\ MtiInv /\ WriterInv /\ AckedInv
    BY <1>6, <1>step DEF CleanInv
  <2>w. \A o \in Procs \ {p} : pc[o] \notin Writing
    BY <1>step DEF WriterKeepsMutex
  <2>u. InUse /\ file = "metas" /\ ~prev[p]
    BY <2>c, <1>step DEF InUse, FileInv, LockInv, Mapped, Running
  <2>m. PickMeta(p) = Newest /\ Newest = meta[Slot(Newest.mm_txnid)]
    BY <2>c, <2>u, NewestAt, NewestType
  <2>1. FileInv'
    BY <2>c, <1>step DEF FileInv, Mapped, Running, Excl
  <2>2. ChainInv'
    BY <2>c, <1>step, <1>n DEF ChainInv, ChainAt
  <2>3. MtiInv'
    BY <2>c, <2>u, <2>m, <1>step, <1>n DEF MtiInv, AckedInv
  <2>4. WriterInv'
    BY <2>m, <2>w, <1>step, <1>b, <1>n DEF WriterInv, Writing
  <2>5. AckedInv'
    BY <2>c, <1>step, <1>n DEF AckedInv
  <2> QED BY <2>1, <2>2, <2>3, <2>4, <2>5 DEF CleanInv
<1> QED BY <1>1, <1>2, <1>3, <1>4, <1>5, <1>6

\* A write transaction aborts and unlocks.
LEMMA AbortInv == ASSUME IInv, NEW p \in Procs, Abort(p) PROVE IInv'
<1> USE ConstantsAssumption DEF IInv
<1>step.
      /\ pc[p] = "write"
      /\ file' = file /\ meta' = meta /\ lock' = lock /\ magic' = magic
      /\ mti' = mti
      /\ wmutex' = Unlocked
      /\ pc' = [pc EXCEPT ![p] = "open"]
      /\ mode' = mode /\ prev' = prev /\ hdr' = hdr
      /\ txn' = [txn EXCEPT ![p] = Empty]
      /\ view' = view /\ acked' = acked /\ commits' = commits /\ clean' = clean
  BY DEF Abort, Step, fileVars
<1>a. \A o \in Procs :
      /\ pc'[o] = IF o = p THEN "open" ELSE pc[o]
  BY <1>step DEF TypeOK
<1>b. \A o \in Procs :
      /\ txn'[o] = IF o = p THEN Empty ELSE txn[o]
  BY <1>step DEF TypeOK
<1>n.
      /\ Newest' = Newest /\ Newest \in Version /\ Newest.mm_txnid \in 0..MaxCommits
      /\ Newest.hist \in SUBSET Commits
  BY <1>step, NewestType DEF Newest
<1>1. TypeOK'
  BY <1>step, EmptyFact DEF TypeOK, Running
<1>2. LockInv'
  BY <1>step DEF LockInv, Excl
<1>3. MutexInv'
  BY <1>step DEF MutexInv
<1>4. WriterKeepsMutex'
  BY <1>step, <1>a DEF WriterKeepsMutex, Writing
<1>5. IdInv'
  BY <1>step, EmptyFact DEF IdInv, TypeOK
<1>6. ASSUME clean' PROVE CleanInv'
  <2>c. clean /\ FileInv /\ ChainInv /\ MtiInv /\ WriterInv /\ AckedInv
    BY <1>6, <1>step DEF CleanInv
  <2>1. FileInv'
    BY <2>c, <1>step DEF FileInv, Mapped, Running, Writing, Excl
  <2>2. ChainInv'
    BY <2>c, <1>step, <1>n DEF ChainInv, ChainAt
  <2>3. MtiInv'
    BY <2>c, <1>step, <1>n
       DEF MtiInv, InUse, InDoubt, Excl, Writing, WriterKeepsMutex
  <2>4. WriterInv'
    BY <2>c, <1>step, <1>a, <1>n DEF WriterInv
  <2>5. AckedInv'
    BY <2>c, <1>step, <1>n DEF AckedInv
  <2> QED BY <2>1, <2>2, <2>3, <2>4, <2>5 DEF CleanInv
<1> QED BY <1>1, <1>2, <1>3, <1>4, <1>5, <1>6

\* The older meta page is overwritten with the new version: the chain of the two
\* meta pages goes on by one.
LEMMA WriteMetaInv == ASSUME IInv, NEW p \in Procs, WriteMeta(p) PROVE IInv'
<1> USE ConstantsAssumption DEF IInv
<1> DEFINE v == [mm_txnid |-> txn[p].mm_txnid, hist |-> txn[p].hist \cup {commits + 1}]
<1>v. [txn[p] EXCEPT !.hist = @ \cup {commits + 1}] = v
  BY HistUpdate DEF TypeOK
<1> HIDE DEF v
<1>step.
      /\ pc[p] = "write"
      /\ file' = file
      /\ meta' = [meta EXCEPT ![Slot(v.mm_txnid)] = v]
      /\ lock' = lock /\ magic' = magic /\ mti' = mti /\ wmutex' = wmutex
      /\ pc' = [pc EXCEPT ![p] = "meta"]
      /\ mode' = mode /\ prev' = prev /\ hdr' = hdr
      /\ txn' = [txn EXCEPT ![p] = v]
      /\ view' = view
      /\ acked' = (IF prev[p] THEN acked \cap v.hist ELSE acked)
      /\ commits' = commits + 1
      /\ clean' = clean
  BY <1>v DEF WriteMeta, Step, regionVars
<1>a. \A o \in Procs :
      /\ pc'[o] = IF o = p THEN "meta" ELSE pc[o]
  BY <1>step DEF TypeOK
<1>b. \A o \in Procs :
      /\ txn'[o] = IF o = p THEN v ELSE txn[o]
  BY <1>step DEF TypeOK
<1>i. commits < MaxCommits /\ txn[p].mm_txnid \in 0..commits + 1
  BY <1>step DEF IdInv, TypeOK, Version
<1>t.
      /\ v \in Version /\ v.mm_txnid = txn[p].mm_txnid
      /\ v.hist = txn[p].hist \cup {commits + 1}
  BY <1>i DEF v, TypeOK, Version, Commits
<1>s. Slot(v.mm_txnid) \in Metas
  BY <1>t, SlotFact DEF Version
<1>m. \A s \in Metas : meta'[s] = IF s = Slot(v.mm_txnid) THEN v ELSE meta[s]
  BY <1>step DEF TypeOK
<1>w. \A o \in Procs \ {p} : pc[o] \notin Writing
  BY <1>step DEF WriterKeepsMutex, Writing
<1>1. TypeOK'
  BY <1>step, <1>i, <1>t, <1>s DEF TypeOK, Running, Writing
<1>2. LockInv'
  BY <1>step DEF LockInv, Excl
<1>3. MutexInv'
  BY <1>step DEF MutexInv, Writing
<1>4. WriterKeepsMutex'
  BY <1>step DEF WriterKeepsMutex, Writing
<1>5. IdInv'
  <2>1. mti' <= commits' /\ v.mm_txnid <= commits'
    BY <1>step, <1>t DEF IdInv, TypeOK
  <2>2. \A s \in Metas : meta'[s].mm_txnid <= commits'
    BY <2>1, <1>step DEF IdInv, TypeOK, Version
  <2>3. \A o \in Procs : hdr'[o].mm_txnid <= commits'
    BY <1>step, EmptyFact DEF IdInv, TypeOK, Version
  <2>4. \A o \in Procs : pc'[o] # "write" /\ txn'[o].mm_txnid <= commits'
    BY <2>1, <1>step, <1>w DEF IdInv, TypeOK, Version, Writing
  <2> QED BY <2>1, <2>2, <2>3, <2>4 DEF IdInv
<1>6. ASSUME clean' PROVE CleanInv'
  <2>c. clean /\ FileInv /\ ChainInv /\ MtiInv /\ WriterInv /\ AckedInv
    BY <1>6, <1>step DEF CleanInv
  <2>u. InUse /\ file = "metas" /\ ~prev[p]
    BY <2>c, <1>step DEF InUse, FileInv, LockInv, Mapped, Running, Writing
  <2>n.
        /\ Newest = meta[Slot(mti)] /\ mti = Newest.mm_txnid /\ v.mm_txnid = mti + 1
        /\ txn[p].hist = Newest.hist /\ mti \in Nat
    BY <2>c, <2>u, <1>step, <1>t, NewestAt DEF WriterInv
  <2>m.
        /\ meta'[Slot(mti + 1)] = v /\ meta'[1 - Slot(mti + 1)] = Newest
        /\ meta'[Slot(mti)] = Newest
    BY <2>n, <1>m, SlotFact
  <2>k. Newest' = v
    BY <2>n, <2>m, <1>1, NewestOf DEF TypeOK, Newest
  <2>1. FileInv'
    BY <2>c, <1>step DEF FileInv, Mapped, Running, Writing, Excl
  <2>2. ChainInv'
    <3>1. Newest'.mm_txnid = mti + 1
      BY <2>k, <2>n
    <3>2. Newest.hist \subseteq v.hist
      BY <2>n, <1>t
    <3>3.
          /\ meta'[Slot(Newest'.mm_txnid)] = v
          /\ meta'[1 - Slot(Newest'.mm_txnid)] = Newest
      BY <3>1, <2>m
    <3>4. v.mm_txnid = mti + 1 /\ Newest.mm_txnid = mti /\ mti \in Nat
      BY <2>n
    <3> QED BY <3>1, <3>2, <3>3, <3>4 DEF ChainInv, ChainAt
  <2>3. MtiInv'
    BY <2>c, <2>u, <2>n, <2>m, <2>k, <1>step, <1>a DEF MtiInv, InDoubt
  <2>4. WriterInv'
    BY <1>w, <2>n, <2>k, <1>step, <1>a, <1>b, <1>w DEF WriterInv, Writing
  <2>5. AckedInv'
    BY <2>c, <2>n, <2>k, <1>step, <1>t DEF AckedInv
  <2> QED BY <2>1, <2>2, <2>3, <2>4, <2>5 DEF CleanInv
<1> QED BY <1>1, <1>2, <1>3, <1>4, <1>5, <1>6

\* mti_txnid names the version just written.
LEMMA PublishInv == ASSUME IInv, NEW p \in Procs, Publish(p) PROVE IInv'
<1> USE ConstantsAssumption DEF IInv
<1>step.
      /\ pc[p] = "meta"
      /\ file' = file /\ meta' = meta /\ lock' = lock /\ magic' = magic
      /\ mti' = txn[p].mm_txnid
      /\ wmutex' = wmutex
      /\ pc' = [pc EXCEPT ![p] = "published"]
      /\ mode' = mode /\ prev' = prev /\ hdr' = hdr /\ txn' = txn /\ view' = view
      /\ acked' = acked /\ commits' = commits /\ clean' = clean
  BY DEF Publish, Step, fileVars, txnVars
<1>a. \A o \in Procs :
      /\ pc'[o] = IF o = p THEN "published" ELSE pc[o]
  BY <1>step DEF TypeOK
<1>n.
      /\ Newest' = Newest /\ Newest \in Version /\ Newest.mm_txnid \in 0..MaxCommits
      /\ Newest.hist \in SUBSET Commits
  BY <1>step, NewestType DEF Newest
<1>i. txn[p].mm_txnid \in 0..MaxCommits /\ txn[p].mm_txnid <= commits
  BY <1>step DEF IdInv, TypeOK, Version
<1>1. TypeOK'
  BY <1>step, <1>i DEF TypeOK, Running, Writing
<1>2. LockInv'
  BY <1>step DEF LockInv, Excl
<1>3. MutexInv'
  BY <1>step DEF MutexInv, Writing
<1>4. WriterKeepsMutex'
  BY <1>step DEF WriterKeepsMutex, Writing
<1>5. IdInv'
  BY <1>step DEF IdInv
<1>6. ASSUME clean' PROVE CleanInv'
  <2>c. clean /\ FileInv /\ ChainInv /\ MtiInv /\ WriterInv /\ AckedInv
    BY <1>6, <1>step DEF CleanInv
  <2>w. \A o \in Procs \ {p} : pc[o] \notin Writing
    BY <1>step DEF WriterKeepsMutex, Writing
  <2>u. InUse /\ file = "metas" /\ ~prev[p]
    BY <2>c, <1>step DEF InUse, FileInv, LockInv, Mapped, Running, Writing
  <2>m. txn[p] = Newest /\ Newest = meta[Slot(Newest.mm_txnid)]
    BY <2>c, <2>u, <1>step, NewestAt DEF WriterInv
  <2>1. FileInv'
    BY <2>c, <1>step DEF FileInv, Mapped, Running, Writing, Excl
  <2>2. ChainInv'
    BY <2>c, <1>step, <1>n DEF ChainInv, ChainAt
  <2>3. MtiInv'
    BY <2>c, <2>u, <2>m, <1>step, <1>n DEF MtiInv, AckedInv
  <2>4. WriterInv'
    BY <2>w, <2>m, <1>step, <1>a, <1>n DEF WriterInv, Writing
  <2>5. AckedInv'
    BY <2>c, <1>step, <1>n DEF AckedInv
  <2> QED BY <2>1, <2>2, <2>3, <2>4, <2>5 DEF CleanInv
<1> QED BY <1>1, <1>2, <1>3, <1>4, <1>5, <1>6

\* A commit of the previous snapshot shares the lock and goes on as an ordinary
\* environment; it is not part of a clean history.
LEMMA LeavePrevInv == ASSUME IInv, NEW p \in Procs, LeavePrev(p) PROVE IInv'
<1> USE ConstantsAssumption DEF IInv
<1>step.
      /\ pc[p] = "published" /\ prev[p]
      /\ file' = file /\ meta' = meta
      /\ lock' = [lock EXCEPT ![p] = "shared"]
      /\ magic' = magic
      /\ mti' = PickMeta(p).mm_txnid
      /\ wmutex' = wmutex /\ pc' = pc /\ mode' = mode
      /\ prev' = [prev EXCEPT ![p] = FALSE]
      /\ hdr' = hdr /\ txn' = txn /\ view' = view /\ acked' = acked
      /\ commits' = commits
      /\ clean' = clean
  BY DEF LeavePrev, ShareLocks, fileVars, txnVars
<1>a. \A o \in Procs :
      /\ lock'[o] = IF o = p THEN "shared" ELSE lock[o]
  BY <1>step DEF TypeOK
<1>b. \A o \in Procs :
      /\ (o # p => prev'[o] = prev[o]) /\ (o = p => ~prev'[o])
  BY <1>step DEF TypeOK
<1>n.
      /\ Newest' = Newest /\ Newest \in Version /\ Newest.mm_txnid \in 0..MaxCommits
      /\ Newest.hist \in SUBSET Commits
  BY <1>step, NewestType DEF Newest
<1>i. PickMeta(p).mm_txnid \in 0..MaxCommits /\ PickMeta(p).mm_txnid <= commits
  BY NewestType DEF IdInv, Version, Metas
<1>1. TypeOK'
  BY <1>step, <1>i DEF TypeOK
<1>2. LockInv'
  BY <1>step DEF LockInv, Excl
<1>3. MutexInv'
  BY <1>step DEF MutexInv
<1>4. WriterKeepsMutex'
  BY <1>step DEF WriterKeepsMutex
<1>5. IdInv'
  BY <1>step, <1>i DEF IdInv
<1>6. ASSUME clean' PROVE CleanInv'
  BY <1>6, <1>step DEF CleanInv, FileInv, Mapped, Running, Writing
<1> QED BY <1>1, <1>2, <1>3, <1>4, <1>5, <1>6

\* mdb_txn_commit unlocks and returns: the version is acknowledged.
LEMMA CommitReturnInv == ASSUME IInv, NEW p \in Procs, CommitReturn(p) PROVE IInv'
<1> USE ConstantsAssumption DEF IInv
<1>step.
      /\ pc[p] = "published" /\ ~prev[p]
      /\ file' = file /\ meta' = meta /\ lock' = lock /\ magic' = magic
      /\ mti' = mti
      /\ wmutex' = Unlocked
      /\ pc' = [pc EXCEPT ![p] = "open"]
      /\ mode' = mode /\ prev' = prev /\ hdr' = hdr
      /\ txn' = [txn EXCEPT ![p] = Empty]
      /\ view' = view
      /\ acked' = (acked \cup txn[p].hist)
      /\ commits' = commits /\ clean' = clean
  BY DEF CommitReturn, Step, fileVars
<1>a. \A o \in Procs :
      /\ pc'[o] = IF o = p THEN "open" ELSE pc[o]
  BY <1>step DEF TypeOK
<1>b. \A o \in Procs :
      /\ txn'[o] = IF o = p THEN Empty ELSE txn[o]
  BY <1>step DEF TypeOK
<1>n.
      /\ Newest' = Newest /\ Newest \in Version /\ Newest.mm_txnid \in 0..MaxCommits
      /\ Newest.hist \in SUBSET Commits
  BY <1>step, NewestType DEF Newest
<1>i. txn[p].hist \in SUBSET Commits
  BY DEF TypeOK, Version
<1>1. TypeOK'
  BY <1>step, <1>i, EmptyFact DEF TypeOK, Running
<1>2. LockInv'
  BY <1>step DEF LockInv, Excl
<1>3. MutexInv'
  BY <1>step DEF MutexInv
<1>4. WriterKeepsMutex'
  BY <1>step, <1>a DEF WriterKeepsMutex, Writing
<1>5. IdInv'
  BY <1>step, EmptyFact DEF IdInv, TypeOK
<1>6. ASSUME clean' PROVE CleanInv'
  <2>c. clean /\ FileInv /\ ChainInv /\ MtiInv /\ WriterInv /\ AckedInv
    BY <1>6, <1>step DEF CleanInv
  <2>w. \A o \in Procs \ {p} : pc[o] \notin Writing
    BY <1>step DEF WriterKeepsMutex, Writing
  <2>u. InUse /\ file = "metas" /\ ~prev[p]
    BY <2>c, <1>step DEF InUse, FileInv, LockInv, Mapped, Running, Writing
  <2>m. txn[p] = Newest /\ mti = Newest.mm_txnid /\ Newest = meta[Slot(Newest.mm_txnid)]
    BY <2>c, <2>u, <1>step, NewestAt DEF WriterInv
  <2>1. FileInv'
    BY <2>c, <1>step DEF FileInv, Mapped, Running, Writing, Excl
  <2>2. ChainInv'
    BY <2>c, <1>step, <1>n DEF ChainInv, ChainAt
  <2>3. MtiInv'
    BY <2>c, <2>u, <2>m, <1>step, <1>n DEF MtiInv
  <2>4. WriterInv'
    BY <2>w, <1>a DEF WriterInv, Writing
  <2>5. AckedInv'
    BY <2>c, <2>u, <2>m, <1>step, <1>n DEF AckedInv
  <2> QED BY <2>1, <2>2, <2>3, <2>4, <2>5 DEF CleanInv
<1> QED BY <1>1, <1>2, <1>3, <1>4, <1>5, <1>6

\* What the five steps by which a process leaves have in common: its locks go, the
\* mutex it held is left to be recovered, and a process that gives up while another
\* one waits ends the clean history.
GoesDown(p) ==
  /\ Leave(p) /\ pc[p] # "closed"
  /\ wmutex' = IF wmutex = p THEN OwnerDead ELSE wmutex
  /\ clean' \in BOOLEAN /\ (clean' => clean /\ ~GivesUp(p))

\* A process that leaves, in whatever way, keeps the invariant.
LEMMA GoesDownInv == ASSUME IInv, NEW p \in Procs, GoesDown(p) PROVE IInv'
<1> USE ConstantsAssumption DEF IInv
<1>step.
      /\ clean' \in BOOLEAN
      /\ clean' => clean /\ ~GivesUp(p)
      /\ file' = file /\ meta' = meta
      /\ lock' = [lock EXCEPT ![p] = "none"]
      /\ magic' = magic /\ mti' = mti
      /\ wmutex' = (IF wmutex = p THEN OwnerDead ELSE wmutex)
      /\ pc' = [pc EXCEPT ![p] = "closed"]
      /\ mode' = [mode EXCEPT ![p] = "rw"]
      /\ prev' = [prev EXCEPT ![p] = FALSE]
      /\ hdr' = [hdr EXCEPT ![p] = NoHeader]
      /\ txn' = [txn EXCEPT ![p] = Empty]
      /\ view' = [view EXCEPT ![p] = NoView]
      /\ acked' = acked /\ commits' = commits
  BY DEF Leave, GoesDown, fileVars
<1>a. \A o \in Procs :
      /\ pc'[o] = IF o = p THEN "closed" ELSE pc[o]
      /\ lock'[o] = IF o = p THEN "none" ELSE lock[o]
  BY <1>step DEF TypeOK
<1>b. \A o \in Procs :
      /\ mode'[o] = IF o = p THEN "rw" ELSE mode[o]
      /\ (o # p => prev'[o] = prev[o]) /\ (o = p => ~prev'[o])
      /\ hdr'[o] = IF o = p THEN NoHeader ELSE hdr[o]
      /\ txn'[o] = IF o = p THEN Empty ELSE txn[o]
      /\ view'[o] = IF o = p THEN NoView ELSE view[o]
  BY <1>step DEF TypeOK
<1>n.
      /\ Newest' = Newest /\ Newest \in Version /\ Newest.mm_txnid \in 0..MaxCommits
      /\ Newest.hist \in SUBSET Commits
  BY <1>step, NewestType DEF Newest
<1>1. TypeOK'
  <2>1. hdr' \in [Procs -> Version \cup {NoHeader}] /\ txn' \in [Procs -> Version]
    BY <1>step, EmptyFact DEF TypeOK
  <2>2. view' \in [Procs -> (SUBSET Commits) \cup {NoView}]
    BY <1>step DEF TypeOK
  <2>3. prev' \in [Procs -> BOOLEAN]
    BY <1>step DEF TypeOK
  <2>4. mode' \in [Procs -> AllModes]
    BY <1>step DEF TypeOK, AllModes
  <2> QED BY <2>1, <2>4, <1>step DEF TypeOK
<1>2. LockInv'
  <2> SUFFICES ASSUME NEW o \in Procs PROVE
      (/\ lock[o] = "none" <=> pc[o] \in {"closed", "wait"}
       /\ pc[o] = "locked" => Excl(o)
       /\ pc[o] = "shared" => ~Excl(o)
       /\ Excl(o) => \A q \in Procs \ {o} : lock[q] = "none")'
    BY DEF LockInv
  <2>1. CASE o = p
    BY <2>1, <1>a DEF Excl
  <2>2. CASE o # p
    BY <2>2, <1>step DEF LockInv, Excl
  <2> QED BY <2>1, <2>2
<1>3. MutexInv'
  BY <1>step DEF MutexInv
<1>4. WriterKeepsMutex'
  BY <1>step, <1>a DEF WriterKeepsMutex, Writing
<1>5. IdInv'
  BY <1>step, EmptyFact DEF IdInv, TypeOK
<1>6. ASSUME clean' PROVE CleanInv'
  <2>c. clean /\ FileInv /\ ChainInv /\ MtiInv /\ WriterInv /\ AckedInv
    BY <1>6, <1>step DEF CleanInv
  <2>g. lock[p] = "excl" => \A o \in Procs \ {p} : pc[o] = "closed"
    BY <2>c, <1>6, <1>step DEF GivesUp, LockInv, FileInv, Excl
  <2>1. FileInv'
    BY <2>c, <1>step, <1>a DEF FileInv, Mapped, Running, Writing, Excl
  <2>2. ChainInv'
    BY <2>c, <1>step, <1>n DEF ChainInv, ChainAt
  <2>3. MtiInv'
    <3>1. CASE lock[p] = "excl"
      BY <3>1, <2>g, <1>a DEF MtiInv, InUse
    <3>2. CASE lock[p] # "excl"
      <4>1. InUse' => InUse
        BY <3>2, <1>step DEF InUse, Excl
      <4>2. InDoubt => InDoubt'
        BY <1>step DEF InDoubt, WriterKeepsMutex, Writing
      <4> QED BY <4>1, <4>2, <2>c, <1>step, <1>n DEF MtiInv
    <3> QED BY <3>1, <3>2
  <2>4. WriterInv'
    BY <2>c, <1>step, <1>a, <1>n DEF WriterInv
  <2>5. AckedInv'
    BY <2>c, <1>step, <1>n DEF AckedInv
  <2> QED BY <2>1, <2>2, <2>3, <2>4, <2>5 DEF CleanInv
<1> QED BY <1>1, <1>2, <1>3, <1>4, <1>5, <1>6

\* mdb_env_open gives up: the lock region is not initialised, or the process wants
\* to write the previous snapshot and is not alone.
LEMMA RefuseRegionInv == ASSUME IInv, NEW p \in Procs, RefuseRegion(p) PROVE IInv'
<1>1. Leave(p) /\ pc[p] # "closed"
  BY DEF RefuseRegion
<1>2. wmutex' = IF wmutex = p THEN OwnerDead ELSE wmutex
  BY DEF RefuseRegion, IInv, MutexInv, Writing
<1>3. clean' \in BOOLEAN /\ (clean' => clean /\ ~GivesUp(p))
  BY DEF RefuseRegion, IInv, TypeOK, GivesUp
<1> QED BY <1>1, <1>2, <1>3, GoesDownInv DEF GoesDown

\* A read-only environment cannot write the first meta pages.
LEMMA InitMetaFailInv == ASSUME IInv, NEW p \in Procs, InitMetaFail(p) PROVE IInv'
<1>1. Leave(p) /\ pc[p] # "closed"
  BY DEF InitMetaFail
<1>2. wmutex' = IF wmutex = p THEN OwnerDead ELSE wmutex
  BY DEF InitMetaFail, IInv, MutexInv, Writing
<1>3. clean' \in BOOLEAN /\ (clean' => clean /\ ~GivesUp(p))
  BY DEF InitMetaFail
<1> QED BY <1>1, <1>2, <1>3, GoesDownInv DEF GoesDown

\* Any other error of mdb_env_open, at any of its steps.
LEMMA OpenFailInv == ASSUME IInv, NEW p \in Procs, OpenFail(p) PROVE IInv'
<1>1. Leave(p) /\ pc[p] # "closed"
  BY DEF OpenFail, Opening
<1>2. wmutex' = IF wmutex = p THEN OwnerDead ELSE wmutex
  BY DEF OpenFail, IInv, MutexInv, Opening, Writing
<1>3. clean' \in BOOLEAN /\ (clean' => clean /\ ~GivesUp(p))
  BY DEF OpenFail
<1> QED BY <1>1, <1>2, <1>3, GoesDownInv DEF GoesDown

\* mdb_env_close.
LEMMA CloseInv == ASSUME IInv, NEW p \in Procs, Close(p) PROVE IInv'
<1>1. Leave(p) /\ pc[p] # "closed"
  BY DEF Close
<1>2. wmutex' = IF wmutex = p THEN OwnerDead ELSE wmutex
  BY DEF Close, IInv, MutexInv, Writing
<1>3. clean' \in BOOLEAN /\ (clean' => clean /\ ~GivesUp(p))
  BY DEF Close, IInv, TypeOK, GivesUp
<1> QED BY <1>1, <1>2, <1>3, GoesDownInv DEF GoesDown

\* The process dies.
LEMMA CrashInv == ASSUME IInv, NEW p \in Procs, Crash(p) PROVE IInv'
<1>1. Leave(p) /\ pc[p] # "closed"
  BY DEF Crash, Running, Writing
<1>2. wmutex' = IF wmutex = p THEN OwnerDead ELSE wmutex
  BY DEF Crash
<1>3. clean' \in BOOLEAN /\ (clean' => clean /\ ~GivesUp(p))
  BY DEF Crash, IInv, TypeOK, GivesUp, Running, Writing
<1> QED BY <1>1, <1>2, <1>3, GoesDownInv DEF GoesDown

\* At the beginning there is no data file and nobody has opened.
LEMMA InitInv == Init => IInv
<1> SUFFICES ASSUME Init PROVE IInv
  OBVIOUS
<1> USE ConstantsAssumption
<1>1. TypeOK
  <2>1.
        /\ hdr \in [Procs -> Version \cup {NoHeader}] /\ txn \in [Procs -> Version]
        /\ meta \in [Metas -> Version]
    BY EmptyFact DEF Init
  <2>2.
        /\ view \in [Procs -> (SUBSET Commits) \cup {NoView}]
        /\ prev \in [Procs -> BOOLEAN]
    BY DEF Init
  <2>3.
        /\ pc \in [Procs -> {"closed"} \cup Opening \cup Running]
        /\ mode \in [Procs -> AllModes]
    BY DEF Init, AllModes
  <2>4. lock \in [Procs -> {"none", "shared", "excl"}]
    BY DEF Init
  <2>5. /\ file \in {"none", "empty", "metas"} /\ mti \in 0..MaxCommits
        /\ wmutex \in Procs \cup {Unlocked, OwnerDead}
        /\ acked \in SUBSET Commits /\ commits \in 0..MaxCommits
    BY DEF Init
  <2>6. magic \in BOOLEAN /\ clean \in BOOLEAN
    BY DEF Init
  <2> QED BY <2>1, <2>2, <2>3, <2>4, <2>5, <2>6 DEF TypeOK
<1>2. LockInv
  BY DEF Init, LockInv
<1>3. MutexInv /\ WriterKeepsMutex
  BY DEF Init, MutexInv, WriterKeepsMutex, Writing
<1>4. IdInv
  BY EmptyFact DEF Init, IdInv
<1>5. FileInv
  BY DEF Init, FileInv, Mapped, Running, Writing, Excl
<1>6. ChainInv /\ MtiInv /\ WriterInv /\ AckedInv
  BY DEF Init, ChainInv, MtiInv, InUse, WriterInv, AckedInv
<1> QED BY <1>1, <1>2, <1>3, <1>4, <1>5, <1>6 DEF IInv, CleanInv

\* A step that changes nothing.
LEMMA StutterInv == ASSUME IInv, UNCHANGED vars PROVE IInv'
<1> USE DEF vars, fileVars, regionVars, procVars, txnVars
<1>1. TypeOK' /\ LockInv'
  BY DEF IInv, TypeOK, LockInv, Excl
<1>2. MutexInv' /\ WriterKeepsMutex' /\ IdInv'
  BY DEF IInv, MutexInv, WriterKeepsMutex, IdInv
<1>3. CleanInv => CleanInv'
  <2> SUFFICES ASSUME CleanInv PROVE CleanInv'
    OBVIOUS
  <2>1. FileInv' /\ AckedInv'
    BY DEF CleanInv, FileInv, Mapped, Excl, AckedInv, Newest
  <2>2. ChainInv' /\ WriterInv'
    BY DEF CleanInv, ChainInv, ChainAt, WriterInv, Newest
  <2>3. MtiInv'
    BY DEF CleanInv, MtiInv, InUse, InDoubt, Excl, Newest
  <2> QED BY <2>1, <2>2, <2>3 DEF CleanInv
<1> QED BY <1>1, <1>2, <1>3 DEF IInv

\* Every step keeps the invariant.
LEMMA NextInv == ASSUME IInv, [Next]_vars PROVE IInv'
<1>1. CASE UNCHANGED vars
  BY <1>1, StutterInv
<1>2. ASSUME NEW p \in Procs, OpenStep(p) PROVE IInv'
  <2>1. CASE ExclLock(p) \/ ShareGranted(p) \/ CheckRegion(p) \/ RefuseRegion(p)
    BY <2>1, ExclLockInv, ShareGrantedInv, CheckRegionInv, RefuseRegionInv
  <2>2. CASE InitRegion(p) \/ ReadHeader(p) \/ OpenEnv2(p)
    BY <2>2, InitRegionInv, ReadHeaderInv, OpenEnv2Inv
  <2>3. CASE InitMetaFail(p) \/ OpenEnd(p) \/ OpenFail(p)
    BY <2>3, InitMetaFailInv, OpenEndInv, OpenFailInv
  <2> QED BY <1>2, <2>1, <2>2, <2>3 DEF OpenStep
<1>3. ASSUME NEW p \in Procs, RunStep(p) PROVE IInv'
  <2>1. CASE ReadBegin(p) \/ ReadEnd(p) \/ WriterBegin(p) \/ WriterRecover(p)
    BY <2>1, ReadBeginInv, ReadEndInv, WriterBeginInv, WriterRecoverInv
  <2>2. CASE Abort(p) \/ WriteMeta(p) \/ Publish(p) \/ LeavePrev(p)
    BY <2>2, AbortInv, WriteMetaInv, PublishInv, LeavePrevInv
  <2>3. CASE CommitReturn(p) \/ Close(p) \/ Crash(p)
    BY <2>3, CommitReturnInv, CloseInv, CrashInv
  <2> QED BY <1>3, <2>1, <2>2, <2>3 DEF RunStep
<1> QED BY <1>1, <1>2, <1>3 DEF Next

-----------------------------------------------------------------------------
\* Every state of every behaviour satisfies the inductive invariant, for any
\* number of processes and commits and any set of modes.
THEOREM Invariant == Spec => []IInv
<1>1. Init => IInv
  BY InitInv
<1>2. IInv /\ [Next]_vars => IInv'
  BY NextInv
<1> QED BY <1>1, <1>2, PTL DEF Spec

\* The values of the variables.
THEOREM TypeCorrect == Spec => []TypeOK
<1>1. IInv => TypeOK
  BY DEF IInv
<1> QED BY <1>1, Invariant, PTL

\* A writer holds the writer mutex until it commits, aborts or dies
\* (mdb_env_excl_lock, mdb_env_setup_locks).
THEOREM MutexIsKept == Spec => []WriterKeepsMutex
<1>1. IInv => WriterKeepsMutex
  BY DEF IInv
<1> QED BY <1>1, Invariant, PTL

\* The newest meta page has every commit that returned, however processes open,
\* close, fail and die (mdb_env_open2, mdb_env_share_locks, mdb_txn_renew0).
THEOREM CommitsAreKept == Spec => []NoCommitLost
<1>1. IInv => NoCommitLost
  BY DEF IInv, NoCommitLost, CommitsKept, CleanInv, AckedInv
<1> QED BY <1>1, Invariant, PTL

\* A step that begins a read transaction is mdb_txn_renew0 of a reader.
LEMMA FreshStep ==
  ASSUME IInv, [Next]_vars, NEW q \in Procs, clean, view[q] = NoView, view'[q] # NoView
  PROVE  acked \subseteq view'[q]
<1>1. ReadBegin(q)
  <2>1. view' # view
    OBVIOUS
  <2>2. PICK p \in Procs : OpenStep(p) \/ RunStep(p)
    BY DEF Next, vars, txnVars
  <2>3. CASE OpenStep(p)
    BY <2>3
       DEF OpenStep, ExclLock, ShareGranted, CheckRegion, RefuseRegion, InitRegion,
       ReadHeader, OpenEnv2, InitMetaFail, OpenEnd, OpenFail, Leave, txnVars, IInv,
       TypeOK
  <2>4. CASE RunStep(p) /\ ~ReadBegin(p)
    BY <2>4
       DEF RunStep, ReadEnd, WriterBegin, WriterRecover, StartTxn, Abort, WriteMeta,
       Publish, LeavePrev, CommitReturn, Close, Crash, Leave, txnVars, IInv, TypeOK
  <2>5. CASE ReadBegin(p)
    BY <2>5 DEF ReadBegin, IInv, TypeOK
  <2> QED BY <2>2, <2>3, <2>4, <2>5
<1>2. view'[q] = ReaderMeta(q).hist /\ pc[q] \in Running
  BY <1>1 DEF ReadBegin
<1>3. TypeOK /\ ChainInv /\ MtiInv /\ FileInv /\ AckedInv /\ LockInv
  BY DEF IInv, CleanInv
<1>4. InUse /\ file = "metas" /\ ~prev[q]
  BY <1>2, <1>3 DEF LockInv, FileInv, InUse, Mapped, Running, Writing
<1>5. PickMeta(q) = Newest
  BY <1>3, <1>4, NewestType
<1> QED BY <1>2, <1>3, <1>4, <1>5 DEF ReaderMeta, MtiInv, AckedInv

\* A read transaction begins with every commit that returned (mdb_txn_renew0).
THEOREM ReadsAreFresh == Spec => FreshRead
<1>1. IInv /\ [Next]_vars =>
        [\A p \in Procs : clean /\ view[p] = NoView /\ view'[p] # NoView =>
           acked \subseteq view'[p]]_vars
  BY FreshStep
<1> QED BY <1>1, Invariant, PTL DEF Spec, FreshRead

=============================================================================
