----------------------------- MODULE ReaderTable -----------------------------
(***************************************************************************)
(* The reader table of the lock region: how threads claim and give up      *)
(* slots, how mdb_reader_check clears the slots of dead processes while    *)
(* process ids are being reused, and how the reader mutex is repaired.     *)
(*                                                                         *)
(* A process is named by its id: a new process may get the id of one that  *)
(* died.  Slots are 1..MaxReaders, slot 0 means none.  What a thread does  *)
(* with mr_txnid in its slot is in Mvcc; mr_tid is only reported.          *)
(***************************************************************************)
EXTENDS Integers, FiniteSets

CONSTANTS
  Pids,
  Threads,
  Pid,         \* Pid[t]: the process of thread t
  MaxReaders,  \* me_maxreaders
  NoPid,       \* mr_pid = 0
  Free, OwnerDead   \* the reader mutex, not held or its owner died

Slots == 1..MaxReaders

ASSUME ConstantsAssumption ==
  /\ Pid \in [Threads -> Pids] /\ NoPid \notin Pids
  /\ MaxReaders \in Nat \ {0}
  /\ Free \notin Threads /\ OwnerDead \notin Threads /\ Free # OwnerDead

VARIABLES
  pid,              \* mr_pid of each slot
  numreaders,       \* mti_numreaders
  rmutex,           \* me_rmutex
  live,             \* the processes that run and have the environment open
  pidlock,          \* the processes that hold the lock of their id
  live_reader,      \* me_live_reader of each process
  close_readers,    \* me_close_readers of each process
  closing,          \* where mdb_env_close0 is in each process, or 0
  pc,
  tls,              \* the thread's slot under me_txkey
  r,                \* the slot it is claiming
  check,            \* locals of mdb_reader_check0
  stale             \* observation: the ids dead since the check began

table   == <<pid, numreaders>>
process == <<live, pidlock, live_reader, close_readers, closing>>
thread  == <<pc, tls, r>>
vars == <<table, rmutex, process, thread, check, stale>>

NoCheck ==
  [rdrs |-> 0, i |-> 0, j |-> 0,
   seen |-> {}, at |-> NoPid,   \* pids, pid
   rlocked |-> FALSE,           \* called by mdb_mutex_failed, in
   after |-> "checked"]         \* mdb_reader_check or a claim

Init ==
  /\ pid = [s \in Slots |-> NoPid] /\ numreaders = 0
  /\ rmutex = Free
  /\ live = {} /\ pidlock = {}
  /\ live_reader = [p \in Pids |-> FALSE]
  /\ close_readers = [p \in Pids |-> 0] /\ closing = [p \in Pids |-> 0]
  /\ pc = [t \in Threads |-> "idle"]
  /\ tls = [t \in Threads |-> 0] /\ r = [t \in Threads |-> 0]
  /\ check = [t \in Threads |-> NoCheck] /\ stale = [t \in Threads |-> {}]

Goto(t, label) == pc' = [pc EXCEPT ![t] = label]

-----------------------------------------------------------------------------
(* Claiming a slot: the reader half of mdb_txn_renew0 *)

Runs(t) == Pid[t] \in live /\ closing[Pid[t]] = 0

\* mutant: the id of the process is not locked
ClaimBeginUnlocked(t) ==
  /\ Runs(t) /\ pc[t] = "idle" /\ tls[t] = 0
  /\ live_reader' = [live_reader EXCEPT ![Pid[t]] = TRUE]
  /\ Goto(t, "lock")
  /\ UNCHANGED <<table, rmutex, live, pidlock, close_readers, closing, tls, r, check, stale>>

\* the process locks its id before its first slot
ClaimBegin(t) ==
  /\ Runs(t) /\ pc[t] = "idle" /\ tls[t] = 0
  /\ pidlock' = pidlock \cup (IF live_reader[Pid[t]] THEN {} ELSE {Pid[t]})
  /\ live_reader' = [live_reader EXCEPT ![Pid[t]] = TRUE]
  /\ Goto(t, "lock")
  /\ UNCHANGED <<table, rmutex, live, close_readers, closing, tls, r, check, stale>>

\* the first free slot below mti_numreaders, or the one after
FreeSlots == {s \in 1..numreaders : pid[s] = NoPid}
FirstFree ==
  IF FreeSlots = {} THEN numreaders + 1
  ELSE CHOOSE s \in FreeSlots : \A s2 \in FreeSlots : s <= s2

ClaimFull(t) ==
  /\ pc[t] = "claim" /\ FirstFree > MaxReaders   \* MDB_READERS_FULL
  /\ rmutex' = Free /\ Goto(t, "idle")
  /\ UNCHANGED <<table, process, tls, r, check, stale>>

\* reset the slot first ...
ClaimReset(t) ==
  /\ pc[t] = "claim" /\ FirstFree <= MaxReaders
  /\ r' = [r EXCEPT ![t] = FirstFree]
  /\ pid' = [pid EXCEPT ![FirstFree] = NoPid]
  /\ Goto(t, "publish")
  /\ UNCHANGED <<numreaders, rmutex, process, tls, check, stale>>

\* ... next publish it in mti_numreaders, and to mdb_env_close ...
ClaimPublish(t) ==
  /\ pc[t] = "publish"
  /\ numreaders' = IF r[t] > numreaders THEN r[t] ELSE numreaders
  /\ close_readers' = [close_readers EXCEPT ![Pid[t]] = numreaders']
  /\ Goto(t, "own")
  /\ UNCHANGED <<pid, rmutex, live, pidlock, live_reader, closing, tls, r, check, stale>>

\* ... and only then own it
ClaimOwn(t) ==
  /\ pc[t] = "own"
  /\ pid' = [pid EXCEPT ![r[t]] = Pid[t]]
  /\ rmutex' = Free /\ Goto(t, "setspecific")
  /\ UNCHANGED <<numreaders, process, tls, r, check, stale>>

ClaimEnd(t) ==
  /\ pc[t] = "setspecific"
  /\ \/ tls' = [tls EXCEPT ![t] = r[t]] /\ UNCHANGED pid
     \/ pid' = [pid EXCEPT ![r[t]] = NoPid] /\ UNCHANGED tls   \* pthread_setspecific failed
  /\ r' = [r EXCEPT ![t] = 0] /\ Goto(t, "idle")
  /\ UNCHANGED <<numreaders, rmutex, process, check, stale>>

\* the thread exits: mdb_env_reader_dest, without the mutex
ThreadExit(t) ==
  /\ Runs(t) /\ pc[t] = "idle" /\ tls[t] # 0
  /\ pid' = [pid EXCEPT ![tls[t]] = IF @ = Pid[t] THEN NoPid ELSE @]
  /\ tls' = [tls EXCEPT ![t] = 0]
  /\ UNCHANGED <<numreaders, rmutex, process, pc, r, check, stale>>

-----------------------------------------------------------------------------
(* mdb_reader_check0, and mdb_mutex_failed for the reader mutex *)

CheckBegin(t) ==
  /\ Runs(t) /\ pc[t] = "idle"
  /\ check' = [check EXCEPT ![t] = [NoCheck EXCEPT !.rdrs = numreaders, !.i = 1]]
  /\ stale' = [stale EXCEPT ![t] = Pids \ (live \cup {Pid[t]})]
  /\ Goto(t, "read")
  /\ UNCHANGED <<table, rmutex, process, tls, r>>

\* mutant: the repaired mutex is declared consistent without a check
RecoverUnchecked(t, after) ==
  /\ rmutex = OwnerDead
  /\ rmutex' = t /\ Goto(t, "read")
  /\ check' = [check EXCEPT ![t] =
       [NoCheck EXCEPT !.rdrs = 0, !.i = 1, !.rlocked = TRUE, !.after = after]]

\* mdb_mutex_failed: the mutex is ours; check the readers, then go on
Recover(t, after) ==
  /\ rmutex = OwnerDead
  /\ rmutex' = t /\ Goto(t, "read")
  /\ check' = [check EXCEPT ![t] =
       [NoCheck EXCEPT !.rdrs = numreaders, !.i = 1, !.rlocked = TRUE, !.after = after]]

ClaimLock(t) ==
  /\ pc[t] = "lock"
  /\ \/ rmutex = Free /\ rmutex' = t /\ Goto(t, "claim") /\ UNCHANGED check
     \/ Recover(t, "claim")
  /\ UNCHANGED <<table, process, tls, r, stale>>

\* the slot is read without the mutex; each process is looked at once
CheckRead(t) ==
  LET c == check[t] IN
  /\ pc[t] = "read" /\ c.i <= c.rdrs
  /\ \/ /\ pid[c.i] \in {NoPid, Pid[t]} \cup c.seen
        /\ check' = [check EXCEPT ![t].i = c.i + 1]
        /\ UNCHANGED pc
     \/ /\ pid[c.i] \notin {NoPid, Pid[t]} \cup c.seen
        /\ check' = [check EXCEPT ![t].at = pid[c.i], ![t].seen = c.seen \cup {pid[c.i]}]
        /\ Goto(t, "pidcheck")
  /\ UNCHANGED <<table, rmutex, process, tls, r, stale>>

Alive(p) == p \in pidlock   \* mdb_reader_pid(Pidcheck)

CheckPid(t) ==
  LET c == check[t] IN
  /\ pc[t] = "pidcheck"
  /\ \/ Alive(c.at) /\ check' = [check EXCEPT ![t].i = c.i + 1] /\ Goto(t, "read")
     \/ /\ ~Alive(c.at) /\ check' = [check EXCEPT ![t].j = c.i]
        /\ Goto(t, IF c.rlocked THEN "clear" ELSE "checklock")
  /\ UNCHANGED <<table, rmutex, process, tls, r, stale>>

CheckLock(t) ==
  /\ pc[t] = "checklock"
  /\ \/ rmutex = Free /\ rmutex' = t /\ Goto(t, "recheck") /\ UNCHANGED check
     \/ Recover(t, "checked")   \* "the above checked all readers"
  /\ UNCHANGED <<table, process, tls, r, stale>>

\* mutant: no second look at the process
CheckAgainSkipped(t) ==
  /\ pc[t] = "recheck"
  /\ Goto(t, "clear")
  /\ UNCHANGED <<table, rmutex, process, tls, r, check, stale>>

\* "Recheck, a new process may have reused pid"
CheckAgain(t) ==
  LET c == check[t] IN
  /\ pc[t] = "recheck"
  /\ check' = [check EXCEPT ![t].j = IF Alive(c.at) THEN c.rdrs + 1 ELSE @]
  /\ Goto(t, "clear")
  /\ UNCHANGED <<table, rmutex, process, tls, r, stale>>

CheckClear(t) ==
  LET c == check[t] IN
  /\ pc[t] = "clear" /\ c.j <= c.rdrs
  /\ pid' = [pid EXCEPT ![c.j] = IF @ = c.at THEN NoPid ELSE @]
  /\ check' = [check EXCEPT ![t].j = c.j + 1]
  /\ UNCHANGED <<numreaders, rmutex, process, thread, stale>>

CheckCleared(t) ==
  LET c == check[t] IN
  /\ pc[t] = "clear" /\ c.j > c.rdrs
  /\ check' = [check EXCEPT ![t].i = c.i + 1] /\ Goto(t, "read")
  /\ rmutex' = IF c.rlocked THEN rmutex ELSE Free
  /\ UNCHANGED <<table, process, tls, r, stale>>

CheckEnd(t) ==
  LET c == check[t] IN
  /\ pc[t] = "read" /\ c.i > c.rdrs
  /\ Goto(t, c.after)
  /\ rmutex' = IF c.rlocked /\ c.after = "checked" THEN Free ELSE rmutex
  /\ check' = [check EXCEPT ![t] = NoCheck]
  /\ UNCHANGED <<table, process, tls, r, stale>>

\* mdb_reader_check returns
CheckReturn(t) ==
  /\ pc[t] = "checked" /\ Goto(t, "idle")
  /\ stale' = [stale EXCEPT ![t] = {}]
  /\ UNCHANGED <<table, rmutex, process, tls, r, check>>

-----------------------------------------------------------------------------
(* Processes: mdb_env_open, mdb_env_close0, death *)

ThreadsOf(p) == {t \in Threads : Pid[t] = p}
Reset(f, p, v) == [t \in Threads |-> IF Pid[t] = p THEN v ELSE f[t]]

\* the first opener initialises the region, but not the slots
Open(p) ==
  /\ p \notin live /\ live' = live \cup {p}
  /\ \/ live = {} /\ numreaders' = 0 /\ rmutex' = Free
     \/ live # {} /\ UNCHANGED <<numreaders, rmutex>>
  /\ stale' = [t \in Threads |-> stale[t] \ {p}]
  /\ UNCHANGED <<pid, pidlock, live_reader, close_readers, closing, thread, check>>

\* the destructor is disabled first; no thread is inside the library
CloseBegin(p) ==
  /\ p \in live /\ closing[p] = 0
  /\ \A t \in ThreadsOf(p) : pc[t] = "idle"
  /\ tls' = Reset(tls, p, 0)
  /\ closing' = [closing EXCEPT ![p] = close_readers[p] + 1]
  /\ UNCHANGED <<table, rmutex, live, pidlock, live_reader, close_readers, pc, r, check, stale>>

\* then the process clears its slots, without the mutex
CloseSlot(p) ==
  LET s == closing[p] - 1 IN
  /\ s > 0
  /\ pid' = [pid EXCEPT ![s] = IF @ = p THEN NoPid ELSE @]
  /\ closing' = [closing EXCEPT ![p] = s]
  /\ UNCHANGED <<numreaders, rmutex, live, pidlock, live_reader, close_readers, thread, check, stale>>

\* the process is gone, or its MDB_env
Leave(p) ==
  /\ live' = live \ {p} /\ pidlock' = pidlock \ {p}
  /\ live_reader' = [live_reader EXCEPT ![p] = FALSE]
  /\ close_readers' = [close_readers EXCEPT ![p] = 0]
  /\ closing' = [closing EXCEPT ![p] = 0]

\* closing the lock file drops the lock of the id
CloseEnd(p) ==
  /\ closing[p] = 1 /\ Leave(p)
  /\ UNCHANGED <<table, rmutex, thread, check, stale>>

\* the process dies anywhere, its slots stay
Die(p) ==
  /\ p \in live /\ Leave(p)
  /\ rmutex' = IF rmutex \in ThreadsOf(p) THEN OwnerDead ELSE rmutex
  /\ pc' = Reset(pc, p, "idle") /\ tls' = Reset(tls, p, 0) /\ r' = Reset(r, p, 0)
  /\ check' = Reset(check, p, NoCheck) /\ stale' = Reset(stale, p, {})
  /\ UNCHANGED table

-----------------------------------------------------------------------------
ThreadNext(t) ==
  \/ ClaimBegin(t) \/ ClaimLock(t) \/ ClaimFull(t) \/ ClaimReset(t)
  \/ ClaimPublish(t) \/ ClaimOwn(t) \/ ClaimEnd(t)
  \/ ThreadExit(t)
  \/ CheckBegin(t) \/ CheckRead(t) \/ CheckPid(t) \/ CheckLock(t) \/ CheckAgain(t)
  \/ CheckClear(t) \/ CheckCleared(t) \/ CheckEnd(t) \/ CheckReturn(t)

ProcessNext(p) ==
  Open(p) \/ CloseBegin(p) \/ CloseSlot(p) \/ CloseEnd(p) \/ Die(p)

Next == (\E t \in Threads : ThreadNext(t)) \/ (\E p \in Pids : ProcessNext(p))

Spec == Init /\ [][Next]_vars

-----------------------------------------------------------------------------
(* Properties *)

CheckLocals ==
  [rdrs : 0..MaxReaders, i : 0..MaxReaders + 1, j : 0..MaxReaders + 1,
   seen : SUBSET Pids, at : Pids \cup {NoPid},
   rlocked : BOOLEAN, after : {"checked", "claim"}]

TypeOK ==
  /\ pid \in [Slots -> Pids \cup {NoPid}] /\ numreaders \in 0..MaxReaders
  /\ rmutex \in Threads \cup {Free, OwnerDead}
  /\ pidlock \subseteq live /\ live \subseteq Pids
  /\ live_reader \in [Pids -> BOOLEAN]
  /\ close_readers \in [Pids -> 0..MaxReaders]
  /\ closing \in [Pids -> 0..MaxReaders + 1]
  /\ pc \in [Threads -> {"idle", "lock", "claim", "publish", "own", "setspecific",
                         "read", "pidcheck", "checklock", "recheck", "clear", "checked"}]
  /\ tls \in [Threads -> 0..MaxReaders] /\ r \in [Threads -> 0..MaxReaders]
  /\ check \in [Threads -> CheckLocals]
  /\ stale \in [Threads -> SUBSET Pids]

\* the slot thread t believes is its own
Slot(t) == IF pc[t] = "setspecific" THEN r[t] ELSE tls[t]

(***************************************************************************)
(* A thread keeps the slot it claimed until it gives it up itself: no      *)
(* mdb_reader_check, no repair of the mutex and no closing process clears  *)
(* it or hands it to another thread, although all of these run without     *)
(* having seen the claim.  mdb_find_oldest sees the slot, and              *)
(* mdb_env_close of its own process reaches it.                            *)
(***************************************************************************)
HolderKeepsSlot ==
  \A t \in Threads : Slot(t) # 0 =>
    /\ pid[Slot(t)] = Pid[t]
    /\ \A t2 \in Threads \ {t} : Slot(t2) # Slot(t)
    /\ Slot(t) <= numreaders
    /\ Slot(t) <= close_readers[Pid[t]]

(***************************************************************************)
(* When mdb_reader_check returns, no slot is left of a process that was    *)
(* dead when the call began and has not come back.                         *)
(***************************************************************************)
CheckFindsAll ==
  \A t \in Threads : pc[t] = "checked" =>
    \A s \in 1..numreaders : pid[s] \notin stale[t]
-----------------------------------------------------------------------------
(* The inductive invariant: why a holder keeps its slot                    *)

Checking == {"read", "pidcheck", "checklock", "recheck", "clear"}
Claiming(t) ==
  \/ pc[t] \in {"lock", "claim", "publish", "own", "setspecific"}
  \/ pc[t] \in Checking /\ check[t].after = "claim"

\* a thread works on the table with the mutex
MutexInv ==
  \A t \in Threads :
    /\ \/ pc[t] \in {"claim", "publish", "own", "recheck", "clear"}
       \/ pc[t] \in Checking /\ check[t].rlocked
       => rmutex = t
    /\ check[t].after = "claim" => check[t].rlocked
    /\ pc[t] \in {"checklock", "recheck"} => ~check[t].rlocked

\* who has a slot, or is to get one, is in a process that holds its id
ProcessInv ==
  /\ \A t \in Threads :
       /\ pc[t] # "idle" \/ tls[t] # 0 => Pid[t] \in live /\ closing[Pid[t]] = 0
       /\ Claiming(t) => tls[t] = 0
       /\ Claiming(t) \/ tls[t] # 0 => Pid[t] \in pidlock
  /\ \A p \in Pids :
       /\ live_reader[p] <=> p \in pidlock
       /\ close_readers[p] <= numreaders
       /\ p \notin live => closing[p] = 0 /\ close_readers[p] = 0

\* a slot being claimed belongs to nobody
ClaimInv ==
  \A t \in Threads :
    /\ pc[t] \in {"publish", "own"} => r[t] \in Slots /\ pid[r[t]] = NoPid
    /\ pc[t] = "publish" => r[t] <= numreaders + 1
    /\ pc[t] = "own" => r[t] <= numreaders /\ r[t] <= close_readers[Pid[t]]
    /\ pc[t] = "setspecific" => r[t] # 0

\* the process whose slots are cleared owns none: it may have come back, but
\* waits for the mutex
ClearInv ==
  \A t, t2 \in Threads :
    pc[t] = "clear" /\ check[t].j <= check[t].rdrs /\ Slot(t2) # 0 =>
      Pid[t2] # check[t].at

LoopOK(t) ==
  LET c == check[t] IN
  /\ pc[t] \in Checking => 1 <= c.i /\ c.i <= c.rdrs + 1 /\ c.rdrs <= numreaders
  /\ pc[t] \in Checking \ {"read"} =>
       c.i <= c.rdrs /\ c.at \in Pids /\ c.at \in c.seen
  /\ pc[t] \in {"checklock", "recheck"} => c.j = c.i
  /\ pc[t] = "clear" => c.i <= c.j /\ c.j <= c.rdrs + 1

LoopInv == \A t \in Threads : LoopOK(t)

\* slot s is of a stale process: the check of t is still to come to it
ToClear(t, s) ==
  LET c == check[t] IN
  /\ c.i <= s /\ s <= c.rdrs
  /\ pc[t] = "read" => pid[s] \notin c.seen
  /\ pc[t] # "read" => pid[s] = c.at \/ (pid[s] \notin c.seen /\ s # c.i)
  /\ pc[t] = "clear" => pid[s] # c.at \/ c.j <= s

StaleOK(t) ==
  /\ stale[t] \cap live = {}
  /\ pc[t] \in Checking =>
       \A s \in 1..numreaders : pid[s] \in stale[t] => ToClear(t, s)

StaleInv == \A t \in Threads : StaleOK(t)

(***************************************************************************)
(* The table is consistent at every step of claims, checks, repairs and    *)
(* deaths: together with the two properties above this is inductive.       *)
(***************************************************************************)
IInv ==
  /\ TypeOK /\ MutexInv /\ ProcessInv /\ ClaimInv /\ ClearInv /\ LoopInv /\ StaleInv
  /\ HolderKeepsSlot /\ CheckFindsAll
=============================================================================
