------------------------- MODULE ReaderTableProofs --------------------------
(***************************************************************************)
(* The inductive invariant of ReaderTable (IInv) holds of every behaviour, *)
(* for every set of processes and threads, every table size and every      *)
(* bound, and the safety properties of ReaderTable follow from it. There   *)
(* is one lemma for each action; each starts with the effect of the step   *)
(* (step) and then goes through the conjuncts of the invariant.            *)
(***************************************************************************)
EXTENDS ReaderTable, TLAPS, WellFoundedInduction

\* The local variables of a check keep their types.
LEMMA LocalsFields ==
  ASSUME NEW c \in CheckLocals
  PROVE  /\ c.rdrs \in 0..MaxReaders /\ c.i \in 0..MaxReaders + 1
         /\ c.j \in 0..MaxReaders + 1
         /\ c.seen \in SUBSET Pids /\ c.at \in Pids \cup {NoPid}
         /\ c.rlocked \in BOOLEAN /\ c.after \in {"checked", "claim"}
BY DEF CheckLocals

\* Setting one field of a check's locals leaves the other fields alone.
LEMMA LocalsSet ==
  ASSUME NEW c \in CheckLocals, NEW k \in 0..MaxReaders + 1
  PROVE  [c EXCEPT !.i = k] \in CheckLocals /\ [c EXCEPT !.j = k] \in CheckLocals
<1>1. [c EXCEPT !.i = k] \in CheckLocals
  BY DEF CheckLocals
<1>2. [c EXCEPT !.j = k] \in CheckLocals
  BY DEF CheckLocals
<1> QED BY <1>1, <1>2

\* A check that notes a pid in its list has seen one more slot.
LEMMA LocalsSeen ==
  ASSUME NEW c \in CheckLocals, NEW p \in Pids \cup {NoPid}, NEW S \in SUBSET Pids
  PROVE  [c EXCEPT !.at = p, !.seen = S] \in CheckLocals
BY DEF CheckLocals

\* The locals a check starts with.
LEMMA LocalsNew ==
  ASSUME NEW n \in 0..MaxReaders
  PROVE  /\ [rdrs |-> 0, i |-> 0, j |-> 0, seen |-> {}, at |-> NoPid,
          rlocked |-> FALSE, after |-> "checked"] \in CheckLocals
         /\ [rdrs |-> n, i |-> 1, j |-> 0, seen |-> {}, at |-> NoPid,
          rlocked |-> FALSE, after |-> "checked"] \in CheckLocals
         /\ [rdrs |-> n, i |-> 1, j |-> 0, seen |-> {}, at |-> NoPid,
          rlocked |-> TRUE, after |-> "checked"] \in CheckLocals
         /\ [rdrs |-> n, i |-> 1, j |-> 0, seen |-> {}, at |-> NoPid,
          rlocked |-> TRUE, after |-> "claim"] \in CheckLocals
BY ConstantsAssumption DEF CheckLocals

\* A thread outside mdb_reader_check0 holds no local state of it.
LEMMA NoCheckSet ==
  ASSUME NEW n, NEW c, c = [NoCheck EXCEPT !.rdrs = n, !.i = 1]
  PROVE  c = [rdrs |-> n, i |-> 1, j |-> 0, seen |-> {}, at |-> NoPid,
          rlocked |-> FALSE, after |-> "checked"]
BY DEF NoCheck

\* A set of natural numbers has a least element.
LEMMA LeastNat ==
  ASSUME NEW S, S \subseteq Nat, S # {}
  PROVE  \E s \in S : \A s2 \in S : s <= s2
<1> DEFINE R == {ss \in Nat \X Nat : ss[1] < ss[2]}
<1>1. IsWellFoundedOn(R, Nat)
  BY NatLessThanWellFounded DEF OpToRel
<1> HIDE DEF R
<1>2. PICK n \in S : \A m \in S : <<m, n>> \notin R
  BY <1>1, WFMin
<1>3. \A m \in S : ~ (m < n)
  BY <1>2 DEF R
<1> QED BY <1>3

\* The slot a claim takes is the first free one: none below it is free.
LEMMA FirstFreeFact ==
  ASSUME numreaders \in Nat
  PROVE  FirstFree \in 1..numreaders + 1
          /\ (FirstFree <= numreaders => pid[FirstFree] = NoPid)
<1>1. CASE FreeSlots = {}
  BY <1>1 DEF FirstFree
<1>2. CASE FreeSlots # {}
  <2>1. \E s \in FreeSlots : \A s2 \in FreeSlots : s <= s2
    <3>1. FreeSlots \subseteq Nat
      BY DEF FreeSlots
    <3> QED BY <1>2, <3>1, LeastNat
  <2>2. FirstFree \in FreeSlots
    BY <2>1 DEF FirstFree
  <2> QED BY <2>2 DEF FreeSlots
<1> QED BY <1>1, <1>2

\* The process locks its id, and registers as a reader, before its thread waits
\* for the mutex.
LEMMA ClaimBeginInv == ASSUME IInv, NEW t \in Threads, ClaimBegin(t) PROVE IInv'
<1> USE ConstantsAssumption DEF IInv
<1>g.
      /\ numreaders \in 0..MaxReaders /\ pid \in [Slots -> Pids \cup {NoPid}]
      /\ Pid[t] \in Pids
  BY DEF TypeOK
<1>step.
      /\ Runs(t) /\ pc[t] = "idle" /\ tls[t] = 0
      /\ pid' = pid /\ numreaders' = numreaders /\ rmutex' = rmutex /\ live' = live
      /\ pidlock' = pidlock \cup (IF live_reader[Pid[t]] THEN {} ELSE {Pid[t]})
      /\ live_reader' = [live_reader EXCEPT ![Pid[t]] = TRUE]
      /\ close_readers' = close_readers /\ closing' = closing
      /\ pc' = [pc EXCEPT ![t] = "lock"]
      /\ tls' = tls /\ r' = r /\ stale' = stale /\ check' = check
  BY DEF ClaimBegin, Goto, table
<1>1. TypeOK'
  BY <1>step, <1>g DEF TypeOK, Runs
<1>2. MutexInv'
  BY <1>step DEF MutexInv, Checking, TypeOK
<1>3. ProcessInv'
  BY <1>step, <1>g DEF ProcessInv, MutexInv, TypeOK, Claiming, Checking, Runs
<1>4. ClaimInv'
  BY <1>step DEF ClaimInv, MutexInv, TypeOK
<1>5. ClearInv'
  BY <1>step DEF ClearInv, MutexInv, Slot
<1>6. LoopInv'
  BY <1>step DEF LoopInv, LoopOK, Checking
<1>7. StaleInv'
  <2> SUFFICES ASSUME NEW x \in Threads PROVE StaleOK(x)'
    BY DEF StaleInv
  <2>s. \A s \in 1..numreaders : s \in Slots
    BY <1>g DEF Slots
  <2>n. NoPid \notin stale[x] /\ StaleOK(x)
    BY DEF TypeOK, StaleInv
  <2>1. CASE x # t
    BY <2>1, <1>step, <2>n, <2>s DEF StaleOK, ToClear
  <2>2. CASE x = t
    BY <1>step, <2>n, <2>s, <1>g DEF StaleOK, ToClear, Checking, LoopInv, LoopOK
  <2> QED BY <2>1, <2>2
<1>8. HolderKeepsSlot'
  BY <1>step, <1>g DEF HolderKeepsSlot, Slots, Slot, TypeOK, ProcessInv
<1>9. CheckFindsAll'
  BY <1>step, <1>g DEF CheckFindsAll, TypeOK, Slots
<1> QED BY <1>1, <1>2, <1>3, <1>4, <1>5, <1>6, <1>7, <1>8, <1>9

\* The mutex is taken, or taken over from a dead owner: then a check starts.
LEMMA ClaimLockInv == ASSUME IInv, NEW t \in Threads, ClaimLock(t) PROVE IInv'
<1> USE ConstantsAssumption DEF IInv
<1>g.
      /\ numreaders \in 0..MaxReaders /\ pid \in [Slots -> Pids \cup {NoPid}]
      /\ Pid[t] \in Pids
  BY DEF TypeOK
<1>t. check[t] \in CheckLocals /\ check \in [Threads -> CheckLocals]
  BY DEF TypeOK
<1>f. /\ check[t].rdrs \in 0..MaxReaders /\ check[t].i \in 0..MaxReaders + 1
      /\ check[t].j \in 0..MaxReaders + 1
      /\ check[t].seen \in SUBSET Pids /\ check[t].at \in Pids \cup {NoPid}
      /\ check[t].rlocked \in BOOLEAN
      /\ check[t].after \in {"checked", "claim"}
  BY <1>t, LocalsFields
<1>1. CASE rmutex = Free /\ rmutex' = t /\ Goto(t, "claim") /\ UNCHANGED check
  <2>step.
        /\ pc[t] = "lock"
        /\ rmutex = Free
        /\ pid' = pid /\ numreaders' = numreaders
        /\ rmutex' = t
        /\ live' = live /\ pidlock' = pidlock /\ live_reader' = live_reader
        /\ close_readers' = close_readers /\ closing' = closing
        /\ pc' = [pc EXCEPT ![t] = "claim"]
        /\ tls' = tls /\ r' = r /\ stale' = stale /\ check' = check
    BY <1>1 DEF ClaimLock, Goto, table, process
  <2>1. TypeOK'
    BY <2>step DEF TypeOK
  <2>2. MutexInv'
    BY <2>step DEF MutexInv, Checking, TypeOK
  <2>3. ProcessInv'
    BY <2>step DEF ProcessInv, MutexInv, TypeOK, Claiming, Checking
  <2>4. ClaimInv'
    BY <2>step DEF ClaimInv, MutexInv, TypeOK
  <2>5. ClearInv'
    BY <2>step DEF ClearInv, MutexInv, Slot
  <2>6. LoopInv'
    BY <2>step DEF LoopInv, LoopOK, Checking
  <2>7. StaleInv'
    <3> SUFFICES ASSUME NEW x \in Threads PROVE StaleOK(x)'
      BY DEF StaleInv
    <3>s. \A s \in 1..numreaders : s \in Slots
      BY <1>g DEF Slots
    <3>n. NoPid \notin stale[x] /\ StaleOK(x)
      BY DEF TypeOK, StaleInv
    <3>1. CASE x # t
      BY <3>1, <2>step, <3>n, <3>s DEF StaleOK, ToClear
    <3>2. CASE x = t
      BY <2>step, <3>n, <3>s, <1>g DEF StaleOK, ToClear, Checking, LoopInv, LoopOK
    <3> QED BY <3>1, <3>2
  <2>8. HolderKeepsSlot'
    BY <2>step, <1>g DEF HolderKeepsSlot, Slots, Slot, TypeOK, ProcessInv
  <2>9. CheckFindsAll'
    BY <2>step, <1>g DEF CheckFindsAll, TypeOK, Slots
  <2> QED BY <2>1, <2>2, <2>3, <2>4, <2>5, <2>6, <2>7, <2>8, <2>9
<1>2. CASE Recover(t, "claim")
  <2>step.
        /\ pc[t] = "lock"
        /\ rmutex = OwnerDead
        /\ pid' = pid /\ numreaders' = numreaders
        /\ rmutex' = t
        /\ live' = live /\ pidlock' = pidlock /\ live_reader' = live_reader
        /\ close_readers' = close_readers /\ closing' = closing
        /\ pc' = [pc EXCEPT ![t] = "read"]
        /\ tls' = tls /\ r' = r /\ stale' = stale
    BY <1>2 DEF ClaimLock, Goto, Recover, NoCheck, table, process
  <2>c. check' = [check EXCEPT ![t] = [rdrs |-> numreaders, i |-> 1, j |-> 0,
          seen |-> {}, at |-> NoPid, rlocked |-> TRUE, after |-> "claim"]]
    BY <1>2 DEF ClaimLock, Goto, Recover, NoCheck, table, process
  <2>y. [rdrs |-> numreaders, i |-> 1, j |-> 0, seen |-> {}, at |-> NoPid,
          rlocked |-> TRUE, after |-> "claim"] \in CheckLocals
    BY <1>g, LocalsNew
  <2>d. /\ \A x \in Threads : x # t => check'[x] = check[x]
        /\ check'[t].rdrs = numreaders
        /\ check'[t].i = 1
        /\ check'[t].j = 0
        /\ check'[t].seen = {}
        /\ check'[t].at = NoPid
        /\ check'[t].rlocked = TRUE
        /\ check'[t].after = "claim"
    BY <2>c DEF TypeOK
  <2>z. check' \in [Threads -> CheckLocals]
    BY <2>c, <2>y DEF TypeOK
  <2>1. TypeOK'
    BY <2>z, <2>step, <2>d DEF TypeOK
  <2>2. MutexInv'
    BY <2>step, <2>d DEF MutexInv, Checking, TypeOK
  <2>3. ProcessInv'
    BY <2>step, <2>d DEF ProcessInv, MutexInv, TypeOK, Claiming, Checking
  <2>4. ClaimInv'
    BY <2>step, <2>d DEF ClaimInv, MutexInv, TypeOK
  <2>5. ClearInv'
    BY <2>step, <2>d DEF ClearInv, MutexInv, Slot
  <2>6. LoopInv'
    <3> SUFFICES ASSUME NEW x \in Threads PROVE LoopOK(x)'
      BY DEF LoopInv
    <3>1. CASE x # t
      BY <2>step, <2>d, <1>g DEF LoopInv, LoopOK, TypeOK
    <3>2. CASE x = t
      BY <2>step, <2>d, <1>f, <1>g DEF LoopInv, LoopOK, Checking
    <3> QED BY <3>1, <3>2
  <2>7. StaleInv'
    <3> SUFFICES ASSUME NEW x \in Threads PROVE StaleOK(x)'
      BY DEF StaleInv
    <3>n. StaleOK(x) /\ NoPid \notin stale[x] /\ NoPid \notin Pids
      BY DEF StaleInv, TypeOK
    <3>1. CASE x # t
      BY <2>step, <2>d, <3>n DEF StaleOK, ToClear, TypeOK
    <3>2. CASE x = t
      BY <2>step, <2>d, <3>n, <1>g DEF StaleOK, ToClear, TypeOK
    <3> QED BY <3>1, <3>2
  <2>8. HolderKeepsSlot'
    BY <2>step, <2>d, <1>g DEF HolderKeepsSlot, Slots, Slot, TypeOK, ProcessInv
  <2>9. CheckFindsAll'
    BY <2>step, <2>d, <1>g DEF CheckFindsAll, TypeOK, Slots
  <2> QED BY <2>1, <2>2, <2>3, <2>4, <2>5, <2>6, <2>7, <2>8, <2>9
<1> QED BY <1>1, <1>2 DEF ClaimLock

\* MDB_READERS_FULL gives the mutex back.
LEMMA ClaimFullInv == ASSUME IInv, NEW t \in Threads, ClaimFull(t) PROVE IInv'
<1> USE ConstantsAssumption DEF IInv
<1>g.
      /\ numreaders \in 0..MaxReaders /\ pid \in [Slots -> Pids \cup {NoPid}]
      /\ Pid[t] \in Pids
  BY DEF TypeOK
<1>step.
      /\ pc[t] = "claim"
      /\ pid' = pid /\ numreaders' = numreaders
      /\ rmutex' = Free
      /\ live' = live /\ pidlock' = pidlock /\ live_reader' = live_reader
      /\ close_readers' = close_readers /\ closing' = closing
      /\ pc' = [pc EXCEPT ![t] = "idle"]
      /\ tls' = tls /\ r' = r /\ stale' = stale /\ check' = check
  BY DEF ClaimFull, Goto, table, process
<1>1. TypeOK'
  BY <1>step DEF TypeOK
<1>2. MutexInv'
  BY <1>step DEF MutexInv, Checking, TypeOK
<1>3. ProcessInv'
  BY <1>step DEF ProcessInv, MutexInv, TypeOK, Claiming, Checking
<1>4. ClaimInv'
  BY <1>step DEF ClaimInv, MutexInv, TypeOK
<1>5. ClearInv'
  BY <1>step DEF ClearInv, MutexInv, Slot
<1>6. LoopInv'
  BY <1>step DEF LoopInv, LoopOK, Checking
<1>7. StaleInv'
  <2> SUFFICES ASSUME NEW x \in Threads PROVE StaleOK(x)'
    BY DEF StaleInv
  <2>s. \A s \in 1..numreaders : s \in Slots
    BY <1>g DEF Slots
  <2>n. NoPid \notin stale[x] /\ StaleOK(x)
    BY DEF TypeOK, StaleInv
  <2>1. CASE x # t
    BY <2>1, <1>step, <2>n, <2>s DEF StaleOK, ToClear
  <2>2. CASE x = t
    BY <1>step, <2>n, <2>s, <1>g DEF StaleOK, ToClear, Checking, LoopInv, LoopOK
  <2> QED BY <2>1, <2>2
<1>8. HolderKeepsSlot'
  BY <1>step, <1>g DEF HolderKeepsSlot, Slots, Slot, TypeOK, ProcessInv
<1>9. CheckFindsAll'
  BY <1>step, <1>g DEF CheckFindsAll, TypeOK, Slots
<1> QED BY <1>1, <1>2, <1>3, <1>4, <1>5, <1>6, <1>7, <1>8, <1>9

\* The first free slot, or the one after mti_numreaders, belongs to nobody.
LEMMA ClaimResetInv == ASSUME IInv, NEW t \in Threads, ClaimReset(t) PROVE IInv'
<1> USE ConstantsAssumption DEF IInv
<1>g.
      /\ numreaders \in 0..MaxReaders /\ pid \in [Slots -> Pids \cup {NoPid}]
      /\ Pid[t] \in Pids
  BY DEF TypeOK
<1>k.
      /\ FirstFree \in 1..numreaders + 1
      /\ (FirstFree <= numreaders => pid[FirstFree] = NoPid)
  BY <1>g, FirstFreeFact
<1>step.
      /\ pc[t] = "claim" /\ FirstFree \in 1..numreaders + 1
      /\ FirstFree <= MaxReaders
      /\ pid' = [pid EXCEPT ![FirstFree] = NoPid]
      /\ numreaders' = numreaders /\ rmutex' = rmutex /\ live' = live
      /\ pidlock' = pidlock /\ live_reader' = live_reader
      /\ close_readers' = close_readers /\ closing' = closing
      /\ pc' = [pc EXCEPT ![t] = "publish"]
      /\ tls' = tls
      /\ r' = [r EXCEPT ![t] = FirstFree]
      /\ stale' = stale /\ check' = check
  BY <1>k DEF ClaimReset, Goto, process
<1>p. /\ pid' \in [Slots -> Pids \cup {NoPid}] /\ r' \in [Threads -> 0..MaxReaders]
      /\ FirstFree \in Slots /\ pid'[FirstFree] = NoPid
      /\ \A s \in 1..numreaders : pid'[s] = pid[s]
      /\ \A s \in Slots : pid'[s] = pid[s] \/ pid'[s] = NoPid
  BY <1>step, <1>k, <1>g DEF Slots, TypeOK
<1>1. TypeOK'
  BY <1>step, <1>p DEF TypeOK
<1>2. MutexInv'
  BY <1>step, <1>p DEF MutexInv, Checking, TypeOK
<1>3. ProcessInv'
  BY <1>step, <1>p DEF ProcessInv, MutexInv, TypeOK, Claiming, Checking
<1>4. ClaimInv'
  BY <1>step, <1>p DEF ClaimInv, MutexInv, TypeOK
<1>5. ClearInv'
  BY <1>step, <1>p DEF ClearInv, MutexInv, Slot
<1>6. LoopInv'
  BY <1>step, <1>p DEF LoopInv, LoopOK, Checking
<1>7. StaleInv'
  <2> SUFFICES ASSUME NEW x \in Threads PROVE StaleOK(x)'
    BY DEF StaleInv
  <2>s. \A s \in 1..numreaders : s \in Slots
    BY <1>g DEF Slots
  <2>n. NoPid \notin stale[x] /\ StaleOK(x)
    BY DEF TypeOK, StaleInv
  <2>1. CASE x # t
    BY <2>1, <1>step, <1>p, <2>n, <2>s DEF StaleOK, ToClear
  <2>2. CASE x = t
    BY <1>step, <1>p, <2>n, <2>s, <1>g
       DEF StaleOK, ToClear, Checking, LoopInv, LoopOK
  <2> QED BY <2>1, <2>2
<1>8. HolderKeepsSlot'
  <2>1. \A x \in Threads : Slot(x)' = Slot(x)
    BY <1>step DEF Slot, TypeOK
  <2>2. \A x \in Threads : Slot(x) # 0 => Slot(x) \in 1..numreaders
    BY <1>g DEF HolderKeepsSlot, Slot, Slots, TypeOK
  <2>3. \A x \in Threads : Slot(x) # 0 => pid'[Slot(x)] = pid[Slot(x)]
    BY <1>p, <2>2
  <2> QED BY <1>step, <2>1, <2>3 DEF HolderKeepsSlot
<1>9. CheckFindsAll'
  BY <1>step, <1>p, <1>g DEF CheckFindsAll, TypeOK, Slots
<1> QED BY <1>1, <1>2, <1>3, <1>4, <1>5, <1>6, <1>7, <1>8, <1>9

\* mti_numreaders grows by one slot at most, and that slot is empty.
LEMMA ClaimPublishInv == ASSUME IInv, NEW t \in Threads, ClaimPublish(t) PROVE IInv'
<1> USE ConstantsAssumption DEF IInv
<1>g.
      /\ numreaders \in 0..MaxReaders /\ pid \in [Slots -> Pids \cup {NoPid}]
      /\ Pid[t] \in Pids
  BY DEF TypeOK
<1>step.
      /\ pc[t] = "publish"
      /\ pid' = pid
      /\ numreaders' = (IF r[t] > numreaders THEN r[t] ELSE numreaders)
      /\ rmutex' = rmutex /\ live' = live /\ pidlock' = pidlock
      /\ live_reader' = live_reader
      /\ close_readers' = [close_readers EXCEPT ![Pid[t]] = numreaders']
      /\ closing' = closing
      /\ pc' = [pc EXCEPT ![t] = "own"]
      /\ tls' = tls /\ r' = r /\ stale' = stale /\ check' = check
  BY DEF ClaimPublish, Goto
<1>k. /\ r[t] \in Slots /\ r[t] <= numreaders + 1 /\ pid[r[t]] = NoPid /\ rmutex = t
  BY <1>step DEF ClaimInv, MutexInv
<1>n. /\ numreaders' \in 0..MaxReaders /\ numreaders <= numreaders'
      /\ r[t] <= numreaders'
      /\ \A s \in 1..numreaders' : s \in 1..numreaders \/ pid[s] = NoPid
  BY <1>step, <1>k, <1>g DEF Slots
<1>q. \A x \in Threads : IF x = t THEN pc'[x] = "own" ELSE pc'[x] = pc[x]
  BY <1>step DEF TypeOK
<1>1. TypeOK'
  BY <1>step, <1>k, <1>n, <1>q DEF TypeOK
<1>2. MutexInv'
  BY <1>step, <1>k, <1>n, <1>q DEF MutexInv, Checking, TypeOK
<1>3. ProcessInv'
  BY <1>step, <1>k, <1>n, <1>q DEF ProcessInv, MutexInv, TypeOK, Claiming, Checking
<1>4. ClaimInv'
  BY <1>step, <1>k, <1>n, <1>q DEF ClaimInv, MutexInv, TypeOK
<1>5. ClearInv'
  BY <1>k, <1>n, <1>q DEF ClearInv, MutexInv, Slot
<1>6. LoopInv'
  <2> SUFFICES ASSUME NEW x \in Threads PROVE LoopOK(x)'
    BY DEF LoopInv
  <2>1. LoopOK(x) /\ check[x] \in CheckLocals
    BY DEF LoopInv, TypeOK
  <2>2. check[x].rdrs \in 0..MaxReaders
    BY <2>1, LocalsFields
  <2> QED BY <2>1, <2>2, <1>step, <1>n, <1>q, <1>g DEF LoopOK, Checking
<1>7. StaleInv'
  <2> SUFFICES ASSUME NEW x \in Threads PROVE StaleOK(x)'
    BY DEF StaleInv
  <2>s. \A s \in 1..numreaders : s \in Slots
    BY <1>g DEF Slots
  <2>n. NoPid \notin stale[x] /\ StaleOK(x)
    BY DEF TypeOK, StaleInv
  <2>1. CASE x # t
    BY <2>1, <1>step, <1>k, <1>n, <1>q, <2>n, <2>s DEF StaleOK, ToClear
  <2>2. CASE x = t
    BY <1>step, <1>k, <1>n, <1>q, <2>n, <2>s, <1>g
       DEF StaleOK, ToClear, Checking, LoopInv, LoopOK
  <2> QED BY <2>1, <2>2
<1>8. HolderKeepsSlot'
  BY <1>step, <1>k, <1>n, <1>q, <1>g
     DEF HolderKeepsSlot, Slots, Slot, TypeOK, ProcessInv
<1>9. CheckFindsAll'
  BY <1>step, <1>k, <1>n, <1>q, <1>g DEF CheckFindsAll, TypeOK, Slots
<1> QED BY <1>1, <1>2, <1>3, <1>4, <1>5, <1>6, <1>7, <1>8, <1>9

\* The slot gets its owner while the mutex keeps everybody else from it.
LEMMA ClaimOwnInv == ASSUME IInv, NEW t \in Threads, ClaimOwn(t) PROVE IInv'
<1> USE ConstantsAssumption DEF IInv
<1>g.
      /\ numreaders \in 0..MaxReaders /\ pid \in [Slots -> Pids \cup {NoPid}]
      /\ Pid[t] \in Pids
  BY DEF TypeOK
<1>step.
      /\ pc[t] = "own"
      /\ pid' = [pid EXCEPT ![r[t]] = Pid[t]]
      /\ numreaders' = numreaders
      /\ rmutex' = Free
      /\ live' = live /\ pidlock' = pidlock /\ live_reader' = live_reader
      /\ close_readers' = close_readers /\ closing' = closing
      /\ pc' = [pc EXCEPT ![t] = "setspecific"]
      /\ tls' = tls /\ r' = r /\ stale' = stale /\ check' = check
  BY DEF ClaimOwn, Goto, process
<1>k.
      /\ r[t] \in Slots /\ r[t] <= numreaders /\ r[t] <= close_readers[Pid[t]]
      /\ pid[r[t]] = NoPid /\ rmutex = t
  BY <1>step DEF ClaimInv, MutexInv
<1>l. Pid[t] \in live /\ Pid[t] \in pidlock /\ tls[t] = 0
  BY <1>step DEF ProcessInv, Claiming
<1>q. \A x \in Threads : IF x = t THEN pc'[x] = "setspecific" ELSE pc'[x] = pc[x]
  BY <1>step DEF TypeOK
<1>p. \A s \in Slots : pid'[s] = IF s = r[t] THEN Pid[t] ELSE pid[s]
  BY <1>step, <1>g
<1>o. \A x \in Threads : pc[x] \in {"publish", "own"} => x = t
  BY <1>k DEF MutexInv
<1>v. \A x \in Threads : Pid[t] \notin stale[x]
  BY <1>l DEF StaleInv, StaleOK
<1>1. TypeOK'
  BY <1>step, <1>k, <1>l, <1>q, <1>p, <1>o, <1>v DEF TypeOK
<1>2. MutexInv'
  BY <1>step, <1>k, <1>l, <1>q, <1>p, <1>o, <1>v DEF MutexInv, Checking, TypeOK
<1>3. ProcessInv'
  BY <1>step, <1>k, <1>l, <1>q, <1>p, <1>o, <1>v
     DEF ProcessInv, MutexInv, TypeOK, Claiming, Checking
<1>4. ClaimInv'
  BY <1>step, <1>k, <1>q, <1>o, <1>g DEF ClaimInv, Slots
<1>5. ClearInv'
  BY <1>k, <1>l, <1>q, <1>p, <1>o, <1>v DEF ClearInv, MutexInv, Slot
<1>6. LoopInv'
  BY <1>step, <1>k, <1>l, <1>q, <1>p, <1>o, <1>v DEF LoopInv, LoopOK, Checking
<1>7. StaleInv'
  <2> SUFFICES ASSUME NEW x \in Threads PROVE StaleOK(x)'
    BY DEF StaleInv
  <2>s. \A s \in 1..numreaders : s \in Slots
    BY <1>g DEF Slots
  <2>n. NoPid \notin stale[x] /\ StaleOK(x)
    BY DEF TypeOK, StaleInv
  <2>1. CASE x # t
    BY <2>1, <1>step, <1>k, <1>l, <1>q, <1>p, <1>o, <1>v, <2>n, <2>s
       DEF StaleOK, ToClear
  <2>2. CASE x = t
    BY <1>step, <1>k, <1>l, <1>q, <1>p, <1>o, <1>v, <2>n, <2>s, <1>g
       DEF StaleOK, ToClear, Checking, LoopInv, LoopOK
  <2> QED BY <2>1, <2>2
<1>8. HolderKeepsSlot'
  BY <1>step, <1>k, <1>l, <1>q, <1>p, <1>o, <1>v, <1>g
     DEF HolderKeepsSlot, Slots, Slot, TypeOK, ProcessInv
<1>9. CheckFindsAll'
  BY <1>step, <1>p, <1>q, <1>v, <1>g DEF CheckFindsAll, Slots
<1> QED BY <1>1, <1>2, <1>3, <1>4, <1>5, <1>6, <1>7, <1>8, <1>9

\* The thread remembers its slot, or gives it up at once.
LEMMA ClaimEndInv == ASSUME IInv, NEW t \in Threads, ClaimEnd(t) PROVE IInv'
<1> USE ConstantsAssumption DEF IInv
<1>g.
      /\ numreaders \in 0..MaxReaders /\ pid \in [Slots -> Pids \cup {NoPid}]
      /\ Pid[t] \in Pids
  BY DEF TypeOK
<1>1. CASE tls' = [tls EXCEPT ![t] = r[t]] /\ UNCHANGED pid
  <2>step.
        /\ pc[t] = "setspecific"
        /\ pid' = pid /\ numreaders' = numreaders /\ rmutex' = rmutex
        /\ live' = live /\ pidlock' = pidlock /\ live_reader' = live_reader
        /\ close_readers' = close_readers /\ closing' = closing
        /\ pc' = [pc EXCEPT ![t] = "idle"]
        /\ tls' = [tls EXCEPT ![t] = r[t]]
        /\ r' = [r EXCEPT ![t] = 0]
        /\ stale' = stale /\ check' = check
    BY <1>1 DEF ClaimEnd, Goto, process
  <2>k. /\ r[t] \in Slots /\ tls[t] = 0
    BY <2>step DEF ClaimInv, ProcessInv, Claiming, TypeOK, Slots
  <2>q. \A x \in Threads : IF x = t THEN pc'[x] = "idle" /\ r'[x] = 0
          ELSE pc'[x] = pc[x] /\ r'[x] = r[x]
    BY <2>step DEF TypeOK
  <2>s. \A x \in Threads : Slot(x)' = Slot(x)
    BY <2>step, <2>q, <2>k DEF Slot, TypeOK
  <2>1. TypeOK'
    BY <2>step, <2>k, <2>q, <2>s DEF TypeOK
  <2>2. MutexInv'
    BY <2>step, <2>k, <2>q, <2>s DEF MutexInv, Checking, TypeOK
  <2>3. ProcessInv'
    BY <2>step, <2>k, <2>q, <2>s
       DEF ProcessInv, MutexInv, TypeOK, Claiming, Checking
  <2>4. ClaimInv'
    BY <2>step, <2>k, <2>q, <2>s DEF ClaimInv, MutexInv, TypeOK
  <2>5. ClearInv'
    BY <2>step, <2>k, <2>q, <2>s DEF ClearInv, MutexInv
  <2>6. LoopInv'
    BY <2>step, <2>k, <2>q, <2>s DEF LoopInv, LoopOK, Checking
  <2>7. StaleInv'
    <3> SUFFICES ASSUME NEW x \in Threads PROVE StaleOK(x)'
      BY DEF StaleInv
    <3>s. \A s \in 1..numreaders : s \in Slots
      BY <1>g DEF Slots
    <3>n. NoPid \notin stale[x] /\ StaleOK(x)
      BY DEF TypeOK, StaleInv
    <3>1. CASE x # t
      BY <3>1, <2>step, <2>k, <2>q, <2>s, <3>n, <3>s DEF StaleOK, ToClear
    <3>2. CASE x = t
      BY <2>step, <2>k, <2>q, <2>s, <3>n, <3>s, <1>g
         DEF StaleOK, ToClear, Checking, LoopInv, LoopOK
    <3> QED BY <3>1, <3>2
  <2>8. HolderKeepsSlot'
    BY <2>step, <2>k, <2>q, <2>s DEF HolderKeepsSlot
  <2>9. CheckFindsAll'
    BY <2>step, <2>k, <2>q, <2>s, <1>g DEF CheckFindsAll, TypeOK, Slots
  <2> QED BY <2>1, <2>2, <2>3, <2>4, <2>5, <2>6, <2>7, <2>8, <2>9
<1>2. CASE pid' = [pid EXCEPT ![r[t]] = NoPid] /\ UNCHANGED tls
  <2>step.
        /\ pc[t] = "setspecific"
        /\ pid' = [pid EXCEPT ![r[t]] = NoPid]
        /\ numreaders' = numreaders /\ rmutex' = rmutex /\ live' = live
        /\ pidlock' = pidlock /\ live_reader' = live_reader
        /\ close_readers' = close_readers /\ closing' = closing
        /\ pc' = [pc EXCEPT ![t] = "idle"]
        /\ tls' = tls
        /\ r' = [r EXCEPT ![t] = 0]
        /\ stale' = stale /\ check' = check
    BY <1>2 DEF ClaimEnd, Goto, process
  <2>k. /\ r[t] \in Slots /\ tls[t] = 0
    BY <2>step DEF ClaimInv, ProcessInv, Claiming, TypeOK, Slots
  <2>q. \A x \in Threads : IF x = t THEN pc'[x] = "idle" /\ r'[x] = 0
          ELSE pc'[x] = pc[x] /\ r'[x] = r[x]
    BY <2>step DEF TypeOK
  <2>s. \A x \in Threads : Slot(x)' = IF x = t THEN 0 ELSE Slot(x)
    BY <2>step, <2>q, <2>k DEF Slot, TypeOK
  <2>p. \A s \in Slots : pid'[s] = IF s = r[t] THEN NoPid ELSE pid[s]
    BY <2>step, <1>g
  <2>u. Slot(t) = r[t] /\ \A x \in Threads : Slot(x) \in Slots \cup {0}
    BY <2>step, <2>k DEF Slot, Slots, TypeOK
  <2>1. TypeOK'
    BY <2>step, <2>k, <2>q, <2>s, <2>p, <2>u, <1>g DEF TypeOK
  <2>2. MutexInv'
    BY <2>step, <2>k, <2>q, <2>s, <2>p, <2>u DEF MutexInv, Checking, TypeOK
  <2>3. ProcessInv'
    BY <2>step, <2>k, <2>q, <2>s, <2>p, <2>u
       DEF ProcessInv, MutexInv, TypeOK, Claiming, Checking
  <2>4. ClaimInv'
    BY <2>step, <2>k, <2>q, <2>s, <2>p, <2>u DEF ClaimInv, MutexInv, TypeOK
  <2>5. ClearInv'
    BY <2>step, <2>k, <2>q, <2>s, <2>p, <2>u DEF ClearInv, MutexInv
  <2>6. LoopInv'
    BY <2>step, <2>k, <2>q, <2>s, <2>p, <2>u DEF LoopInv, LoopOK, Checking
  <2>7. StaleInv'
    <3> SUFFICES ASSUME NEW x \in Threads PROVE StaleOK(x)'
      BY DEF StaleInv
    <3>s. \A s \in 1..numreaders : s \in Slots
      BY <1>g DEF Slots
    <3>n. NoPid \notin stale[x] /\ StaleOK(x)
      BY DEF TypeOK, StaleInv
    <3>1. CASE x # t
      BY <3>1, <2>step, <2>k, <2>q, <2>s, <2>p, <2>u, <3>n, <3>s
         DEF StaleOK, ToClear
    <3>2. CASE x = t
      BY <2>step, <2>k, <2>q, <2>s, <2>p, <2>u, <3>n, <3>s, <1>g
         DEF StaleOK, ToClear, Checking, LoopInv, LoopOK
    <3> QED BY <3>1, <3>2
  <2>8. HolderKeepsSlot'
    BY <2>step, <2>k, <2>q, <2>s, <2>p, <2>u, <1>g DEF HolderKeepsSlot
  <2>9. CheckFindsAll'
    BY <2>step, <2>k, <2>q, <2>s, <2>p, <2>u, <1>g DEF CheckFindsAll, TypeOK, Slots
  <2> QED BY <2>1, <2>2, <2>3, <2>4, <2>5, <2>6, <2>7, <2>8, <2>9
<1> QED BY <1>1, <1>2 DEF ClaimEnd

\* The destructor gives up the thread's slot.
LEMMA ThreadExitInv == ASSUME IInv, NEW t \in Threads, ThreadExit(t) PROVE IInv'
<1> USE ConstantsAssumption DEF IInv
<1>g.
      /\ numreaders \in 0..MaxReaders /\ pid \in [Slots -> Pids \cup {NoPid}]
      /\ Pid[t] \in Pids
  BY DEF TypeOK
<1>step.
      /\ Runs(t) /\ pc[t] = "idle" /\ tls[t] # 0
      /\ pid' = [pid EXCEPT ![tls[t]] = IF @ = Pid[t] THEN NoPid ELSE @]
      /\ numreaders' = numreaders /\ rmutex' = rmutex /\ live' = live
      /\ pidlock' = pidlock /\ live_reader' = live_reader
      /\ close_readers' = close_readers /\ closing' = closing /\ pc' = pc
      /\ tls' = [tls EXCEPT ![t] = 0]
      /\ r' = r /\ stale' = stale /\ check' = check
  BY DEF ThreadExit, process
<1>p. pid' \in [Slots -> Pids \cup {NoPid}]
  BY <1>step, <1>g
<1>1. TypeOK'
  BY <1>step, <1>p DEF TypeOK
<1>2. MutexInv'
  BY <1>step, <1>p DEF MutexInv, Checking, TypeOK
<1>3. ProcessInv'
  BY <1>step, <1>p DEF ProcessInv, MutexInv, TypeOK, Claiming, Checking
<1>4. ClaimInv'
  BY <1>step, <1>p DEF ClaimInv, MutexInv, TypeOK
<1>5. ClearInv'
  BY <1>step, <1>p DEF ClearInv, MutexInv, Slot
<1>6. LoopInv'
  BY <1>step, <1>p DEF LoopInv, LoopOK, Checking
<1>7. StaleInv'
  <2> SUFFICES ASSUME NEW x \in Threads PROVE StaleOK(x)'
    BY DEF StaleInv
  <2>s. \A s \in 1..numreaders : s \in Slots
    BY <1>g DEF Slots
  <2>n. NoPid \notin stale[x] /\ StaleOK(x)
    BY DEF TypeOK, StaleInv
  <2>1. CASE x # t
    BY <1>step, <1>p, <2>n, <2>s DEF StaleOK, ToClear
  <2>2. CASE x = t
    BY <1>step, <1>p, <2>n, <2>s, <1>g
       DEF StaleOK, ToClear, Checking, LoopInv, LoopOK
  <2> QED BY <2>1, <2>2
<1>8. HolderKeepsSlot'
  BY <1>step, <1>p, <1>g DEF HolderKeepsSlot, Slots, Slot, TypeOK, ProcessInv
<1>9. CheckFindsAll'
  BY <1>step, <1>p, <1>g DEF CheckFindsAll, TypeOK, Slots
<1> QED BY <1>1, <1>2, <1>3, <1>4, <1>5, <1>6, <1>7, <1>8, <1>9

\* Nothing is seen yet, and every stale slot lies before rdrs.
LEMMA CheckBeginInv == ASSUME IInv, NEW t \in Threads, CheckBegin(t) PROVE IInv'
<1> USE ConstantsAssumption DEF IInv
<1>g.
      /\ numreaders \in 0..MaxReaders /\ pid \in [Slots -> Pids \cup {NoPid}]
      /\ Pid[t] \in Pids
  BY DEF TypeOK
<1>t. check[t] \in CheckLocals /\ check \in [Threads -> CheckLocals]
  BY DEF TypeOK
<1>f. /\ check[t].rdrs \in 0..MaxReaders /\ check[t].i \in 0..MaxReaders + 1
      /\ check[t].j \in 0..MaxReaders + 1
      /\ check[t].seen \in SUBSET Pids /\ check[t].at \in Pids \cup {NoPid}
      /\ check[t].rlocked \in BOOLEAN
      /\ check[t].after \in {"checked", "claim"}
  BY <1>t, LocalsFields
<1>step.
      /\ Runs(t) /\ pc[t] = "idle"
      /\ pid' = pid /\ numreaders' = numreaders /\ rmutex' = rmutex /\ live' = live
      /\ pidlock' = pidlock /\ live_reader' = live_reader
      /\ close_readers' = close_readers /\ closing' = closing
      /\ pc' = [pc EXCEPT ![t] = "read"]
      /\ tls' = tls /\ r' = r
      /\ stale' = [stale EXCEPT ![t] = Pids \ (live \cup {Pid[t]})]
  BY DEF CheckBegin, Goto, NoCheck, table, process
<1>c. check' = [check EXCEPT ![t] = [rdrs |-> numreaders, i |-> 1, j |-> 0,
        seen |-> {}, at |-> NoPid, rlocked |-> FALSE, after |-> "checked"]]
  BY NoCheckSet DEF CheckBegin, Goto, table, process
<1>y. [rdrs |-> numreaders, i |-> 1, j |-> 0, seen |-> {}, at |-> NoPid,
        rlocked |-> FALSE, after |-> "checked"] \in CheckLocals
  BY <1>g, LocalsNew
<1>d. /\ \A x \in Threads : x # t => check'[x] = check[x]
      /\ check'[t].rdrs = numreaders
      /\ check'[t].i = 1
      /\ check'[t].j = 0
      /\ check'[t].seen = {}
      /\ check'[t].at = NoPid
      /\ check'[t].rlocked = FALSE
      /\ check'[t].after = "checked"
  BY <1>c DEF TypeOK
<1>s. \A x \in Threads : Slot(x)' = Slot(x)
  BY <1>step DEF Slot, TypeOK
<1>q. \A x \in Threads : x # t => pc'[x] = pc[x]
  BY <1>step DEF TypeOK
<1>l. pc'[t] = "read"
  BY <1>step DEF TypeOK
<1>v. Pid[t] \in live /\ closing[Pid[t]] = 0
  BY <1>step DEF Runs
<1>z. check' \in [Threads -> CheckLocals]
  BY <1>c, <1>y DEF TypeOK
<1>1. TypeOK'
  BY <1>z, <1>step, <1>d, <1>s, <1>q, <1>l, <1>v DEF TypeOK
<1>2. MutexInv'
  BY <1>step, <1>d, <1>s, <1>q, <1>l, <1>v DEF MutexInv, Checking, TypeOK
<1>3. ProcessInv'
  BY <1>step, <1>d, <1>s, <1>q, <1>l, <1>v
     DEF ProcessInv, MutexInv, TypeOK, Claiming, Checking
<1>4. ClaimInv'
  BY <1>step, <1>d, <1>s, <1>q, <1>l, <1>v DEF ClaimInv, MutexInv, TypeOK
<1>5. ClearInv'
  BY <1>d, <1>s, <1>q, <1>l, <1>v DEF ClearInv, MutexInv
<1>6. LoopInv'
  <2> SUFFICES ASSUME NEW x \in Threads PROVE LoopOK(x)'
    BY DEF LoopInv
  <2>1. CASE x # t
    BY <1>step, <1>d, <1>s, <1>q, <1>l, <1>v, <1>g DEF LoopInv, LoopOK, TypeOK
  <2>2. CASE x = t
    BY <1>step, <1>d, <1>s, <1>q, <1>l, <1>v, <1>f, <1>g
       DEF LoopInv, LoopOK, Checking
  <2> QED BY <2>1, <2>2
<1>7. StaleInv'
  <2> SUFFICES ASSUME NEW x \in Threads PROVE StaleOK(x)'
    BY DEF StaleInv
  <2>n. StaleOK(x) /\ NoPid \notin stale[x] /\ NoPid \notin Pids
    BY DEF StaleInv, TypeOK
  <2>1. CASE x # t
    BY <1>step, <1>d, <1>s, <1>q, <1>l, <1>v, <2>n DEF StaleOK, ToClear, TypeOK
  <2>2. CASE x = t
    BY <1>step, <1>d, <1>s, <1>q, <1>l, <1>v, <2>n, <1>g
       DEF StaleOK, ToClear, TypeOK
  <2> QED BY <2>1, <2>2
<1>8. HolderKeepsSlot'
  BY <1>step, <1>d, <1>s, <1>q, <1>l, <1>v, <1>g DEF HolderKeepsSlot, Slots
<1>9. CheckFindsAll'
  BY <1>step, <1>d, <1>s, <1>q, <1>l, <1>v, <1>g DEF CheckFindsAll, TypeOK, Slots
<1> QED BY <1>1, <1>2, <1>3, <1>4, <1>5, <1>6, <1>7, <1>8, <1>9

\* A slot passed over is not stale: it is free, the caller's, or of a process
\* that an earlier round has dealt with.
LEMMA CheckReadInv == ASSUME IInv, NEW t \in Threads, CheckRead(t) PROVE IInv'
<1> USE ConstantsAssumption DEF IInv
<1>g.
      /\ numreaders \in 0..MaxReaders /\ pid \in [Slots -> Pids \cup {NoPid}]
      /\ Pid[t] \in Pids
  BY DEF TypeOK
<1>t. check[t] \in CheckLocals /\ check \in [Threads -> CheckLocals]
  BY DEF TypeOK
<1>f. /\ check[t].rdrs \in 0..MaxReaders /\ check[t].i \in 0..MaxReaders + 1
      /\ check[t].j \in 0..MaxReaders + 1
      /\ check[t].seen \in SUBSET Pids /\ check[t].at \in Pids \cup {NoPid}
      /\ check[t].rlocked \in BOOLEAN
      /\ check[t].after \in {"checked", "claim"}
  BY <1>t, LocalsFields
<1>1. CASE pid[check[t].i] \in {NoPid, Pid[t]} \cup check[t].seen
  <2>step.
        /\ pc[t] = "read" /\ check[t].i <= check[t].rdrs
        /\ pid[check[t].i] \in {NoPid, Pid[t]} \cup check[t].seen
        /\ pid' = pid /\ numreaders' = numreaders /\ rmutex' = rmutex
        /\ live' = live /\ pidlock' = pidlock /\ live_reader' = live_reader
        /\ close_readers' = close_readers /\ closing' = closing /\ pc' = pc
        /\ tls' = tls /\ r' = r /\ stale' = stale
    BY <1>1 DEF CheckRead, table, process
  <2>c. check' = [check EXCEPT ![t] = [check[t] EXCEPT !.i = check[t].i + 1]]
    BY <1>1, <1>t DEF CheckRead, table, process
  <2>d. /\ \A x \in Threads : x # t => check'[x] = check[x]
        /\ check'[t].rdrs = check[t].rdrs
        /\ check'[t].i = check[t].i + 1
        /\ check'[t].j = check[t].j
        /\ check'[t].seen = check[t].seen
        /\ check'[t].at = check[t].at
        /\ check'[t].rlocked = check[t].rlocked
        /\ check'[t].after = check[t].after
    BY <2>c, <1>t DEF CheckLocals
  <2>s. \A x \in Threads : Slot(x)' = Slot(x)
    BY <2>step DEF Slot
  <2>k.
        /\ check[t].i \in 1..numreaders /\ check[t].i + 1 \in 0..MaxReaders + 1
        /\ LoopOK(t) /\ check[t].i \in Slots
    BY <2>step, <1>f, <1>g DEF LoopInv, LoopOK, Checking, Slots
  <2>v. Pid[t] \notin stale[t] /\ NoPid \notin stale[t]
    BY <2>step DEF ProcessInv, StaleInv, StaleOK, TypeOK
  <2>y. [check[t] EXCEPT !.i = check[t].i + 1] \in CheckLocals
    BY <2>k, <1>t, LocalsSet
  <2>z. check' \in [Threads -> CheckLocals]
    BY <2>c, <2>y DEF TypeOK
  <2>1. TypeOK'
    BY <2>z, <2>step, <2>d, <2>s, <2>k, <2>v DEF TypeOK
  <2>2. MutexInv'
    BY <2>step, <2>d, <2>s, <2>k, <2>v DEF MutexInv, Checking, TypeOK
  <2>3. ProcessInv'
    BY <2>step, <2>d, <2>s, <2>k, <2>v
       DEF ProcessInv, MutexInv, TypeOK, Claiming, Checking
  <2>4. ClaimInv'
    BY <2>step, <2>d, <2>s, <2>k, <2>v DEF ClaimInv, MutexInv, TypeOK
  <2>5. ClearInv'
    BY <2>step, <2>d, <2>s, <2>k, <2>v DEF ClearInv, MutexInv
  <2>6. LoopInv'
    <3> SUFFICES ASSUME NEW x \in Threads PROVE LoopOK(x)'
      BY DEF LoopInv
    <3>1. CASE x # t
      BY <3>1, <2>step, <2>d, <2>s, <2>k, <2>v, <1>g DEF LoopInv, LoopOK, TypeOK
    <3>2. CASE x = t
      BY <2>step, <2>d, <2>s, <2>k, <2>v, <1>f, <1>g DEF LoopInv, LoopOK, Checking
    <3> QED BY <3>1, <3>2
  <2>7. StaleInv'
    <3> SUFFICES ASSUME NEW x \in Threads PROVE StaleOK(x)'
      BY DEF StaleInv
    <3>s. \A s \in 1..numreaders : s \in Slots
      BY <1>g DEF Slots
    <3>n. NoPid \notin stale[x] /\ StaleOK(x)
      BY DEF TypeOK, StaleInv
    <3>1. CASE x # t
      BY <2>step, <2>d, <2>s, <2>k, <2>v, <3>n, <3>s DEF StaleOK, ToClear
    <3>2. CASE x = t
      <4>1. \A s \in 1..numreaders : pid[s] \in stale[t] => ToClear(t, s)
        BY <3>2, <3>n, <2>step, <2>d, <2>s, <2>k, <2>v DEF StaleOK, Checking
      <4>2. \A s \in 1..numreaders : pid[s] \in stale[t] => ToClear(t, s)'
        BY <4>1, <3>s, <2>step, <2>d, <2>s, <2>k, <2>v, <1>f, <1>g
           DEF ToClear, LoopOK, Checking
      <4> QED BY <4>2, <3>2, <3>n, <2>step, <2>d, <2>s, <2>k, <2>v DEF StaleOK
    <3> QED BY <3>1, <3>2
  <2>8. HolderKeepsSlot'
    BY <2>step, <2>d, <2>s, <2>k, <2>v, <1>g DEF HolderKeepsSlot, Slots
  <2>9. CheckFindsAll'
    BY <2>step, <2>d, <2>s, <2>k, <2>v, <1>g DEF CheckFindsAll, TypeOK, Slots
  <2> QED BY <2>1, <2>2, <2>3, <2>4, <2>5, <2>6, <2>7, <2>8, <2>9
<1>2. CASE pid[check[t].i] \notin {NoPid, Pid[t]} \cup check[t].seen
  <2>step.
        /\ pc[t] = "read" /\ check[t].i <= check[t].rdrs
        /\ pid[check[t].i] \notin {NoPid, Pid[t]} \cup check[t].seen
        /\ pid' = pid /\ numreaders' = numreaders /\ rmutex' = rmutex
        /\ live' = live /\ pidlock' = pidlock /\ live_reader' = live_reader
        /\ close_readers' = close_readers /\ closing' = closing
        /\ pc' = [pc EXCEPT ![t] = "pidcheck"]
        /\ tls' = tls /\ r' = r /\ stale' = stale
    BY <1>2 DEF CheckRead, Goto, table, process
  <2>c. check' = [check EXCEPT ![t] = [check[t] EXCEPT !.at = pid[check[t].i],
          !.seen = check[t].seen \cup {pid[check[t].i]}]]
    BY <1>2, <1>t DEF CheckRead, Goto, table, process
  <2>d. /\ \A x \in Threads : x # t => check'[x] = check[x]
        /\ check'[t].rdrs = check[t].rdrs
        /\ check'[t].i = check[t].i
        /\ check'[t].j = check[t].j
        /\ check'[t].seen = check[t].seen \cup {pid[check[t].i]}
        /\ check'[t].at = pid[check[t].i]
        /\ check'[t].rlocked = check[t].rlocked
        /\ check'[t].after = check[t].after
    BY <2>c, <1>t DEF CheckLocals
  <2>s. \A x \in Threads : Slot(x)' = Slot(x)
    BY <2>step DEF Slot, TypeOK
  <2>q. \A x \in Threads : x # t => pc'[x] = pc[x]
    BY <2>step DEF TypeOK
  <2>l. pc'[t] = "pidcheck"
    BY <2>step DEF TypeOK
  <2>k.
        /\ check[t].i \in 1..numreaders /\ check[t].i + 1 \in 0..MaxReaders + 1
        /\ LoopOK(t) /\ check[t].i \in Slots
    BY <2>step, <1>f, <1>g DEF LoopInv, LoopOK, Checking, Slots
  <2>v. Pid[t] \notin stale[t] /\ NoPid \notin stale[t]
    BY <2>step DEF ProcessInv, StaleInv, StaleOK, TypeOK
  <2>w. pid[check[t].i] \in Pids /\ check[t].seen \cup {pid[check[t].i]} \in SUBSET Pids
    BY <2>step, <2>k, <1>f, <1>g
  <2>y. [check[t] EXCEPT !.at = pid[check[t].i],
          !.seen = check[t].seen \cup {pid[check[t].i]}] \in CheckLocals
    BY <2>w, <1>t, LocalsSeen
  <2>z. check' \in [Threads -> CheckLocals]
    BY <2>c, <2>y DEF TypeOK
  <2>1. TypeOK'
    BY <2>z, <2>step, <2>d, <2>s, <2>q, <2>l, <2>k, <2>v, <2>w DEF TypeOK
  <2>2. MutexInv'
    BY <2>step, <2>d, <2>s, <2>q, <2>l, <2>k, <2>v, <2>w
       DEF MutexInv, Checking, TypeOK
  <2>3. ProcessInv'
    BY <2>step, <2>d, <2>s, <2>q, <2>l, <2>k, <2>v, <2>w
       DEF ProcessInv, MutexInv, TypeOK, Claiming, Checking
  <2>4. ClaimInv'
    BY <2>step, <2>d, <2>s, <2>q, <2>l, <2>k, <2>v, <2>w
       DEF ClaimInv, MutexInv, TypeOK
  <2>5. ClearInv'
    BY <2>step, <2>d, <2>s, <2>q, <2>l, <2>k, <2>v, <2>w DEF ClearInv, MutexInv
  <2>6. LoopInv'
    <3> SUFFICES ASSUME NEW x \in Threads PROVE LoopOK(x)'
      BY DEF LoopInv
    <3>1. CASE x # t
      BY <3>1, <2>step, <2>d, <2>s, <2>q, <2>l, <2>k, <2>v, <2>w, <1>g
         DEF LoopInv, LoopOK, TypeOK
    <3>2. CASE x = t
      BY <2>step, <2>d, <2>s, <2>q, <2>l, <2>k, <2>v, <2>w, <1>f, <1>g
         DEF LoopInv, LoopOK, Checking
    <3> QED BY <3>1, <3>2
  <2>7. StaleInv'
    <3> SUFFICES ASSUME NEW x \in Threads PROVE StaleOK(x)'
      BY DEF StaleInv
    <3>s. \A s \in 1..numreaders : s \in Slots
      BY <1>g DEF Slots
    <3>n. NoPid \notin stale[x] /\ StaleOK(x)
      BY DEF TypeOK, StaleInv
    <3>1. CASE x # t
      BY <3>1, <2>step, <2>d, <2>s, <2>q, <2>l, <2>k, <2>v, <2>w, <3>n, <3>s
         DEF StaleOK, ToClear
    <3>2. CASE x = t
      <4>1. \A s \in 1..numreaders : pid[s] \in stale[t] => ToClear(t, s)
        BY <3>2, <3>n, <2>step, <2>d, <2>s, <2>q, <2>l, <2>k, <2>v, <2>w
           DEF StaleOK, Checking
      <4>2. \A s \in 1..numreaders : pid[s] \in stale[t] => ToClear(t, s)'
        BY <4>1, <3>s, <2>step, <2>d, <2>s, <2>q, <2>l, <2>k, <2>v, <2>w, <1>f, <1>g
           DEF ToClear, LoopOK, Checking
      <4> QED
        BY <4>2, <3>2, <3>n, <2>step, <2>d, <2>s, <2>q, <2>l, <2>k, <2>v, <2>w
           DEF StaleOK
    <3> QED BY <3>1, <3>2
  <2>8. HolderKeepsSlot'
    BY <2>step, <2>d, <2>s, <2>q, <2>l, <2>k, <2>v, <2>w, <1>g
       DEF HolderKeepsSlot, Slots
  <2>9. CheckFindsAll'
    BY <2>step, <2>d, <2>s, <2>q, <2>l, <2>k, <2>v, <2>w, <1>g
       DEF CheckFindsAll, TypeOK, Slots
  <2> QED BY <2>1, <2>2, <2>3, <2>4, <2>5, <2>6, <2>7, <2>8, <2>9
<1> QED BY <1>1, <1>2

\* Only a process that does not hold its id is to be cleared: it owns no slot.
LEMMA CheckPidInv == ASSUME IInv, NEW t \in Threads, CheckPid(t) PROVE IInv'
<1> USE ConstantsAssumption DEF IInv
<1>g.
      /\ numreaders \in 0..MaxReaders /\ pid \in [Slots -> Pids \cup {NoPid}]
      /\ Pid[t] \in Pids
  BY DEF TypeOK
<1>t. check[t] \in CheckLocals /\ check \in [Threads -> CheckLocals]
  BY DEF TypeOK
<1>f. /\ check[t].rdrs \in 0..MaxReaders /\ check[t].i \in 0..MaxReaders + 1
      /\ check[t].j \in 0..MaxReaders + 1
      /\ check[t].seen \in SUBSET Pids /\ check[t].at \in Pids \cup {NoPid}
      /\ check[t].rlocked \in BOOLEAN
      /\ check[t].after \in {"checked", "claim"}
  BY <1>t, LocalsFields
<1>1. CASE Alive(check[t].at)
  <2>step.
        /\ pc[t] = "pidcheck" /\ check[t].at \in pidlock
        /\ pid' = pid /\ numreaders' = numreaders /\ rmutex' = rmutex
        /\ live' = live /\ pidlock' = pidlock /\ live_reader' = live_reader
        /\ close_readers' = close_readers /\ closing' = closing
        /\ pc' = [pc EXCEPT ![t] = "read"]
        /\ tls' = tls /\ r' = r /\ stale' = stale
    BY <1>1 DEF CheckPid, Alive, Goto, table, process
  <2>c. check' = [check EXCEPT ![t] = [check[t] EXCEPT !.i = check[t].i + 1]]
    BY <1>1, <1>t DEF CheckPid, Alive, Goto, table, process
  <2>d. /\ \A x \in Threads : x # t => check'[x] = check[x]
        /\ check'[t].rdrs = check[t].rdrs
        /\ check'[t].i = check[t].i + 1
        /\ check'[t].j = check[t].j
        /\ check'[t].seen = check[t].seen
        /\ check'[t].at = check[t].at
        /\ check'[t].rlocked = check[t].rlocked
        /\ check'[t].after = check[t].after
    BY <2>c, <1>t DEF CheckLocals
  <2>s. \A x \in Threads : Slot(x)' = Slot(x)
    BY <2>step DEF Slot, TypeOK
  <2>q. \A x \in Threads : x # t => pc'[x] = pc[x]
    BY <2>step DEF TypeOK
  <2>l. pc'[t] = "read"
    BY <2>step DEF TypeOK
  <2>k.
        /\ check[t].i \in 1..check[t].rdrs /\ check[t].i + 1 \in 0..MaxReaders + 1
        /\ LoopOK(t)
    BY <2>step, <1>f, <1>g DEF LoopInv, LoopOK, Checking
  <2>v. \A p \in stale[t] : p \notin pidlock
    BY DEF StaleInv, StaleOK, TypeOK
  <2>w. \A x \in Threads : Slot(x) # 0 => Pid[x] \in pidlock
    BY DEF ProcessInv, Claiming, Slot
  <2>y. [check[t] EXCEPT !.i = check[t].i + 1] \in CheckLocals
    BY <2>k, <1>t, LocalsSet
  <2>z. check' \in [Threads -> CheckLocals]
    BY <2>c, <2>y DEF TypeOK
  <2>1. TypeOK'
    BY <2>z, <2>step, <2>d, <2>s, <2>q, <2>l, <2>k, <2>v, <2>w DEF TypeOK
  <2>2. MutexInv'
    BY <2>step, <2>d, <2>s, <2>q, <2>l, <2>k, <2>v, <2>w
       DEF MutexInv, Checking, TypeOK
  <2>3. ProcessInv'
    BY <2>step, <2>d, <2>s, <2>q, <2>l, <2>k, <2>v, <2>w
       DEF ProcessInv, MutexInv, TypeOK, Claiming, Checking
  <2>4. ClaimInv'
    BY <2>step, <2>d, <2>s, <2>q, <2>l, <2>k, <2>v, <2>w
       DEF ClaimInv, MutexInv, TypeOK
  <2>5. ClearInv'
    BY <2>d, <2>s, <2>q, <2>l, <2>k, <2>v, <2>w DEF ClearInv, MutexInv
  <2>6. LoopInv'
    <3> SUFFICES ASSUME NEW x \in Threads PROVE LoopOK(x)'
      BY DEF LoopInv
    <3>1. CASE x # t
      BY <3>1, <2>step, <2>d, <2>s, <2>q, <2>l, <2>k, <2>v, <2>w, <1>g
         DEF LoopInv, LoopOK, TypeOK
    <3>2. CASE x = t
      BY <2>step, <2>d, <2>s, <2>q, <2>l, <2>k, <2>v, <2>w, <1>f, <1>g
         DEF LoopInv, LoopOK, Checking
    <3> QED BY <3>1, <3>2
  <2>7. StaleInv'
    <3> SUFFICES ASSUME NEW x \in Threads PROVE StaleOK(x)'
      BY DEF StaleInv
    <3>s. \A s \in 1..numreaders : s \in Slots
      BY <1>g DEF Slots
    <3>n. NoPid \notin stale[x] /\ StaleOK(x)
      BY DEF TypeOK, StaleInv
    <3>1. CASE x # t
      BY <3>1, <2>step, <2>d, <2>s, <2>q, <2>l, <2>k, <2>v, <2>w, <3>n, <3>s
         DEF StaleOK, ToClear
    <3>2. CASE x = t
      <4>1. \A s \in 1..numreaders : pid[s] \in stale[t] => ToClear(t, s)
        BY <3>2, <3>n, <2>step, <2>d, <2>s, <2>q, <2>l, <2>k, <2>v, <2>w
           DEF StaleOK, Checking
      <4>2. \A s \in 1..numreaders : pid[s] \in stale[t] => ToClear(t, s)'
        BY <4>1, <3>s, <2>step, <2>d, <2>s, <2>q, <2>l, <2>k, <2>v, <2>w, <1>f, <1>g
           DEF ToClear, LoopOK, Checking
      <4> QED
        BY <4>2, <3>2, <3>n, <2>step, <2>d, <2>s, <2>q, <2>l, <2>k, <2>v, <2>w
           DEF StaleOK
    <3> QED BY <3>1, <3>2
  <2>8. HolderKeepsSlot'
    BY <2>step, <2>d, <2>s, <2>q, <2>l, <2>k, <2>v, <2>w, <1>g
       DEF HolderKeepsSlot, Slots
  <2>9. CheckFindsAll'
    BY <2>step, <2>d, <2>s, <2>q, <2>l, <2>k, <2>v, <2>w, <1>g
       DEF CheckFindsAll, TypeOK, Slots
  <2> QED BY <2>1, <2>2, <2>3, <2>4, <2>5, <2>6, <2>7, <2>8, <2>9
<1>2. CASE ~Alive(check[t].at)
  <2>step.
        /\ pc[t] = "pidcheck" /\ check[t].at \notin pidlock
        /\ pid' = pid /\ numreaders' = numreaders /\ rmutex' = rmutex
        /\ live' = live /\ pidlock' = pidlock /\ live_reader' = live_reader
        /\ close_readers' = close_readers /\ closing' = closing
        /\ pc' = [pc EXCEPT ![t] = IF check[t].rlocked THEN "clear" ELSE "checklock"]
        /\ tls' = tls /\ r' = r /\ stale' = stale
    BY <1>2 DEF CheckPid, Alive, Goto, table, process
  <2>c. check' = [check EXCEPT ![t] = [check[t] EXCEPT !.j = check[t].i]]
    BY <1>2, <1>t DEF CheckPid, Alive, Goto, table, process
  <2>d. /\ \A x \in Threads : x # t => check'[x] = check[x]
        /\ check'[t].rdrs = check[t].rdrs
        /\ check'[t].i = check[t].i
        /\ check'[t].j = check[t].i
        /\ check'[t].seen = check[t].seen
        /\ check'[t].at = check[t].at
        /\ check'[t].rlocked = check[t].rlocked
        /\ check'[t].after = check[t].after
    BY <2>c, <1>t DEF CheckLocals
  <2>s. \A x \in Threads : Slot(x)' = Slot(x)
    BY <2>step DEF Slot, TypeOK
  <2>q. \A x \in Threads : x # t => pc'[x] = pc[x]
    BY <2>step DEF TypeOK
  <2>l. pc'[t] = IF check[t].rlocked THEN "clear" ELSE "checklock"
    BY <2>step DEF TypeOK
  <2>k.
        /\ check[t].i \in 1..check[t].rdrs /\ check[t].i + 1 \in 0..MaxReaders + 1
        /\ LoopOK(t)
    BY <2>step, <1>f, <1>g DEF LoopInv, LoopOK, Checking
  <2>v. \A p \in stale[t] : p \notin pidlock
    BY DEF StaleInv, StaleOK, TypeOK
  <2>w. \A x \in Threads : Slot(x) # 0 => Pid[x] \in pidlock
    BY DEF ProcessInv, Claiming, Slot
  <2>y. [check[t] EXCEPT !.j = check[t].i] \in CheckLocals
    BY <1>f, <1>t, LocalsSet
  <2>z. check' \in [Threads -> CheckLocals]
    BY <2>c, <2>y DEF TypeOK
  <2>1. TypeOK'
    BY <2>z, <2>step, <2>d, <2>s, <2>q, <2>l, <2>k, <2>v, <2>w DEF TypeOK
  <2>2. MutexInv'
    BY <2>step, <2>d, <2>s, <2>q, <2>l, <2>k, <2>v, <2>w
       DEF MutexInv, Checking, TypeOK
  <2>3. ProcessInv'
    BY <2>step, <2>d, <2>s, <2>q, <2>l, <2>k, <2>v, <2>w
       DEF ProcessInv, MutexInv, TypeOK, Claiming, Checking
  <2>4. ClaimInv'
    BY <2>step, <2>d, <2>s, <2>q, <2>l, <2>k, <2>v, <2>w
       DEF ClaimInv, MutexInv, TypeOK
  <2>5. ClearInv'
    BY <2>step, <2>d, <2>s, <2>q, <2>l, <2>k, <2>v, <2>w DEF ClearInv, MutexInv
  <2>6. LoopInv'
    <3> SUFFICES ASSUME NEW x \in Threads PROVE LoopOK(x)'
      BY DEF LoopInv
    <3>1. CASE x # t
      BY <3>1, <2>step, <2>d, <2>s, <2>q, <2>l, <2>k, <2>v, <2>w, <1>g
         DEF LoopInv, LoopOK, TypeOK
    <3>2. CASE x = t
      BY <2>step, <2>d, <2>s, <2>q, <2>l, <2>k, <2>v, <2>w, <1>f, <1>g
         DEF LoopInv, LoopOK, Checking
    <3> QED BY <3>1, <3>2
  <2>7. StaleInv'
    <3> SUFFICES ASSUME NEW x \in Threads PROVE StaleOK(x)'
      BY DEF StaleInv
    <3>s. \A s \in 1..numreaders : s \in Slots
      BY <1>g DEF Slots
    <3>n. NoPid \notin stale[x] /\ StaleOK(x)
      BY DEF TypeOK, StaleInv
    <3>1. CASE x # t
      BY <3>1, <2>step, <2>d, <2>s, <2>q, <2>l, <2>k, <2>v, <2>w, <3>n, <3>s
         DEF StaleOK, ToClear
    <3>2. CASE x = t
      <4>1. \A s \in 1..numreaders : pid[s] \in stale[t] => ToClear(t, s)
        BY <3>2, <3>n, <2>step, <2>d, <2>s, <2>q, <2>l, <2>k, <2>v, <2>w
           DEF StaleOK, Checking
      <4>2. \A s \in 1..numreaders : pid[s] \in stale[t] => ToClear(t, s)'
        BY <4>1, <3>s, <2>step, <2>d, <2>s, <2>q, <2>l, <2>k, <2>v, <2>w, <1>f, <1>g
           DEF ToClear, LoopOK, Checking
      <4> QED
        BY <4>2, <3>2, <3>n, <2>step, <2>d, <2>s, <2>q, <2>l, <2>k, <2>v, <2>w
           DEF StaleOK
    <3> QED BY <3>1, <3>2
  <2>8. HolderKeepsSlot'
    BY <2>step, <2>d, <2>s, <2>q, <2>l, <2>k, <2>v, <2>w, <1>g
       DEF HolderKeepsSlot, Slots
  <2>9. CheckFindsAll'
    BY <2>step, <2>d, <2>s, <2>q, <2>l, <2>k, <2>v, <2>w, <1>g
       DEF CheckFindsAll, TypeOK, Slots
  <2> QED BY <2>1, <2>2, <2>3, <2>4, <2>5, <2>6, <2>7, <2>8, <2>9
<1> QED BY <1>1, <1>2

\* The mutex for the slots of one dead process.
LEMMA CheckLockInv == ASSUME IInv, NEW t \in Threads, CheckLock(t) PROVE IInv'
<1> USE ConstantsAssumption DEF IInv
<1>g.
      /\ numreaders \in 0..MaxReaders /\ pid \in [Slots -> Pids \cup {NoPid}]
      /\ Pid[t] \in Pids
  BY DEF TypeOK
<1>t. check[t] \in CheckLocals /\ check \in [Threads -> CheckLocals]
  BY DEF TypeOK
<1>f. /\ check[t].rdrs \in 0..MaxReaders /\ check[t].i \in 0..MaxReaders + 1
      /\ check[t].j \in 0..MaxReaders + 1
      /\ check[t].seen \in SUBSET Pids /\ check[t].at \in Pids \cup {NoPid}
      /\ check[t].rlocked \in BOOLEAN
      /\ check[t].after \in {"checked", "claim"}
  BY <1>t, LocalsFields
<1>1. CASE rmutex = Free /\ rmutex' = t /\ Goto(t, "recheck") /\ UNCHANGED check
  <2>step.
        /\ pc[t] = "checklock"
        /\ rmutex = Free
        /\ pid' = pid /\ numreaders' = numreaders
        /\ rmutex' = t
        /\ live' = live /\ pidlock' = pidlock /\ live_reader' = live_reader
        /\ close_readers' = close_readers /\ closing' = closing
        /\ pc' = [pc EXCEPT ![t] = "recheck"]
        /\ tls' = tls /\ r' = r /\ stale' = stale /\ check' = check
    BY <1>1 DEF CheckLock, Goto, table, process
  <2>s. \A x \in Threads : Slot(x)' = Slot(x)
    BY <2>step DEF Slot, TypeOK
  <2>q. \A x \in Threads : x # t => pc'[x] = pc[x]
    BY <2>step DEF TypeOK
  <2>l. pc'[t] = "recheck"
    BY <2>step DEF TypeOK
  <2>1. TypeOK'
    BY <2>step, <2>s, <2>q, <2>l DEF TypeOK
  <2>2. MutexInv'
    BY <2>step, <2>s, <2>q, <2>l DEF MutexInv, Checking, TypeOK
  <2>3. ProcessInv'
    BY <2>step, <2>s, <2>q, <2>l
       DEF ProcessInv, MutexInv, TypeOK, Claiming, Checking
  <2>4. ClaimInv'
    BY <2>step, <2>s, <2>q, <2>l DEF ClaimInv, MutexInv, TypeOK
  <2>5. ClearInv'
    BY <2>step, <2>s, <2>q, <2>l DEF ClearInv, MutexInv
  <2>6. LoopInv'
    BY <2>step, <2>s, <2>q, <2>l DEF LoopInv, LoopOK, Checking
  <2>7. StaleInv'
    <3> SUFFICES ASSUME NEW x \in Threads PROVE StaleOK(x)'
      BY DEF StaleInv
    <3>s. \A s \in 1..numreaders : s \in Slots
      BY <1>g DEF Slots
    <3>n. NoPid \notin stale[x] /\ StaleOK(x)
      BY DEF TypeOK, StaleInv
    <3>1. CASE x # t
      BY <3>1, <2>step, <2>s, <2>q, <2>l, <3>n, <3>s DEF StaleOK, ToClear
    <3>2. CASE x = t
      BY <2>step, <2>s, <2>q, <2>l, <3>n, <3>s, <1>g
         DEF StaleOK, ToClear, Checking, LoopInv, LoopOK
    <3> QED BY <3>1, <3>2
  <2>8. HolderKeepsSlot'
    BY <2>step, <2>s, <2>q, <2>l, <1>g DEF HolderKeepsSlot, Slots
  <2>9. CheckFindsAll'
    BY <2>step, <2>s, <2>q, <2>l, <1>g DEF CheckFindsAll, TypeOK, Slots
  <2> QED BY <2>1, <2>2, <2>3, <2>4, <2>5, <2>6, <2>7, <2>8, <2>9
<1>2. CASE Recover(t, "checked")
  <2>step.
        /\ pc[t] = "checklock"
        /\ rmutex = OwnerDead
        /\ pid' = pid /\ numreaders' = numreaders
        /\ rmutex' = t
        /\ live' = live /\ pidlock' = pidlock /\ live_reader' = live_reader
        /\ close_readers' = close_readers /\ closing' = closing
        /\ pc' = [pc EXCEPT ![t] = "read"]
        /\ tls' = tls /\ r' = r /\ stale' = stale
    BY <1>2 DEF CheckLock, Goto, Recover, NoCheck, table, process
  <2>c. check' = [check EXCEPT ![t] = [rdrs |-> numreaders, i |-> 1, j |-> 0,
          seen |-> {}, at |-> NoPid, rlocked |-> TRUE, after |-> "checked"]]
    BY <1>2 DEF CheckLock, Goto, Recover, NoCheck, table, process
  <2>y. [rdrs |-> numreaders, i |-> 1, j |-> 0, seen |-> {}, at |-> NoPid,
          rlocked |-> TRUE, after |-> "checked"] \in CheckLocals
    BY <1>g, LocalsNew
  <2>d. /\ \A x \in Threads : x # t => check'[x] = check[x]
        /\ check'[t].rdrs = numreaders
        /\ check'[t].i = 1
        /\ check'[t].j = 0
        /\ check'[t].seen = {}
        /\ check'[t].at = NoPid
        /\ check'[t].rlocked = TRUE
        /\ check'[t].after = "checked"
    BY <2>c DEF TypeOK
  <2>s. \A x \in Threads : Slot(x)' = Slot(x)
    BY <2>step DEF Slot, TypeOK
  <2>q. \A x \in Threads : x # t => pc'[x] = pc[x]
    BY <2>step DEF TypeOK
  <2>l. pc'[t] = "read"
    BY <2>step DEF TypeOK
  <2>z. check' \in [Threads -> CheckLocals]
    BY <2>c, <2>y DEF TypeOK
  <2>1. TypeOK'
    BY <2>z, <2>step, <2>d, <2>s, <2>q, <2>l DEF TypeOK
  <2>2. MutexInv'
    BY <2>step, <2>d, <2>s, <2>q, <2>l DEF MutexInv, Checking, TypeOK
  <2>3. ProcessInv'
    BY <2>step, <2>d, <2>s, <2>q, <2>l
       DEF ProcessInv, MutexInv, TypeOK, Claiming, Checking
  <2>4. ClaimInv'
    BY <2>step, <2>d, <2>s, <2>q, <2>l DEF ClaimInv, MutexInv, TypeOK
  <2>5. ClearInv'
    BY <2>d, <2>s, <2>q, <2>l DEF ClearInv, MutexInv
  <2>6. LoopInv'
    <3> SUFFICES ASSUME NEW x \in Threads PROVE LoopOK(x)'
      BY DEF LoopInv
    <3>1. CASE x # t
      BY <2>step, <2>d, <2>s, <2>q, <2>l, <1>g DEF LoopInv, LoopOK, TypeOK
    <3>2. CASE x = t
      BY <2>step, <2>d, <2>s, <2>q, <2>l, <1>f, <1>g DEF LoopInv, LoopOK, Checking
    <3> QED BY <3>1, <3>2
  <2>7. StaleInv'
    <3> SUFFICES ASSUME NEW x \in Threads PROVE StaleOK(x)'
      BY DEF StaleInv
    <3>s. \A s \in 1..numreaders : s \in Slots
      BY <1>g DEF Slots
    <3>n. NoPid \notin stale[x] /\ StaleOK(x)
      BY DEF TypeOK, StaleInv
    <3>1. CASE x # t
      BY <2>step, <2>d, <2>s, <2>q, <2>l, <3>n, <3>s DEF StaleOK, ToClear
    <3>2. CASE x = t
      <4>1. \A s \in 1..numreaders : pid[s] \in stale[t] => ToClear(t, s)
        BY <3>2, <3>n, <2>step, <2>d, <2>s, <2>q, <2>l DEF StaleOK, Checking
      <4>2. \A s \in 1..numreaders : pid[s] \in stale[t] => ToClear(t, s)'
        BY <3>s, <2>step, <2>d, <2>s, <2>q, <2>l, <1>f, <1>g
           DEF ToClear, LoopOK, Checking
      <4> QED BY <4>2, <3>2, <3>n, <2>step, <2>d, <2>s, <2>q, <2>l DEF StaleOK
    <3> QED BY <3>1, <3>2
  <2>8. HolderKeepsSlot'
    BY <2>step, <2>d, <2>s, <2>q, <2>l, <1>g DEF HolderKeepsSlot, Slots
  <2>9. CheckFindsAll'
    BY <2>step, <2>d, <2>s, <2>q, <2>l, <1>g DEF CheckFindsAll, TypeOK, Slots
  <2> QED BY <2>1, <2>2, <2>3, <2>4, <2>5, <2>6, <2>7, <2>8, <2>9
<1> QED BY <1>1, <1>2 DEF CheckLock

\* A process that came back before the mutex was ours is left alone.
LEMMA CheckAgainInv == ASSUME IInv, NEW t \in Threads, CheckAgain(t) PROVE IInv'
<1> USE ConstantsAssumption DEF IInv
<1>g.
      /\ numreaders \in 0..MaxReaders /\ pid \in [Slots -> Pids \cup {NoPid}]
      /\ Pid[t] \in Pids
  BY DEF TypeOK
<1>t. check[t] \in CheckLocals /\ check \in [Threads -> CheckLocals]
  BY DEF TypeOK
<1>f. /\ check[t].rdrs \in 0..MaxReaders /\ check[t].i \in 0..MaxReaders + 1
      /\ check[t].j \in 0..MaxReaders + 1
      /\ check[t].seen \in SUBSET Pids /\ check[t].at \in Pids \cup {NoPid}
      /\ check[t].rlocked \in BOOLEAN
      /\ check[t].after \in {"checked", "claim"}
  BY <1>t, LocalsFields
<1>step.
      /\ pc[t] = "recheck"
      /\ pid' = pid /\ numreaders' = numreaders /\ rmutex' = rmutex /\ live' = live
      /\ pidlock' = pidlock /\ live_reader' = live_reader
      /\ close_readers' = close_readers /\ closing' = closing
      /\ pc' = [pc EXCEPT ![t] = "clear"]
      /\ tls' = tls /\ r' = r /\ stale' = stale
  BY DEF CheckAgain, Alive, Goto, table, process
<1>c. check' = [check EXCEPT ![t] = [check[t] EXCEPT !.j = IF check[t].at
        \in pidlock THEN check[t].rdrs + 1 ELSE check[t].j]]
  BY DEF CheckAgain, Alive, Goto, table, process
<1>d. /\ \A x \in Threads : x # t => check'[x] = check[x]
      /\ check'[t].rdrs = check[t].rdrs
      /\ check'[t].i = check[t].i
      /\ check'[t].j = IF check[t].at \in pidlock THEN check[t].rdrs + 1 ELSE check[t].j
      /\ check'[t].seen = check[t].seen
      /\ check'[t].at = check[t].at
      /\ check'[t].rlocked = check[t].rlocked
      /\ check'[t].after = check[t].after
  BY <1>c, <1>t DEF CheckLocals
<1>s. \A x \in Threads : Slot(x)' = Slot(x)
  BY <1>step DEF Slot, TypeOK
<1>q. \A x \in Threads : x # t => pc'[x] = pc[x]
  BY <1>step DEF TypeOK
<1>l. pc'[t] = "clear"
  BY <1>step DEF TypeOK
<1>k.
      /\ (IF check[t].at \in pidlock THEN check[t].rdrs + 1 ELSE check[t].j) \in 0..MaxReaders + 1
      /\ LoopOK(t) /\ check[t].j = check[t].i
  BY <1>step, <1>f, <1>g DEF LoopInv, LoopOK
<1>v. \A p \in stale[t] : p \notin pidlock
  BY DEF StaleInv, StaleOK, TypeOK
<1>w. \A x \in Threads : Slot(x) # 0 => Pid[x] \in pidlock
  BY DEF ProcessInv, Claiming, Slot
<1>y. [check[t] EXCEPT !.j = IF check[t].at \in pidlock THEN check[t].rdrs + 1
        ELSE check[t].j] \in CheckLocals
  BY <1>k, <1>t, LocalsSet
<1>z. check' \in [Threads -> CheckLocals]
  BY <1>c, <1>y DEF TypeOK
<1>1. TypeOK'
  BY <1>z, <1>step, <1>d, <1>s, <1>q, <1>l, <1>k, <1>v, <1>w DEF TypeOK
<1>2. MutexInv'
  BY <1>step, <1>d, <1>s, <1>q, <1>l, <1>k, <1>v, <1>w
     DEF MutexInv, Checking, TypeOK
<1>3. ProcessInv'
  BY <1>step, <1>d, <1>s, <1>q, <1>l, <1>k, <1>v, <1>w
     DEF ProcessInv, MutexInv, TypeOK, Claiming, Checking
<1>4. ClaimInv'
  BY <1>step, <1>d, <1>s, <1>q, <1>l, <1>k, <1>v, <1>w
     DEF ClaimInv, MutexInv, TypeOK
<1>5. ClearInv'
  BY <1>d, <1>s, <1>q, <1>l, <1>k, <1>v, <1>w, <1>f DEF ClearInv, MutexInv
<1>6. LoopInv'
  <2> SUFFICES ASSUME NEW x \in Threads PROVE LoopOK(x)'
    BY DEF LoopInv
  <2>1. CASE x # t
    BY <2>1, <1>step, <1>d, <1>s, <1>q, <1>l, <1>k, <1>v, <1>w, <1>g
       DEF LoopInv, LoopOK, TypeOK
  <2>2. CASE x = t
    BY <1>step, <1>d, <1>s, <1>q, <1>l, <1>k, <1>v, <1>w, <1>f, <1>g
       DEF LoopInv, LoopOK, Checking
  <2> QED BY <2>1, <2>2
<1>7. StaleInv'
  <2> SUFFICES ASSUME NEW x \in Threads PROVE StaleOK(x)'
    BY DEF StaleInv
  <2>s. \A s \in 1..numreaders : s \in Slots
    BY <1>g DEF Slots
  <2>n. NoPid \notin stale[x] /\ StaleOK(x)
    BY DEF TypeOK, StaleInv
  <2>1. CASE x # t
    BY <2>1, <1>step, <1>d, <1>s, <1>q, <1>l, <1>k, <1>v, <1>w, <2>n, <2>s
       DEF StaleOK, ToClear
  <2>2. CASE x = t
    <3>1. \A s \in 1..numreaders : pid[s] \in stale[t] => ToClear(t, s)
      BY <2>2, <2>n, <1>step, <1>d, <1>s, <1>q, <1>l, <1>k, <1>v, <1>w
         DEF StaleOK, Checking
    <3>2. \A s \in 1..numreaders : pid[s] \in stale[t] => ToClear(t, s)'
      BY <3>1, <2>s, <1>step, <1>d, <1>s, <1>q, <1>l, <1>k, <1>v, <1>w, <1>f, <1>g
         DEF ToClear, LoopOK, Checking
    <3> QED
      BY <3>2, <2>2, <2>n, <1>step, <1>d, <1>s, <1>q, <1>l, <1>k, <1>v, <1>w
         DEF StaleOK
  <2> QED BY <2>1, <2>2
<1>8. HolderKeepsSlot'
  BY <1>step, <1>d, <1>s, <1>q, <1>l, <1>k, <1>v, <1>w, <1>g
     DEF HolderKeepsSlot, Slots
<1>9. CheckFindsAll'
  BY <1>step, <1>d, <1>s, <1>q, <1>l, <1>k, <1>v, <1>w, <1>g
     DEF CheckFindsAll, TypeOK, Slots
<1> QED BY <1>1, <1>2, <1>3, <1>4, <1>5, <1>6, <1>7, <1>8, <1>9

\* The slot cleared is of the dead process, which owns no slot.
LEMMA CheckClearInv == ASSUME IInv, NEW t \in Threads, CheckClear(t) PROVE IInv'
<1> USE ConstantsAssumption DEF IInv
<1>g.
      /\ numreaders \in 0..MaxReaders /\ pid \in [Slots -> Pids \cup {NoPid}]
      /\ Pid[t] \in Pids
  BY DEF TypeOK
<1>t. check[t] \in CheckLocals /\ check \in [Threads -> CheckLocals]
  BY DEF TypeOK
<1>f. /\ check[t].rdrs \in 0..MaxReaders /\ check[t].i \in 0..MaxReaders + 1
      /\ check[t].j \in 0..MaxReaders + 1
      /\ check[t].seen \in SUBSET Pids /\ check[t].at \in Pids \cup {NoPid}
      /\ check[t].rlocked \in BOOLEAN
      /\ check[t].after \in {"checked", "claim"}
  BY <1>t, LocalsFields
<1>step.
      /\ pc[t] = "clear" /\ check[t].j <= check[t].rdrs
      /\ pid' = [pid EXCEPT ![check[t].j] = IF @ = check[t].at THEN NoPid ELSE @]
      /\ numreaders' = numreaders /\ rmutex' = rmutex /\ live' = live
      /\ pidlock' = pidlock /\ live_reader' = live_reader
      /\ close_readers' = close_readers /\ closing' = closing /\ pc' = pc
      /\ tls' = tls /\ r' = r /\ stale' = stale
  BY DEF CheckClear, table, process, thread
<1>c. check' = [check EXCEPT ![t] = [check[t] EXCEPT !.j = check[t].j + 1]]
  BY DEF CheckClear, table, process, thread
<1>d. /\ \A x \in Threads : x # t => check'[x] = check[x]
      /\ check'[t].rdrs = check[t].rdrs
      /\ check'[t].i = check[t].i
      /\ check'[t].j = check[t].j + 1
      /\ check'[t].seen = check[t].seen
      /\ check'[t].at = check[t].at
      /\ check'[t].rlocked = check[t].rlocked
      /\ check'[t].after = check[t].after
  BY <1>c, <1>t DEF CheckLocals
<1>s. \A x \in Threads : Slot(x)' = Slot(x)
  BY <1>step DEF Slot
<1>k. check[t].j + 1 \in 0..MaxReaders + 1 /\ check[t].j \in 1..numreaders /\ LoopOK(t)
  BY <1>step, <1>f, <1>g DEF LoopInv, LoopOK, Checking
<1>p. /\ pid' \in [Slots -> Pids \cup {NoPid}]
      /\ \A s \in Slots : pid'[s] = pid[s] \/ (s = check[t].j /\ pid'[s] = NoPid)
      /\ pid'[check[t].j] # check[t].at
              /\ \A s \in Slots : pid[s] # check[t].at => pid'[s] = pid[s]
  BY <1>step, <1>k, <1>f, <1>g DEF Slots, LoopOK, Checking
<1>y. [check[t] EXCEPT !.j = check[t].j + 1] \in CheckLocals
  BY <1>k, <1>t, LocalsSet
<1>z. check' \in [Threads -> CheckLocals]
  BY <1>c, <1>y DEF TypeOK
<1>1. TypeOK'
  BY <1>z, <1>step, <1>d, <1>s, <1>k, <1>p DEF TypeOK
<1>2. MutexInv'
  BY <1>step, <1>d, <1>s, <1>k, <1>p DEF MutexInv, Checking, TypeOK
<1>3. ProcessInv'
  BY <1>step, <1>d, <1>s, <1>k, <1>p
     DEF ProcessInv, MutexInv, TypeOK, Claiming, Checking
<1>4. ClaimInv'
  BY <1>step, <1>d, <1>s, <1>k, <1>p DEF ClaimInv, MutexInv, TypeOK
<1>5. ClearInv'
  BY <1>step, <1>d, <1>s, <1>k, <1>p DEF ClearInv, MutexInv
<1>6. LoopInv'
  <2> SUFFICES ASSUME NEW x \in Threads PROVE LoopOK(x)'
    BY DEF LoopInv
  <2>1. CASE x # t
    BY <2>1, <1>step, <1>d, <1>s, <1>k, <1>p, <1>g DEF LoopInv, LoopOK, TypeOK
  <2>2. CASE x = t
    BY <1>step, <1>d, <1>s, <1>k, <1>p, <1>f, <1>g DEF LoopInv, LoopOK, Checking
  <2> QED BY <2>1, <2>2
<1>7. StaleInv'
  <2> SUFFICES ASSUME NEW x \in Threads PROVE StaleOK(x)'
    BY DEF StaleInv
  <2>s. \A s \in 1..numreaders : s \in Slots
    BY <1>g DEF Slots
  <2>n. NoPid \notin stale[x] /\ StaleOK(x)
    BY DEF TypeOK, StaleInv
  <2>1. CASE x # t
    BY <2>1, <1>step, <1>d, <1>p, <2>n, <2>s DEF StaleOK, ToClear
  <2>2. CASE x = t
    <3>1. \A s \in 1..numreaders : pid'[s] \in stale[t] => pid'[s] = pid[s]
            /\ ToClear(t, s)
      BY <2>n, <2>s, <1>p, <1>step, <2>2 DEF StaleOK, Checking
    <3>2. \A s \in 1..numreaders : pid'[s] \in stale[t] => ToClear(t, s)'
      BY <3>1, <2>s, <1>p, <1>step, <1>d, <1>f, <1>g, <1>k, <2>2 DEF ToClear
    <3> QED BY <3>2, <2>n, <1>step, <2>2 DEF StaleOK
  <2> QED BY <2>1, <2>2
<1>8. HolderKeepsSlot'
  <2>1. \A x \in Threads : Slot(x) # 0 => Slot(x) \in Slots /\ pid[Slot(x)] = Pid[x]
    BY <1>g DEF HolderKeepsSlot, Slot, Slots, TypeOK
  <2>2. \A x \in Threads : Slot(x) # 0 => Pid[x] # check[t].at
    BY <1>step DEF ClearInv
  <2>3. \A x \in Threads : Slot(x) # 0 => pid'[Slot(x)] = pid[Slot(x)]
    BY <1>p, <2>1, <2>2
  <2> QED BY <1>step, <1>s, <2>3 DEF HolderKeepsSlot
<1>9. CheckFindsAll'
  BY <1>step, <1>d, <1>s, <1>k, <1>p, <1>g DEF CheckFindsAll, TypeOK, Slots
<1> QED BY <1>1, <1>2, <1>3, <1>4, <1>5, <1>6, <1>7, <1>8, <1>9

\* The slots of one dead process are all cleared.
LEMMA CheckClearedInv == ASSUME IInv, NEW t \in Threads, CheckCleared(t) PROVE IInv'
<1> USE ConstantsAssumption DEF IInv
<1>g.
      /\ numreaders \in 0..MaxReaders /\ pid \in [Slots -> Pids \cup {NoPid}]
      /\ Pid[t] \in Pids
  BY DEF TypeOK
<1>t. check[t] \in CheckLocals /\ check \in [Threads -> CheckLocals]
  BY DEF TypeOK
<1>f. /\ check[t].rdrs \in 0..MaxReaders /\ check[t].i \in 0..MaxReaders + 1
      /\ check[t].j \in 0..MaxReaders + 1
      /\ check[t].seen \in SUBSET Pids /\ check[t].at \in Pids \cup {NoPid}
      /\ check[t].rlocked \in BOOLEAN
      /\ check[t].after \in {"checked", "claim"}
  BY <1>t, LocalsFields
<1>step.
      /\ pc[t] = "clear" /\ check[t].j > check[t].rdrs
      /\ pid' = pid /\ numreaders' = numreaders
      /\ rmutex' = (IF check[t].rlocked THEN rmutex ELSE Free)
      /\ live' = live /\ pidlock' = pidlock /\ live_reader' = live_reader
      /\ close_readers' = close_readers /\ closing' = closing
      /\ pc' = [pc EXCEPT ![t] = "read"]
      /\ tls' = tls /\ r' = r /\ stale' = stale
  BY DEF CheckCleared, Goto, table, process
<1>c. check' = [check EXCEPT ![t] = [check[t] EXCEPT !.i = check[t].i + 1]]
  BY DEF CheckCleared, Goto, table, process
<1>d. /\ \A x \in Threads : x # t => check'[x] = check[x]
      /\ check'[t].rdrs = check[t].rdrs
      /\ check'[t].i = check[t].i + 1
      /\ check'[t].j = check[t].j
      /\ check'[t].seen = check[t].seen
      /\ check'[t].at = check[t].at
      /\ check'[t].rlocked = check[t].rlocked
      /\ check'[t].after = check[t].after
  BY <1>c, <1>t DEF CheckLocals
<1>s. \A x \in Threads : Slot(x)' = Slot(x)
  BY <1>step DEF Slot, TypeOK
<1>q. \A x \in Threads : x # t => pc'[x] = pc[x]
  BY <1>step DEF TypeOK
<1>l. pc'[t] = "read"
  BY <1>step DEF TypeOK
<1>k.
      /\ check[t].i \in 1..check[t].rdrs /\ check[t].i + 1 \in 0..MaxReaders + 1
      /\ LoopOK(t)
  BY <1>step, <1>f, <1>g DEF LoopInv, LoopOK, Checking
<1>y. [check[t] EXCEPT !.i = check[t].i + 1] \in CheckLocals
  BY <1>k, <1>t, LocalsSet
<1>z. check' \in [Threads -> CheckLocals]
  BY <1>c, <1>y DEF TypeOK
<1>1. TypeOK'
  BY <1>z, <1>step, <1>d, <1>s, <1>q, <1>l, <1>k DEF TypeOK
<1>2. MutexInv'
  BY <1>step, <1>d, <1>s, <1>q, <1>l, <1>k DEF MutexInv, Checking, TypeOK
<1>3. ProcessInv'
  BY <1>step, <1>d, <1>s, <1>q, <1>l, <1>k
     DEF ProcessInv, MutexInv, TypeOK, Claiming, Checking
<1>4. ClaimInv'
  BY <1>step, <1>d, <1>s, <1>q, <1>l, <1>k DEF ClaimInv, MutexInv, TypeOK
<1>5. ClearInv'
  BY <1>d, <1>s, <1>q, <1>l, <1>k DEF ClearInv, MutexInv
<1>6. LoopInv'
  <2> SUFFICES ASSUME NEW x \in Threads PROVE LoopOK(x)'
    BY DEF LoopInv
  <2>1. CASE x # t
    BY <2>1, <1>step, <1>d, <1>s, <1>q, <1>l, <1>k, <1>g DEF LoopInv, LoopOK, TypeOK
  <2>2. CASE x = t
    BY <1>step, <1>d, <1>s, <1>q, <1>l, <1>k, <1>f, <1>g
       DEF LoopInv, LoopOK, Checking
  <2> QED BY <2>1, <2>2
<1>7. StaleInv'
  <2> SUFFICES ASSUME NEW x \in Threads PROVE StaleOK(x)'
    BY DEF StaleInv
  <2>s. \A s \in 1..numreaders : s \in Slots
    BY <1>g DEF Slots
  <2>n. NoPid \notin stale[x] /\ StaleOK(x)
    BY DEF TypeOK, StaleInv
  <2>1. CASE x # t
    BY <2>1, <1>step, <1>d, <1>s, <1>q, <1>l, <1>k, <2>n, <2>s DEF StaleOK, ToClear
  <2>2. CASE x = t
    <3>1. \A s \in 1..numreaders : pid[s] \in stale[t] => ToClear(t, s)
      BY <2>2, <2>n, <1>step, <1>d, <1>s, <1>q, <1>l, <1>k DEF StaleOK, Checking
    <3>2. \A s \in 1..numreaders : pid[s] \in stale[t] => ToClear(t, s)'
      BY <3>1, <2>s, <1>step, <1>d, <1>s, <1>q, <1>l, <1>k, <1>f, <1>g
         DEF ToClear, LoopOK, Checking
    <3> QED BY <3>2, <2>2, <2>n, <1>step, <1>d, <1>s, <1>q, <1>l, <1>k DEF StaleOK
  <2> QED BY <2>1, <2>2
<1>8. HolderKeepsSlot'
  BY <1>step, <1>d, <1>s, <1>q, <1>l, <1>k, <1>g DEF HolderKeepsSlot, Slots
<1>9. CheckFindsAll'
  BY <1>step, <1>d, <1>s, <1>q, <1>l, <1>k, <1>g DEF CheckFindsAll, TypeOK, Slots
<1> QED BY <1>1, <1>2, <1>3, <1>4, <1>5, <1>6, <1>7, <1>8, <1>9

\* No stale slot is left, or the mutex is kept for the claim that repaired it.
LEMMA CheckEndInv == ASSUME IInv, NEW t \in Threads, CheckEnd(t) PROVE IInv'
<1> USE ConstantsAssumption DEF IInv
<1>g.
      /\ numreaders \in 0..MaxReaders /\ pid \in [Slots -> Pids \cup {NoPid}]
      /\ Pid[t] \in Pids
  BY DEF TypeOK
<1>t. check[t] \in CheckLocals /\ check \in [Threads -> CheckLocals]
  BY DEF TypeOK
<1>f. /\ check[t].rdrs \in 0..MaxReaders /\ check[t].i \in 0..MaxReaders + 1
      /\ check[t].j \in 0..MaxReaders + 1
      /\ check[t].seen \in SUBSET Pids /\ check[t].at \in Pids \cup {NoPid}
      /\ check[t].rlocked \in BOOLEAN
      /\ check[t].after \in {"checked", "claim"}
  BY <1>t, LocalsFields
<1>step.
      /\ pc[t] = "read" /\ check[t].i > check[t].rdrs
      /\ check[t].after \in {"checked", "claim"}
      /\ pid' = pid /\ numreaders' = numreaders
      /\ rmutex' = (IF check[t].rlocked /\ check[t].after = "checked" THEN Free
              ELSE rmutex)
      /\ live' = live /\ pidlock' = pidlock /\ live_reader' = live_reader
      /\ close_readers' = close_readers /\ closing' = closing
      /\ pc' = [pc EXCEPT ![t] = check[t].after]
      /\ tls' = tls /\ r' = r /\ stale' = stale
  BY <1>f DEF CheckEnd, Goto, NoCheck, table, process
<1>c. check' = [check EXCEPT ![t] = [rdrs |-> 0, i |-> 0, j |-> 0, seen |-> {},
        at |-> NoPid, rlocked |-> FALSE, after |-> "checked"]]
  BY DEF CheckEnd, Goto, NoCheck, table, process
<1>y. [rdrs |-> 0, i |-> 0, j |-> 0, seen |-> {}, at |-> NoPid, rlocked |-> FALSE,
        after |-> "checked"] \in CheckLocals
  BY <1>g, LocalsNew
<1>d. /\ \A x \in Threads : x # t => check'[x] = check[x]
      /\ check'[t].rdrs = 0
      /\ check'[t].i = 0
      /\ check'[t].j = 0
      /\ check'[t].seen = {}
      /\ check'[t].at = NoPid
      /\ check'[t].rlocked = FALSE
      /\ check'[t].after = "checked"
  BY <1>c DEF TypeOK
<1>s. \A x \in Threads : Slot(x)' = Slot(x)
  BY <1>step DEF Slot, TypeOK
<1>q. \A x \in Threads : x # t => pc'[x] = pc[x]
  BY <1>step DEF TypeOK
<1>l. pc'[t] = check[t].after
  BY <1>step DEF TypeOK
<1>z. check' \in [Threads -> CheckLocals]
  BY <1>c, <1>y DEF TypeOK
<1>1. TypeOK'
  BY <1>z, <1>step, <1>d, <1>s, <1>q, <1>l DEF TypeOK
<1>2. MutexInv'
  BY <1>step, <1>d, <1>s, <1>q, <1>l DEF MutexInv, Checking, TypeOK
<1>3. ProcessInv'
  BY <1>step, <1>d, <1>s, <1>q, <1>l
     DEF ProcessInv, MutexInv, TypeOK, Claiming, Checking
<1>4. ClaimInv'
  BY <1>step, <1>d, <1>s, <1>q, <1>l DEF ClaimInv, MutexInv, TypeOK
<1>5. ClearInv'
  BY <1>d, <1>s, <1>q, <1>l DEF ClearInv, MutexInv
<1>6. LoopInv'
  <2> SUFFICES ASSUME NEW x \in Threads PROVE LoopOK(x)'
    BY DEF LoopInv
  <2>1. CASE x # t
    BY <2>1, <1>step, <1>d, <1>s, <1>q, <1>l, <1>g DEF LoopInv, LoopOK, TypeOK
  <2>2. CASE x = t
    BY <1>step, <1>d, <1>s, <1>q, <1>l, <1>f, <1>g DEF LoopInv, LoopOK, Checking
  <2> QED BY <2>1, <2>2
<1>7. StaleInv'
  <2> SUFFICES ASSUME NEW x \in Threads PROVE StaleOK(x)'
    BY DEF StaleInv
  <2>s. \A s \in 1..numreaders : s \in Slots
    BY <1>g DEF Slots
  <2>n. NoPid \notin stale[x] /\ StaleOK(x)
    BY DEF TypeOK, StaleInv
  <2>1. CASE x # t
    BY <2>1, <1>step, <1>d, <1>s, <1>q, <1>l, <2>n, <2>s DEF StaleOK, ToClear
  <2>2. CASE x = t
    <3>1. \A s \in 1..numreaders : pid[s] \in stale[t] => ToClear(t, s)
      BY <2>2, <2>n, <1>step, <1>d, <1>s, <1>q, <1>l DEF StaleOK, Checking
    <3>2. \A s \in 1..numreaders : pid[s] \in stale[t] => ToClear(t, s)'
      BY <3>1, <2>s, <1>step, <1>d, <1>s, <1>q, <1>l, <1>f, <1>g
         DEF ToClear, LoopOK, Checking
    <3> QED BY <3>2, <2>2, <2>n, <1>step, <1>d, <1>s, <1>q, <1>l DEF StaleOK
  <2> QED BY <2>1, <2>2
<1>8. HolderKeepsSlot'
  BY <1>step, <1>d, <1>s, <1>q, <1>l, <1>g DEF HolderKeepsSlot, Slots
<1>9. CheckFindsAll'
  BY <1>step, <1>d, <1>s, <1>q, <1>l, <1>f, <1>g
     DEF CheckFindsAll, StaleInv, StaleOK, ToClear, Checking
<1> QED BY <1>1, <1>2, <1>3, <1>4, <1>5, <1>6, <1>7, <1>8, <1>9

\* mdb_reader_check returns.
LEMMA CheckReturnInv == ASSUME IInv, NEW t \in Threads, CheckReturn(t) PROVE IInv'
<1> USE ConstantsAssumption DEF IInv
<1>g.
      /\ numreaders \in 0..MaxReaders /\ pid \in [Slots -> Pids \cup {NoPid}]
      /\ Pid[t] \in Pids
  BY DEF TypeOK
<1>step.
      /\ pc[t] = "checked"
      /\ pid' = pid /\ numreaders' = numreaders /\ rmutex' = rmutex /\ live' = live
      /\ pidlock' = pidlock /\ live_reader' = live_reader
      /\ close_readers' = close_readers /\ closing' = closing
      /\ pc' = [pc EXCEPT ![t] = "idle"]
      /\ tls' = tls /\ r' = r
      /\ stale' = [stale EXCEPT ![t] = {}]
      /\ check' = check
  BY DEF CheckReturn, Goto, table, process
<1>s. \A x \in Threads : Slot(x)' = Slot(x)
  BY <1>step DEF Slot, TypeOK
<1>q. \A x \in Threads : x # t => pc'[x] = pc[x]
  BY <1>step DEF TypeOK
<1>l. pc'[t] = "idle"
  BY <1>step DEF TypeOK
<1>1. TypeOK'
  BY <1>step, <1>s, <1>q, <1>l DEF TypeOK
<1>2. MutexInv'
  BY <1>step, <1>s, <1>q, <1>l DEF MutexInv, Checking, TypeOK
<1>3. ProcessInv'
  BY <1>step, <1>s, <1>q, <1>l DEF ProcessInv, MutexInv, TypeOK, Claiming, Checking
<1>4. ClaimInv'
  BY <1>step, <1>s, <1>q, <1>l DEF ClaimInv, MutexInv, TypeOK
<1>5. ClearInv'
  BY <1>step, <1>s, <1>q, <1>l DEF ClearInv, MutexInv
<1>6. LoopInv'
  BY <1>step, <1>s, <1>q, <1>l DEF LoopInv, LoopOK, Checking
<1>7. StaleInv'
  <2> SUFFICES ASSUME NEW x \in Threads PROVE StaleOK(x)'
    BY DEF StaleInv
  <2>s. \A s \in 1..numreaders : s \in Slots
    BY <1>g DEF Slots
  <2>n. NoPid \notin stale[x] /\ StaleOK(x)
    BY DEF TypeOK, StaleInv
  <2>1. CASE x # t
    BY <2>1, <1>step, <1>s, <1>q, <1>l, <2>n, <2>s DEF StaleOK, ToClear
  <2>2. CASE x = t
    BY <1>step, <1>s, <1>q, <1>l, <2>n, <2>s, <1>g
       DEF StaleOK, ToClear, Checking, LoopInv, LoopOK
  <2> QED BY <2>1, <2>2
<1>8. HolderKeepsSlot'
  BY <1>step, <1>s, <1>q, <1>l, <1>g DEF HolderKeepsSlot, Slots
<1>9. CheckFindsAll'
  BY <1>step, <1>s, <1>q, <1>l, <1>g DEF CheckFindsAll, TypeOK, Slots
<1> QED BY <1>1, <1>2, <1>3, <1>4, <1>5, <1>6, <1>7, <1>8, <1>9

\* The first opener forgets the slots others left, a later one takes nothing.
LEMMA OpenInv == ASSUME IInv, NEW p \in Pids, Open(p) PROVE IInv'
<1> USE ConstantsAssumption DEF IInv
<1>g. numreaders \in 0..MaxReaders /\ pid \in [Slots -> Pids \cup {NoPid}]
  BY DEF TypeOK
<1>s. stale' = [x \in Threads |-> stale[x] \ {p}]
        /\ \A x \in Threads : stale'[x] = stale[x] \ {p}
  BY DEF Open
<1>1. CASE live = {} /\ numreaders' = 0 /\ rmutex' = Free
  <2>step.
        /\ live = {} /\ p \notin live
        /\ pid' = pid
        /\ numreaders' = 0
        /\ rmutex' = Free
        /\ live' = live \cup {p}
        /\ pidlock' = pidlock /\ live_reader' = live_reader
        /\ close_readers' = close_readers /\ closing' = closing /\ pc' = pc
        /\ tls' = tls /\ r' = r
        /\ stale' = [x \in Threads |-> stale[x] \ {p}]
        /\ check' = check
    BY <1>1 DEF Open, thread
  <2>k. \A x \in Threads : pc[x] = "idle" /\ tls[x] = 0 /\ Slot(x) = 0
    BY <2>step DEF ProcessInv, Slot
  <2>n. \A q \in Pids : live_reader[q] = FALSE /\ closing[q] = 0 /\ close_readers[q] = 0
    BY <2>step DEF ProcessInv, TypeOK
  <2>l. \A x \in Threads : Slot(x)' = 0
    BY <2>step, <2>k DEF Slot
  <2>1. TypeOK'
    BY <2>step, <2>k, <2>n, <2>l DEF TypeOK
  <2>2. MutexInv'
    <3>1. \A x \in Threads : check[x].after = "claim" => check[x].rlocked
      BY DEF MutexInv
    <3> QED BY <2>step, <2>k DEF MutexInv, Checking
  <2>3. ProcessInv'
    BY <2>step, <2>k, <2>n, <2>l DEF ProcessInv, TypeOK, Claiming, Checking
  <2>4. ClaimInv'
    BY <2>step, <2>k, <2>n, <2>l DEF ClaimInv
  <2>5. ClearInv'
    BY <2>k, <2>n, <2>l DEF ClearInv
  <2>6. LoopInv'
    BY <2>step, <2>k, <2>n, <2>l DEF LoopInv, LoopOK, Checking
  <2>7. StaleInv'
    <3> SUFFICES ASSUME NEW x \in Threads PROVE StaleOK(x)'
      BY DEF StaleInv
    <3> QED BY <2>step, <2>k, <1>s DEF StaleOK, Checking
  <2>8. HolderKeepsSlot'
    BY <2>k, <2>n, <2>l DEF HolderKeepsSlot
  <2>9. CheckFindsAll'
    BY <2>step, <2>k, <2>n, <2>l DEF CheckFindsAll
  <2> QED BY <2>1, <2>2, <2>3, <2>4, <2>5, <2>6, <2>7, <2>8, <2>9
<1>2. CASE live # {} /\ UNCHANGED <<numreaders, rmutex>>
  <2>step.
        /\ p \notin live
        /\ pid' = pid /\ numreaders' = numreaders /\ rmutex' = rmutex
        /\ live' = live \cup {p}
        /\ pidlock' = pidlock /\ live_reader' = live_reader
        /\ close_readers' = close_readers /\ closing' = closing /\ pc' = pc
        /\ tls' = tls /\ r' = r
        /\ stale' = [x \in Threads |-> stale[x] \ {p}]
        /\ check' = check
    BY <1>2 DEF Open, thread
  <2>1. TypeOK'
    BY <2>step DEF TypeOK
  <2>2. MutexInv'
    BY <2>step DEF MutexInv, Checking, TypeOK
  <2>3. ProcessInv'
    BY <2>step DEF ProcessInv, MutexInv, TypeOK, Claiming, Checking
  <2>4. ClaimInv'
    BY <2>step DEF ClaimInv, MutexInv, TypeOK
  <2>5. ClearInv'
    BY <2>step DEF ClearInv, MutexInv, Slot
  <2>6. LoopInv'
    BY <2>step DEF LoopInv, LoopOK, Checking
  <2>7. StaleInv'
    <3> SUFFICES ASSUME NEW x \in Threads PROVE StaleOK(x)'
      BY DEF StaleInv
    <3>1. StaleOK(x)
      BY DEF StaleInv
    <3> QED BY <3>1, <2>step, <1>s DEF StaleOK, ToClear, Checking
  <2>8. HolderKeepsSlot'
    BY <2>step, <1>g DEF HolderKeepsSlot, Slots, Slot, TypeOK, ProcessInv
  <2>9. CheckFindsAll'
    BY <2>step, <1>s DEF CheckFindsAll
  <2> QED BY <2>1, <2>2, <2>3, <2>4, <2>5, <2>6, <2>7, <2>8, <2>9
<1> QED BY <1>1, <1>2 DEF Open

\* Closing drops the slots of all threads of the process.
LEMMA CloseBeginInv == ASSUME IInv, NEW p \in Pids, CloseBegin(p) PROVE IInv'
<1> USE ConstantsAssumption DEF IInv
<1>g. numreaders \in 0..MaxReaders /\ pid \in [Slots -> Pids \cup {NoPid}]
  BY DEF TypeOK
<1>step.
      /\ p \in live /\ closing[p] = 0
      /\ \A x \in Threads : Pid[x] = p => pc[x] = "idle"
      /\ pid' = pid /\ numreaders' = numreaders /\ rmutex' = rmutex /\ live' = live
      /\ pidlock' = pidlock /\ live_reader' = live_reader
      /\ close_readers' = close_readers
      /\ closing' = [closing EXCEPT ![p] = close_readers[p] + 1]
      /\ pc' = pc
      /\ tls' = [x \in Threads |-> IF Pid[x] = p THEN 0 ELSE tls[x]]
      /\ r' = r /\ stale' = stale /\ check' = check
  BY DEF CloseBegin, ThreadsOf, Reset, table
<1>s. \A x \in Threads : Slot(x)' = IF Pid[x] = p THEN 0 ELSE Slot(x)
  BY <1>step DEF Slot
<1>1. TypeOK'
  BY <1>step, <1>s DEF TypeOK
<1>2. MutexInv'
  BY <1>step, <1>s DEF MutexInv, Checking, TypeOK
<1>3. ProcessInv'
  BY <1>step, <1>s DEF ProcessInv, MutexInv, TypeOK, Claiming, Checking
<1>4. ClaimInv'
  BY <1>step, <1>s DEF ClaimInv, MutexInv, TypeOK
<1>5. ClearInv'
  BY <1>step, <1>s DEF ClearInv
<1>6. LoopInv'
  BY <1>step, <1>s DEF LoopInv, LoopOK, Checking
<1>7. StaleInv'
  <2> SUFFICES ASSUME NEW x \in Threads PROVE StaleOK(x)'
    BY DEF StaleInv
  <2>1. StaleOK(x)
    BY DEF StaleInv
  <2> QED BY <2>1, <1>step, <1>s DEF StaleOK, ToClear, Checking
<1>8. HolderKeepsSlot'
  BY <1>step, <1>s DEF HolderKeepsSlot
<1>9. CheckFindsAll'
  BY <1>step, <1>s, <1>g DEF CheckFindsAll, TypeOK, Slots
<1> QED BY <1>1, <1>2, <1>3, <1>4, <1>5, <1>6, <1>7, <1>8, <1>9

\* Only slots of the process that closes are cleared, and its threads own none.
LEMMA CloseSlotInv == ASSUME IInv, NEW p \in Pids, CloseSlot(p) PROVE IInv'
<1> USE ConstantsAssumption DEF IInv
<1>g. numreaders \in 0..MaxReaders /\ pid \in [Slots -> Pids \cup {NoPid}]
  BY DEF TypeOK
<1>step.
      /\ closing[p] - 1 > 0
      /\ pid' = [pid EXCEPT ![closing[p] - 1] = IF @ = p THEN NoPid ELSE @]
      /\ numreaders' = numreaders /\ rmutex' = rmutex /\ live' = live
      /\ pidlock' = pidlock /\ live_reader' = live_reader
      /\ close_readers' = close_readers
      /\ closing' = [closing EXCEPT ![p] = closing[p] - 1]
      /\ pc' = pc /\ tls' = tls /\ r' = r /\ stale' = stale /\ check' = check
  BY DEF CloseSlot, thread
<1>k. closing[p] - 1 \in Slots
  BY <1>step DEF TypeOK, Slots
<1>p. pid' \in [Slots -> Pids \cup {NoPid}]
        /\ \A s \in Slots : pid'[s] = pid[s] \/ (pid[s] = p /\ pid'[s] = NoPid)
  BY <1>step, <1>k, <1>g
<1>s. \A x \in Threads : Slot(x)' = Slot(x) /\ (Slot(x) # 0 => Pid[x] # p)
  BY <1>step DEF Slot, ProcessInv, TypeOK
<1>1. TypeOK'
  BY <1>step, <1>k, <1>p, <1>s DEF TypeOK
<1>2. MutexInv'
  BY <1>step, <1>k, <1>p, <1>s DEF MutexInv, Checking, TypeOK
<1>3. ProcessInv'
  BY <1>step, <1>k, <1>p, <1>s DEF ProcessInv, MutexInv, TypeOK, Claiming, Checking
<1>4. ClaimInv'
  BY <1>step, <1>k, <1>p, <1>s DEF ClaimInv, MutexInv, TypeOK
<1>5. ClearInv'
  BY <1>step, <1>k, <1>p, <1>s DEF ClearInv
<1>6. LoopInv'
  BY <1>step, <1>k, <1>p, <1>s DEF LoopInv, LoopOK, Checking
<1>7. StaleInv'
  <2> SUFFICES ASSUME NEW x \in Threads PROVE StaleOK(x)'
    BY DEF StaleInv
  <2>s. \A s \in 1..numreaders : s \in Slots
    BY <1>g DEF Slots
  <2>1. StaleOK(x) /\ NoPid \notin stale[x]
    BY DEF StaleInv, TypeOK
  <2> QED BY <2>1, <2>s, <1>step, <1>k, <1>p, <1>s DEF StaleOK, ToClear, Checking
<1>8. HolderKeepsSlot'
  BY <1>step, <1>k, <1>p, <1>s, <1>g DEF HolderKeepsSlot, Slots
<1>9. CheckFindsAll'
  BY <1>step, <1>k, <1>p, <1>s, <1>g DEF CheckFindsAll, TypeOK, Slots
<1> QED BY <1>1, <1>2, <1>3, <1>4, <1>5, <1>6, <1>7, <1>8, <1>9

\* A process that has closed owns nothing.
LEMMA CloseEndInv == ASSUME IInv, NEW p \in Pids, CloseEnd(p) PROVE IInv'
<1> USE ConstantsAssumption DEF IInv
<1>g. numreaders \in 0..MaxReaders /\ pid \in [Slots -> Pids \cup {NoPid}]
  BY DEF TypeOK
<1>step.
      /\ closing[p] = 1
      /\ pid' = pid /\ numreaders' = numreaders /\ rmutex' = rmutex
      /\ live' = live \ {p}
      /\ pidlock' = pidlock \ {p}
      /\ live_reader' = [live_reader EXCEPT ![p] = FALSE]
      /\ close_readers' = [close_readers EXCEPT ![p] = 0]
      /\ closing' = [closing EXCEPT ![p] = 0]
      /\ pc' = pc /\ tls' = tls /\ r' = r /\ stale' = stale /\ check' = check
  BY DEF CloseEnd, Leave, table, thread
<1>s. \A x \in Threads : Slot(x)' = Slot(x)
        /\ (Slot(x) # 0 \/ pc[x] # "idle" => Pid[x] # p)
  BY <1>step DEF Slot, ProcessInv, TypeOK
<1>1. TypeOK'
  BY <1>step, <1>s DEF TypeOK
<1>2. MutexInv'
  BY <1>step, <1>s DEF MutexInv, Checking, TypeOK
<1>3. ProcessInv'
  BY <1>step, <1>s DEF ProcessInv, MutexInv, TypeOK, Claiming, Checking
<1>4. ClaimInv'
  BY <1>step, <1>s DEF ClaimInv, TypeOK
<1>5. ClearInv'
  BY <1>step, <1>s DEF ClearInv
<1>6. LoopInv'
  BY <1>step, <1>s DEF LoopInv, LoopOK, Checking
<1>7. StaleInv'
  <2> SUFFICES ASSUME NEW x \in Threads PROVE StaleOK(x)'
    BY DEF StaleInv
  <2>1. StaleOK(x)
    BY DEF StaleInv
  <2> QED BY <2>1, <1>step, <1>s DEF StaleOK, ToClear, Checking
<1>8. HolderKeepsSlot'
  BY <1>step, <1>s, <1>g DEF HolderKeepsSlot, TypeOK
<1>9. CheckFindsAll'
  BY <1>step, <1>s, <1>g DEF CheckFindsAll, TypeOK, Slots
<1> QED BY <1>1, <1>2, <1>3, <1>4, <1>5, <1>6, <1>7, <1>8, <1>9

\* The slots of a dead process have no owner any more.
LEMMA DieInv == ASSUME IInv, NEW p \in Pids, Die(p) PROVE IInv'
<1> USE ConstantsAssumption DEF IInv
<1>g. numreaders \in 0..MaxReaders /\ pid \in [Slots -> Pids \cup {NoPid}]
  BY DEF TypeOK
<1>step.
      /\ p \in live
      /\ check' = [x \in Threads |-> IF Pid[x] = p THEN NoCheck ELSE check[x]]
      /\ pid' = pid /\ numreaders' = numreaders
      /\ rmutex' = IF rmutex \in Threads /\ Pid[rmutex] = p THEN OwnerDead ELSE rmutex
      /\ live' = live \ {p}
      /\ pidlock' = pidlock \ {p}
      /\ live_reader' = [live_reader EXCEPT ![p] = FALSE]
      /\ close_readers' = [close_readers EXCEPT ![p] = 0]
      /\ closing' = [closing EXCEPT ![p] = 0]
      /\ pc' = [x \in Threads |-> IF Pid[x] = p THEN "idle" ELSE pc[x]]
      /\ tls' = [x \in Threads |-> IF Pid[x] = p THEN 0 ELSE tls[x]]
      /\ r' = [x \in Threads |-> IF Pid[x] = p THEN 0 ELSE r[x]]
      /\ stale' = [x \in Threads |-> IF Pid[x] = p THEN {} ELSE stale[x]]
  BY DEF Die, Leave, ThreadsOf, Reset, table
<1>d. NoCheck \in CheckLocals /\ NoCheck.after = "checked" /\ NoCheck.rlocked = FALSE
  BY DEF NoCheck, CheckLocals
<1>q. \A x \in Threads : IF Pid[x] = p THEN pc'[x] = "idle" /\ tls'[x] = 0
        /\ check'[x] = NoCheck /\ stale'[x] = {}
        ELSE pc'[x] = pc[x] /\ tls'[x] = tls[x] /\ r'[x] = r[x]
        /\ check'[x] = check[x] /\ stale'[x] = stale[x]
  BY <1>step
<1>s. \A x \in Threads : Slot(x)' = IF Pid[x] = p THEN 0 ELSE Slot(x)
  BY <1>step DEF Slot
<1>1. TypeOK'
  BY <1>step, <1>d, <1>q, <1>s DEF TypeOK
<1>2. MutexInv'
  BY <1>step, <1>d, <1>q, <1>s DEF MutexInv, Checking, TypeOK
<1>3. ProcessInv'
  BY <1>step, <1>d, <1>q, <1>s DEF ProcessInv, MutexInv, TypeOK, Claiming, Checking
<1>4. ClaimInv'
  BY <1>step, <1>d, <1>q, <1>s DEF ClaimInv, MutexInv, TypeOK
<1>5. ClearInv'
  BY <1>d, <1>q, <1>s DEF ClearInv
<1>6. LoopInv'
  BY <1>step, <1>d, <1>q, <1>s DEF LoopInv, LoopOK, Checking
<1>7. StaleInv'
  <2> SUFFICES ASSUME NEW x \in Threads PROVE StaleOK(x)'
    BY DEF StaleInv
  <2>1. StaleOK(x)
    BY DEF StaleInv
  <2> QED BY <2>1, <1>step, <1>d, <1>q, <1>s DEF StaleOK, ToClear, Checking
<1>8. HolderKeepsSlot'
  BY <1>step, <1>d, <1>q, <1>s, <1>g DEF HolderKeepsSlot, TypeOK
<1>9. CheckFindsAll'
  BY <1>step, <1>d, <1>q, <1>s, <1>g DEF CheckFindsAll, TypeOK, Slots
<1> QED BY <1>1, <1>2, <1>3, <1>4, <1>5, <1>6, <1>7, <1>8, <1>9

\* The table is consistent when the lock file is new.
LEMMA InitInv == Init => IInv
<1> SUFFICES ASSUME Init PROVE IInv
  OBVIOUS
<1> USE ConstantsAssumption DEF Init
<1>0. NoCheck \in CheckLocals /\ NoCheck.after = "checked" /\ NoCheck.rlocked = FALSE
  BY DEF NoCheck, CheckLocals
<1>s. \A x \in Threads : Slot(x) = 0 /\ pc[x] = "idle" /\ tls[x] = 0
        /\ check[x] = NoCheck /\ stale[x] = {}
  BY DEF Slot
<1>1. TypeOK
  BY <1>0 DEF TypeOK, Slots
<1>2. MutexInv
  BY <1>0, <1>s DEF MutexInv, Checking
<1>3. ProcessInv
  BY <1>s DEF ProcessInv, Claiming, Checking
<1>4. ClaimInv
  BY DEF ClaimInv
<1>5. ClearInv
  BY DEF ClearInv
<1>6. LoopInv
  BY DEF LoopInv, LoopOK, Checking
<1>7. StaleInv
  BY DEF StaleInv, StaleOK, Checking
<1>8. HolderKeepsSlot
  BY <1>s DEF HolderKeepsSlot
<1>9. CheckFindsAll
  BY DEF CheckFindsAll
<1> QED BY <1>1, <1>2, <1>3, <1>4, <1>5, <1>6, <1>7, <1>8, <1>9 DEF IInv

\* A step that changes nothing keeps it.
LEMMA StutterInv == IInv /\ UNCHANGED vars => IInv'
<1> SUFFICES ASSUME IInv, UNCHANGED vars PROVE IInv'
  OBVIOUS
<1> USE DEF vars, table, process, thread, IInv
<1>1. TypeOK'
  BY DEF TypeOK
<1>2. MutexInv'
  BY DEF MutexInv
<1>3. ProcessInv'
  BY DEF ProcessInv, Claiming
<1>4. ClaimInv'
  BY DEF ClaimInv
<1>5. ClearInv' /\ HolderKeepsSlot'
  <2>1. \A x \in Threads : Slot(x)' = Slot(x)
    BY DEF Slot
  <2> QED BY <2>1 DEF ClearInv, HolderKeepsSlot
<1>6. LoopInv'
  BY DEF LoopInv, LoopOK
<1>7. StaleInv'
  BY DEF StaleInv, StaleOK, ToClear
<1>8. CheckFindsAll'
  BY DEF CheckFindsAll
<1> QED BY <1>1, <1>2, <1>3, <1>4, <1>5, <1>6, <1>7, <1>8

\* Every step keeps it.
LEMMA NextInv == IInv /\ [Next]_vars => IInv'
<1> SUFFICES ASSUME IInv, [Next]_vars PROVE IInv'
  OBVIOUS
<1>1. ASSUME NEW t \in Threads, ThreadNext(t) PROVE IInv'
  BY <1>1, ClaimBeginInv, ClaimLockInv, ClaimFullInv, ClaimResetInv,
     ClaimPublishInv, ClaimOwnInv, ClaimEndInv, ThreadExitInv, CheckBeginInv,
     CheckReadInv, CheckPidInv, CheckLockInv, CheckAgainInv, CheckClearInv,
     CheckClearedInv, CheckEndInv, CheckReturnInv
     DEF ThreadNext
<1>2. ASSUME NEW p \in Pids, ProcessNext(p) PROVE IInv'
  BY <1>2, OpenInv, CloseBeginInv, CloseSlotInv, CloseEndInv, DieInv DEF ProcessNext
<1>3. CASE UNCHANGED vars
  BY <1>3, StutterInv
<1> QED BY <1>1, <1>2, <1>3 DEF Next

\* The reader table stays consistent, whatever claims, checks, repairs of the
\* mutex, deaths and reused process ids come together, for any number of
\* threads, processes and slots.
THEOREM Invariant == Spec => []IInv
BY InitInv, NextInv, PTL DEF Spec

\* Every variable has its type: no slot beyond me_maxreaders is touched.
THEOREM TypeCorrect == Spec => []TypeOK
<1>1. IInv => TypeOK
  BY DEF IInv
<1> QED BY <1>1, Invariant, PTL

\* A thread's slot stays its own until the thread gives it up: neither
\* mdb_reader_check nor a repair of the mutex clears it, although a check may
\* have judged the former owner of the process id dead.
THEOREM SlotsAreKept == Spec => []HolderKeepsSlot
<1>1. IInv => HolderKeepsSlot
  BY DEF IInv
<1> QED BY <1>1, Invariant, PTL

\* mdb_reader_check leaves no slot of a process that was dead before the call.
THEOREM ChecksAreComplete == Spec => []CheckFindsAll
<1>1. IInv => CheckFindsAll
  BY DEF IInv
<1> QED BY <1>1, Invariant, PTL
=============================================================================
