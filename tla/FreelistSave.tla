---------------------------- MODULE FreelistSave ----------------------------
(***************************************************************************)
(* A write transaction from begin to commit: the operations of TxnPages,   *)
(* nested transactions, and the commit of the outermost one, in which      *)
(* mdb_freelist_save stores the lists of free pages in the freeDB while    *)
(* storing them allocates and frees pages.                                 *)
(*                                                                         *)
(* The freeDB is one leaf; a record that does not fit a node has a run of  *)
(* overflow pages.  A record is reserved with a length (MDB_RESERVE) and   *)
(* filled later.                                                           *)
(***************************************************************************)
EXTENDS TxnPages

CONSTANTS
    NodeIds,    \* ids of a record that is kept in the leaf
    MaxFree1pg, \* me_maxfree_1pg: ids that fit one overflow page
    Writers     \* the cursors that write, the others only move (bound)

ASSUME SaveAssumption == 
    /\ NodeIds \in Nat
    /\ MaxFree1pg \in Nat \ {0}
    /\ Writers \subseteq Cursors

VARIABLE save   \* the local variables of mdb_freelist_save

vars == <<pagesVars, save>>

TxnId == 1 + Max({0} \cup UNION {DOMAIN b.recs : b \in Bases})

NoSave == [pglast |-> 0, headid |-> 0, freecnt |-> 0, headroom |-> 0,
           totalroom |-> 0, more |-> 1, again |-> FALSE]

-----------------------------------------------------------------------------
(* Puts and deletes in the freeDB                                          *)

\* OVPAGES of a record of len ids: a page of eight-byte words, two of them
\* its header, holds the length of the list and MaxFree1pg ids.
OvPages(len) ==
    LET words == MaxFree1pg + 3
    IN  (8 * (len + 1) + 15) \div (8 * words) + 1

\* The leaf of the freeDB touched, or a new one.
TouchLeaf(w) ==
    LET leaf == w.fdb.leaf
        rooted(a) == IF ~a.w.ok THEN a.w ELSE [a.w EXCEPT !.fdb.leaf = a.pgno]
    IN  IF leaf # 0 THEN PageTouch(w, leaf, PageGet(w, Top(w), leaf).buf)
        ELSE rooted(PageNew(w, 1))

\* mdb_page_search with MDB_PS_MODIFY: nothing to touch in an empty tree.
TouchEdge(w) == IF w.fdb.leaf = 0 THEN w ELSE TouchLeaf(w)

FdbTouch(w) == AndThen(AndThen(PageSpill(w), TouchLeaf),
                       LAMBDA v : WritePage(v, v.fdb.leaf))

SetRec(w, id, r) == [w EXCEPT !.fdb.recs = (id :> r) @@ @]

\* The overflow run of record id given up.
FreeRun(w, id) ==
    LET r == w.fdb.recs[id]
        gone(v) == PutTxn(v, [Txn(v) EXCEPT !.val = Restrict(@, DOMAIN @ \ {r.ov})])
    IN  IF r.ov = 0 THEN w ELSE gone(OvpageFree(w, r.ov, r.n))

\* Store a record of len ids: inline, or in a new run.
AddRec(w, id, ids, len) ==
    LET r == [ids |-> ids, len |-> len, ov |-> 0, n |-> 0]
        outside(a) == IF ~a.w.ok THEN a.w
                      ELSE SetRec(a.w, id, [r EXCEPT !.ov = a.pgno, !.n = OvPages(len)])
    IN  IF len <= NodeIds THEN SetRec(w, id, r)
        ELSE outside(PageNew(w, OvPages(len)))

\* _mdb_cursor_put: a run that is large enough and dirty is overwritten.
FdbPut(w, id, ids, len) ==
    LET put(v) ==
          LET r == v.fdb.recs[id]
              at == PageGet(v, Top(v), r.ov)
              u == IF at.buf = 0 /\ at.level > 0 THEN PageUnspill(v, r.ov, r.n) ELSE v
              inPlace == r.ov # 0 /\ r.n >= OvPages(len) /\ at.level > 0
              again(x) == AddRec(FreeRun(x, id), id, ids, len)
          IN  IF id \notin DOMAIN v.fdb.recs THEN AddRec(v, id, ids, len)
              ELSE IF inPlace
              THEN AndThen(u, LAMBDA x : SetRec(WritePage(x, r.ov), id,
                                         [r EXCEPT !.ids = ids, !.len = len]))
              ELSE IF r.ov = 0 /\ r.len = len
              THEN SetRec(v, id, [r EXCEPT !.ids = ids])
              ELSE again(v)
    IN  AndThen(FdbTouch(w), put)

\* _mdb_cursor_del of the first record; the last one takes the leaf with it.
FdbDelFirst(w) ==
    LET id == Min(DOMAIN w.fdb.recs)
        cut(v) == [FreeRun(v, id) EXCEPT
                    !.fdb.recs = Restrict(@, DOMAIN @ \ {id})]
        emptied(v) == [PutTxn(v, [Txn(v) EXCEPT
                            !.free = Append(@, v.fdb.leaf),
                            !.val = Restrict(@, DOMAIN @ \ {v.fdb.leaf})])
                       EXCEPT !.fdb.leaf = 0]
    IN  AndThen(AndThen(FdbTouch(w), cut),
                LAMBDA v : IF DOMAIN v.fdb.recs = {} THEN emptied(v) ELSE v)

-----------------------------------------------------------------------------
(* mdb_freelist_save                                                       *)

\* Loose pages are freed when there is no me_pghead to return them to.
FreeLoose(w) ==
    LET t == Txn(w)
    IN  IF ~w.pg.null THEN w
        ELSE PutTxn(w, [t EXCEPT !.free = @ \o t.loose,
                                 !.dirty = Restrict(@, DOMAIN @ \ Range(t.loose)),
                                 !.loose = <<>>])

SaveBegin(w) ==
    AndThen(IF w.pg.null THEN w ELSE TouchEdge(w), FreeLoose)

MopLen(w) == Len(w.pg.head) + Len(Txn(w).loose)

\* A record that was consumed is deleted, those reserved so far with it.
MustDelete(w, s) == s.pglast < w.pg.last /\ ~s.again
AfterDelete(w, s) ==
    LET id == Min(DOMAIN w.fdb.recs)
    IN  [s EXCEPT !.pglast = id, !.headid = id, !.headroom = 0, !.totalroom = 0]

\* The pages freed by this transaction go into one record; the put is
\* repeated at once when it freed more.
MustPutFree(w, s) == ~MustDelete(w, s) /\ s.freecnt < Len(Txn(w).free)
PutFree(w, s) ==
    LET edge == IF s.freecnt = 0 THEN TouchEdge(w) ELSE w
    IN  AndThen(edge, LAMBDA v :
            FdbPut(v, TxnId, Sorted(Txn(v).free), Len(Txn(v).free)))
\* Mutant: the length stored is not remembered.
AfterPutFreeForgotten(w, s) == [s EXCEPT !.again = FALSE]

AfterPutFree(w, s) ==
    LET stored == w.fdb.recs[TxnId].len
    IN  [s EXCEPT !.freecnt = stored, !.again = stored < Len(Txn(w).free)]

\* Mutant: room for one id less is enough.
RoomFoundShort(w, s) == s.totalroom + 1 >= MopLen(w)

\* Room for me_pghead is exact, or was too much twice.
RoomFound(w, s) == /\ s.totalroom >= MopLen(w)
                   /\ s.totalroom = MopLen(w) \/ s.more = 0
MustReserve(w, s) == /\ ~MustDelete(w, s)
                     /\ ~MustPutFree(w, s)
                     /\ ~RoomFound(w, s)
NextRoom(w, s0) ==
    LET s == IF s0.totalroom >= MopLen(w) THEN [s0 EXCEPT !.more = @ - 1]
             ELSE IF s0.headroom >= MaxFree1pg /\ s0.headid > 1
             THEN [s0 EXCEPT !.headid = @ - 1, !.headroom = 0]
             ELSE s0
        total == s.totalroom - s.headroom
        wanted == MopLen(w) - total
        share == wanted \div s.headid
        room == IF wanted > MaxFree1pg /\ s.headid > 1
                THEN share + (MaxFree1pg - (share % (MaxFree1pg + 1)))
                ELSE Max({wanted, 0})
    IN  [s EXCEPT !.headroom = room, !.totalroom = total + room]

\* Loose pages left return to me_pghead.  Still marked P_LOOSE they are not
\* written, as if they had left the dirty list.
ReturnLoose(w) ==
    LET t == Txn(w)
    IN  IF t.loose = <<>> THEN w
        ELSE [PutTxn(w, [t EXCEPT !.loose = <<>>,
                        !.dirty = Restrict(@, DOMAIN @ \ Range(t.loose))]) EXCEPT
                !.pg.head = XMerge(@, Sorted(t.loose))]

\* The reserved records are filled from the tail of me_pghead.
FillRecords(w) ==
    LET fill(acc, id) ==
            LET len == Min({acc.w.fdb.recs[id].len, Len(acc.mop)})
                cut == Len(acc.mop) - len
            IN  IF acc.mop = <<>> \/ ~acc.w.ok THEN acc
                ELSE [w |-> FdbPut(acc.w, id, SubSeq(acc.mop, cut + 1, Len(acc.mop)), len),
                      mop |-> SubSeq(acc.mop, 1, cut)]
        filled(v) == FoldLeft(fill, [w |-> v, mop |-> v.pg.head],
                              Ascending(DOMAIN v.fdb.recs)).w
    IN  filled(ReturnLoose(w))

-----------------------------------------------------------------------------
(* The transaction                                                         *)

\* mdb_txn_begin: nothing dirty, the lists empty, the trees as committed;
\* then the user puts cursors on a leaf.
BeginTxn(b) ==
    [root |-> b.root, leaves |-> b.leaves, ov |-> b.ov,
     val |-> [p \in b.pages |-> 0],
     dirty |-> <<>>, keep |-> {}, spill |-> <<>>, spills |-> FALSE,
     free |-> <<>>, loose |-> <<>>, room |-> MaxDirty, next |-> b.next,
     cur |-> [c \in Cursors |-> [on |-> TRUE, rbuf |-> 0, pg |-> b.at, buf |-> 0]],
     saved |-> NoState, err |-> FALSE]

Init ==
    /\ base \in Bases
    /\ txns = <<BeginTxn(base)>>
    /\ pgstate = NoState
    /\ file = [p \in 0 .. MaxPg - 1 |-> 0]
    /\ fdb = [leaf |-> base.leaf, recs |-> base.recs]
    /\ phase = "run"
    /\ ops = 0
    /\ leak = FALSE
    /\ save = NoSave

Become(w) ==
    /\ txns' = w.ts
    /\ pgstate' = w.pg
    /\ file' = w.file
    /\ fdb' = w.fdb
    /\ UNCHANGED base

May == phase = "run" /\ ops < MaxOps /\ ~Last(txns).err
On(c) == Last(txns).cur[c].on
Leaf(c) == Last(txns).cur[c].pg

Done(w) == Become(w) /\ ops' = ops + 1 /\ UNCHANGED <<phase, leak, save>>

OpSeek(c, p) == /\ May /\ p \in Last(txns).leaves \ {Leaf(c)}
                /\ Done(Seek(World, c, p))
OpPut(c) == May /\ On(c) /\ Done(Put(World, c))
OpSplit(c) == May /\ On(c) /\ Done(PutSplit(World, c))
OpPutOverflow(c) == May /\ On(c) /\ Done(PutOverflow(World, c))
OpOverwrite(c, p) == /\ May /\ On(c) /\ p \in Last(txns).ov
                     /\ Done(PutOverwrite(World, c, p))
OpDelOverflow(c, p) == /\ May /\ On(c) /\ p \in Last(txns).ov
                       /\ Done(DelOverflow(World, c, p))
OpMergeAway(c, q) == /\ May /\ On(c) /\ q \in Last(txns).leaves \ {Leaf(c)}
                     /\ Done(DelMergeAway(World, c, q))
OpMergeInto(c, q) == /\ May /\ On(c) /\ q \in Last(txns).leaves \ {Leaf(c)}
                     /\ Done(DelMergeInto(World, c, q))

\* The write of a spilled page fails.
OpSpillFails ==
    /\ IoErrors /\ May /\ Last(txns).room <= Need
    /\ \E first \in SpillList(World).batch :
         LET w == FailedSpill(World, first)
         IN  /\ Become(w)
             /\ leak' = (leak \/ \E l \in 1 .. Len(w.ts) - 1 : w.ts[l].keep # {})
    /\ ops' = ops + 1
    /\ UNCHANGED <<phase, save>>

Nest ==
    /\ May /\ Len(txns) < MaxLevel
    /\ txns' = Append(txns, NestedTxn(Last(txns)))
    /\ ops' = ops + 1
    /\ UNCHANGED <<pgstate, file, fdb, base, phase, leak, save>>

AbortChild ==
    /\ phase = "run" /\ Len(txns) > 1
    /\ EndNested(txns)
    /\ UNCHANGED <<file, fdb, base, phase, ops, leak, save>>

\* A child in error is aborted, and its parent is in error too.
CommitChild ==
    /\ phase = "run" /\ Len(txns) > 1
    /\ LET parent == txns[Len(txns) - 1]
           child == Last(txns)
           up == Front(Front(txns))
       IN  IF child.err
           THEN /\ txns' = Append(up, [parent EXCEPT !.err = TRUE])
                /\ pgstate' = child.saved
           ELSE /\ txns' = Append(up, CommitNested(parent, child))
                /\ UNCHANGED pgstate
    /\ UNCHANGED <<file, fdb, base, phase, ops, leak, save>>

\* mdb_txn_end of the outermost transaction: its lists are dropped, the
\* trees are those of the last version; what was written stays in the file.
Aborted(w) ==
    /\ phase' = "aborted" /\ file' = w.file
    /\ txns' = <<>> /\ pgstate' = NoState
    /\ fdb' = [leaf |-> base.leaf, recs |-> base.recs]
    /\ save' = NoSave /\ ops' = 0 /\ leak' = FALSE
    /\ UNCHANGED base

AbortTop == phase = "run" /\ Len(txns) = 1 /\ Aborted(World)

\* One step of a commit; its failure aborts the transaction.
Step(w, ph, s) ==
    IF w.ok THEN Become(w) /\ phase' = ph /\ save' = s /\ UNCHANGED <<ops, leak>>
    ELSE Aborted(w)

CommitTop ==
    /\ phase = "run" /\ Len(txns) = 1
    /\ LET t == txns[1]
       IN  IF t.err THEN Aborted(World)
           ELSE /\ t.dirty # <<>> \/ t.spills
                /\ Step(SaveBegin([World EXCEPT !.ts[1].cur =
                            [c \in Cursors |-> Closed]]), "save", NoSave)

SaveDelete == /\ phase = "save" /\ MustDelete(World, save)
              /\ Step(FdbDelFirst(World), "save", AfterDelete(World, save))

SavePutFree ==
    /\ phase = "save" /\ MustPutFree(World, save)
    /\ LET stored(w) == Step(w, "save", IF w.ok THEN AfterPutFree(w, save) ELSE save)
       IN  stored(PutFree(World, save))

SaveReserve ==
    /\ phase = "save" /\ MustReserve(World, save)
    /\ LET s == NextRoom(World, save)
       IN  Step(FdbPut(World, s.headid, <<>>, s.headroom), "save", s)

SaveFill ==
    /\ phase = "save"
    /\ ~MustDelete(World, save) /\ ~MustPutFree(World, save)
    /\ RoomFound(World, save)
    /\ Step(FillRecords(World), "flush", save)

Flush == /\ phase = "flush"
         /\ Step([PageFlush(World, 0, {}) EXCEPT !.pg = NoState], "done", save)

FlushFails ==
    /\ IoErrors /\ phase = "flush"
    /\ \E p \in DOMAIN txns[1].dirty :
         Aborted(PageFlush(World, 0, {q \in DOMAIN txns[1].dirty : q >= p}))

Over == phase \in {"done", "aborted"} /\ UNCHANGED vars

SaveStep == SaveDelete \/ SavePutFree \/ SaveReserve \/ SaveFill
Commit == SaveStep \/ Flush \/ FlushFails

Operation ==
    \/ \E c \in Cursors, p \in 0 .. MaxPg - 1 : OpSeek(c, p)
    \/ \E c \in Writers : OpPut(c) \/ OpSplit(c) \/ OpPutOverflow(c)
    \/ \E c \in Writers, p \in 0 .. MaxPg - 1 :
         \/ OpOverwrite(c, p) \/ OpDelOverflow(c, p)
         \/ OpMergeAway(c, p) \/ OpMergeInto(c, p)
    \/ OpSpillFails

Next == \/ Operation
        \/ Nest \/ AbortChild \/ CommitChild \/ AbortTop \/ CommitTop
        \/ Commit
        \/ Over

\* The thread that commits goes on: it waits for nothing in these steps.
\* This is WF_vars(Commit) written out: in these phases every state has a
\* step of Commit and no other action has one.
Committing == phase \in {"save", "flush"}
CommitFairness == <>[]Committing => []<><<Committing>>_vars

Spec == Init /\ [][Next]_vars /\ CommitFairness

-----------------------------------------------------------------------------
(* Properties                                                              *)

Levels == 1 .. Len(txns)

\* Types, and the shape of the lists that the code relies on.
TypeOK ==
    /\ phase \in {"run", "save", "flush", "done", "aborted"}
    /\ \A l \in Levels :
         LET t == txns[l]
         IN  /\ t.room \in 0 .. MaxDirty
             /\ Cardinality(DOMAIN t.dirty) <= MaxDirty
             /\ t.next \in 2 .. MaxPg
             /\ Range(t.loose) \subseteq DOMAIN t.dirty
             /\ t.keep \subseteq DOMAIN t.dirty
    /\ ops \in 0 .. MaxOps

\* Every list that is searched by halving is in descending order, so that
\* the search finds each entry of it: after a spill, after an overflow run
\* was taken out, after a child's list was merged (mdb.c:6182, 7899).
ListsSearchable ==
    /\ Descending(pgstate.head)
    /\ \A l \in Levels : \A i \in DOMAIN txns[l].spill :
         Search(txns[l].spill, txns[l].spill[i]) = i

\* Whatever the transaction at any level wrote is what it reads, through
\* spilling, unspilling, children that spill, commit and abort (the parent
\* reads its own contents while a child runs, and after it).  One in error
\* reads nothing.
ReadsOwnWrites ==
    phase = "run" => \A l \in Levels : ~txns[l].err => \A p \in DOMAIN txns[l].val :
        Contents(World, PageGet(World, l, p).buf, p) = txns[l].val[p]

\* A cursor, and the backup of one, points to the buffer in which its page
\* is now: never to one that was freed or superseded (mdb.c:6641, 6713).
CursorsFresh ==
    phase = "run" => \A l \in Levels : ~txns[l].err => \A c \in Cursors :
        LET t == txns[l]
            at(p) == PageGet(World, l, p).buf
        IN  t.cur[c].on => /\ t.cur[c].pg \in t.leaves
                           /\ t.cur[c].buf = at(t.cur[c].pg)
                           /\ t.cur[c].rbuf = at(t.root)

\* The room counted down and up over all levels is the room there is: a
\* merge computes the length of the merged list from it (mdb.c:7951).
InDirty[l \in 0 .. MaxLevel] ==
    IF l = 0 THEN {}
    ELSE (InDirty[l - 1] \ SpilledPages(txns[l].spill)) \cup DOMAIN txns[l].dirty
RoomIsExact ==
    phase = "run" => \A l \in Levels :
        ~txns[l].err => txns[l].room = MaxDirty - Cardinality(InDirty[l])

\* The page numbers a level's me_pghead lists.
PgStateOf(l) == IF l = Len(txns) THEN pgstate ELSE txns[l + 1].saved

\* The pages of level l that are in no tree: me_pghead, the records not
\* consumed, and what it and its ancestors freed or loosened.
Spare(l) ==
    LET later == Ascending({id \in DOMAIN fdb.recs : id > PgStateOf(l).last})
        upto(field(_)) == FlattenSeq([k \in 1 .. l |-> field(txns[k])])
    IN  PgStateOf(l).head
          \o FlattenSeq([i \in DOMAIN later |-> fdb.recs[later[i]].ids])
          \o upto(LAMBDA t : t.free) \o upto(LAMBDA t : t.loose)

\* The pages the trees of level l occupy, those of the freeDB included.
RunLength(t, p) ==
    IF p \in t.ov THEN 2
    ELSE Max({1} \cup {fdb.recs[id].n : id \in {i \in DOMAIN fdb.recs : fdb.recs[i].ov = p}})
Live(t) == UNION {p .. p + RunLength(t, p) - 1 : p \in DOMAIN t.val}

\* Lists ids, without repetition, and the pages of set S are all of the
\* pages below next but the two meta pages.
Partition(ids, S, next) ==
    /\ Range(ids) \cup S = 2 .. next - 1
    /\ Len(ids) + Cardinality(S) = next - 2

\* At every level, every page is in one tree or in one list: none is lost
\* and none is handed out twice, whatever children began, committed or
\* aborted (mdb.c:7859, 6328).
PagesPartitioned ==
    phase = "run" => \A l \in Levels : ~txns[l].err =>
        Partition(Spare(l), Live(txns[l]), txns[l].next)

\* Until a commit is complete the pages of the last version stay as they
\* were written: a spill or a flush overwrites none of them.
CommittedIntact == \A p \in base.pages : file[p] = 0

\* A finished commit has written every page of its trees, unless a failed
\* spill of a child left P_KEEP on a page of this transaction: the flush
\* then passes it over (mdb.c:6203, 7625).
CommitWritesAll ==
    phase = "done" /\ ~leak =>
        \A p \in DOMAIN txns[1].val : file[p] = txns[1].val[p]

\* A finished commit has every free page in exactly one record of the
\* freeDB, in descending order, and no record of this transaction's reuse
\* list is as new as its own (mdb.c:7404).
FreeListSaved ==
    phase = "done" =>
        LET ids == Ascending(DOMAIN fdb.recs)
            all == FlattenSeq([i \in DOMAIN ids |-> fdb.recs[ids[i]].ids])
        IN  /\ Partition(all, Live(txns[1]), txns[1].next)
            /\ \A id \in DOMAIN fdb.recs : Descending(fdb.recs[id].ids)

\* The loop of mdb_freelist_save ends although every put may change what it
\* has to store (mdb.c:7404).
SaveEnds == phase = "save" ~> phase # "save"
=============================================================================
