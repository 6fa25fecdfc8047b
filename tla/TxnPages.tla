------------------------------ MODULE TxnPages ------------------------------
(***************************************************************************)
(* The pages of one write transaction and of the transactions nested in it *)
(* (mdb.c): the dirty, spilled, freed and loose lists, the list of         *)
(* reusable pages me_pghead, spilling to the file when the dirty list runs *)
(* full, and the copies that nested transactions make of pages and         *)
(* cursors.                                                                *)
(*                                                                         *)
(* Trees are abstracted to the pages they reach: a root, leaves below it   *)
(* and overflow runs of two pages.  The contents of a page is one bit that *)
(* every write flips; val is what the transaction wrote, and the           *)
(* properties compare it with what the lists and the file hold.  A pointer *)
(* to a page is the page number and the list that owns the buffer: 0 for   *)
(* the map, l for the dirty list of the transaction at level l.            *)
(***************************************************************************)
EXTENDS Midl

CONSTANTS
    MaxPg,      \* me_maxpg: the pages the map has room for
    MaxDirty,   \* MDB_IDL_UM_MAX: the entries of a dirty list
    SpillBatch, \* MDB_IDL_UM_MAX / 8: the pages one spill writes
    Need,       \* the estimate of mdb_page_spill for one operation
    MaxLevel,   \* how deep transactions nest (bound of the model)
    MaxOps,     \* operations between begin and commit (bound of the model)
    Cursors,    \* the user's cursors
    IoErrors,   \* whether a write of page_flush may fail
    Bases       \* the committed states to start from

ASSUME PagesAssumption ==
    /\ {MaxPg, MaxDirty, SpillBatch, Need, MaxLevel, MaxOps} \subseteq Nat
    /\ MaxLevel >= 1
    /\ IoErrors \in BOOLEAN

VARIABLES
    txns,       \* the transactions, the outermost first: mt_parent, mt_child
    pgstate,    \* me_pgstate: me_pghead (null, ids) and me_pglast
    file,       \* the contents of each page of the data file
    fdb,        \* the freeDB: its leaf, its records
    base,       \* the last committed version (observation)
    phase,      \* "run", the phases of a commit, "done" or "aborted"
    ops,        \* operations so far
    leak        \* a failed spill left P_KEEP on a parent's page (observation)

pagesVars == <<txns, pgstate, file, fdb, base, phase, ops, leak>>

Closed == [on |-> FALSE, rbuf |-> 0, pg |-> 0, buf |-> 0]
NoState == [null |-> TRUE, head |-> <<>>, last |-> 0]

-----------------------------------------------------------------------------
(* The state an operation works on: everything it may change in one record *)
(* so that the calls of one handler can be composed.                       *)

World == [ts |-> txns, pg |-> pgstate, file |-> file, fdb |-> fdb, ok |-> TRUE]

Top(w) == Len(w.ts)
Txn(w) == w.ts[Top(w)]
PutTxn(w, t) == [w EXCEPT !.ts[Top(w)] = t]

\* mdb_txn_mark_error, and the return of an error code.
Fail(w) == [w EXCEPT !.ts[Top(w)].err = TRUE, !.ok = FALSE]

\* The next call of a handler, made only if the calls before succeeded.
AndThen(w, Call(_)) == IF w.ok THEN Call(w) ELSE w

Flip(v) == 1 - v

\* An entry of a spill list is the page number shifted left; a set lowest
\* bit marks the entry deleted.
SpillId(p) == 2 * p
IsDeleted(pn) == pn % 2 = 1
SpilledPages(ids) == {ids[i] \div 2 : i \in {j \in DOMAIN ids : ~IsDeleted(ids[j])}}

\* The pages of a dirty list in its order.
DirtyOrder(t) == Ascending(DOMAIN t.dirty)

\* mdb_page_get: which buffer the transaction at level l reads page p from,
\* and how many levels up it was found (0: never dirtied, in the map).
PageGet(w, l, p) ==
    LET hits == {k \in 1 .. l : \/ Found(w.ts[k].spill, SpillId(p))
                                \/ p \in DOMAIN w.ts[k].dirty}
        k == Max(hits)
    IN  IF hits = {} THEN [buf |-> 0, level |-> 0]
        ELSE [buf |-> IF Found(w.ts[k].spill, SpillId(p)) THEN 0 ELSE k,
              level |-> l + 1 - k]

Contents(w, buf, p) == IF buf = 0 THEN w.file[p] ELSE w.ts[buf].dirty[p].val

-----------------------------------------------------------------------------
(* mdb_page_alloc                                                          *)

\* Mutant: pages that lie further apart pass for a run.
RunIndexLoose(mop, num) ==
    LET n2 == num - 1
    IN  Max({0} \cup {i \in num .. Len(mop) : mop[i - n2] >= mop[i] + n2})

\* The search for num consecutive pages: the position of the lowest page of
\* the run in the descending list, the rearmost such run, 0 for none.
RunIndex(mop, num) ==
    LET n2 == num - 1
    IN  Max({0} \cup {i \in num .. Len(mop) : mop[i - n2] = mop[i] + n2})

\* The list without that run: the stragglers move down.
CutRun(mop, i, num) == SubSeq(mop, 1, i - num) \o SubSeq(mop, i + 1, Len(mop))

\* The records of the freeDB not consumed yet, oldest first.  Every record
\* is older than the oldest reader (Mvcc models that test).
Unconsumed(w) == Ascending({id \in DOMAIN w.fdb.recs : id > w.pg.last})

\* me_pghead after the next k records have been merged into it.
Consume(w, k) ==
    LET ids == Unconsumed(w)
        merged == FoldLeft(LAMBDA mop, id : XMerge(mop, w.fdb.recs[id].ids),
                           w.pg.head, SubSeq(ids, 1, k))
    IN  IF k = 0 THEN w.pg
        ELSE [null |-> FALSE, head |-> merged, last |-> ids[k]]

\* Mutant: the room in the dirty list is not counted down.
PageDirtyUncounted(t, p, n, v) == [t EXCEPT !.dirty = (p :> [val |-> v, n |-> n]) @@ @]

\* mdb_page_dirty
PageDirty(t, p, n, v) ==
    [t EXCEPT !.dirty = (p :> [val |-> v, n |-> n]) @@ @, !.room = @ - 1]

\* me_pghead after as many records as it takes to find a run, or all of them.
Searched(w, num) ==
    LET all == Len(Unconsumed(w))
        enough == {k \in 0 .. all : RunIndex(Consume(w, k).head, num) > 0}
    IN  Consume(w, Min(enough \cup {all}))

\* The run that ends at position i of the searched list pg, or, for i = 0,
\* new pages at mt_next_pgno.
AllocRun(w, num, pg, i) ==
    LET t == Txn(w)
        p == IF i > 0 THEN pg.head[i] ELSE t.next
        dirtied == PageDirty(t, p, num, w.file[p])
    IN  IF i > 0
        THEN [w |-> [PutTxn(w, dirtied) EXCEPT
                        !.pg = [pg EXCEPT !.head = CutRun(@, i, num)]],
              pgno |-> p]
        ELSE IF t.next + num >= MaxPg
        THEN [w |-> Fail([w EXCEPT !.pg = pg]), pgno |-> 0]
        ELSE [w |-> [PutTxn(w, [dirtied EXCEPT !.next = p + num]) EXCEPT !.pg = pg],
              pgno |-> p]

\* Loose pages first, then a run in me_pghead and the records, then new pages.
PageAlloc(w, num) ==
    LET t == Txn(w)
        from(pg) == AllocRun(w, num, pg, RunIndex(pg.head, num))
    IN  IF num = 1 /\ t.loose # <<>>
        THEN [w |-> PutTxn(w, [t EXCEPT !.loose = Tail(@)]), pgno |-> Head(t.loose)]
        ELSE IF t.room = 0 THEN [w |-> Fail(w), pgno |-> 0]
        ELSE from(Searched(w, num))

\* mdb_page_new: the caller fills the page.
PageNew(w, num) ==
    LET filled(a, v) ==
          IF ~a.w.ok THEN a
          ELSE [a EXCEPT !.w.ts[Top(w)].dirty[a.pgno] = [val |-> v, n |-> num],
                         !.w.ts[Top(w)].val = (a.pgno :> v) @@ @]
        new(a) == filled(a, Flip(w.file[a.pgno]))
    IN  new(PageAlloc(w, num))

-----------------------------------------------------------------------------
(* Writing to a page                                                       *)

\* mdb_page_unspill, for a page some transaction of the stack has spilled.
PageUnspill(w, p, n) ==
    LET t == Txn(w)
        x == Search(t.spill, SpillId(p))
        spill == IF ~Found(t.spill, SpillId(p)) THEN t.spill
                 ELSE IF x = Len(t.spill) THEN Front(t.spill)
                 ELSE [t.spill EXCEPT ![x] = SpillId(p) + 1]
    IN  IF t.room = 0 THEN [w EXCEPT !.ok = FALSE]
        ELSE PutTxn(w, PageDirty([t EXCEPT !.spill = spill], p, n, w.file[p]))

IsSpilled(w, p) == \E k \in 1 .. Top(w) : Found(w.ts[k].spill, SpillId(p))

\* A page number replaced in whatever points to it: mt_dbs, a branch node,
\* the freeDB, and the contents the transaction means the page to have.
Rename(w, old, new) ==
    LET t == Txn(w)
        as(p) == IF p = old THEN new ELSE p
        pages == (DOMAIN t.val \ {old}) \cup {new}
    IN  [PutTxn(w, [t EXCEPT
                      !.root = as(@),
                      !.leaves = {as(p) : p \in @},
                      !.val = [p \in pages |-> IF p = new THEN t.val[old] ELSE t.val[p]]])
         EXCEPT !.fdb.leaf = as(@)]

\* Every cursor of the transaction that points to buffer b of page old is
\* redirected to the transaction's own buffer of page new.
Redirect(w, old, b, new) ==
    LET t == Txn(w)
        moved(c) == [c EXCEPT
            !.rbuf = IF old = t.root /\ @ = b THEN Top(w) ELSE @,
            !.buf = IF c.pg = old /\ @ = b THEN Top(w) ELSE @,
            !.pg = IF @ = old /\ c.buf = b THEN new ELSE @]
    IN  PutTxn(w, [t EXCEPT !.cur = [c \in Cursors |->
                        IF @[c].on THEN moved(@[c]) ELSE @[c]]])

\* mdb_page_touch of page p, which the cursor has in buffer b.
PageTouch(w, p, b) ==
    LET t == Txn(w)
        copy == [val |-> Contents(w, b, p), n |-> 1]
        copied == (p :> copy)
        unspilled(u) == IF u.ok THEN Redirect(u, p, b, p) ELSE Fail(u)
        replaced(v, new) == PutTxn(v, [Txn(v) EXCEPT !.free = Append(@, p),
                                                     !.dirty[new] = copy])
        moved(a) == IF ~a.w.ok THEN a.w
                    ELSE replaced(Rename(Redirect(a.w, p, b, a.pgno), p, a.pgno), a.pgno)
    IN  IF b = 0 /\ t.spills /\ IsSpilled(w, p) THEN unspilled(PageUnspill(w, p, 1))
        ELSE IF b = 0 THEN moved(PageAlloc(w, 1))
        ELSE IF b = Top(w) THEN w
        ELSE IF p \in DOMAIN t.dirty THEN Fail(w)
        ELSE Redirect(PutTxn(w, [t EXCEPT !.dirty = copied @@ @]), p, b, p)

\* The caller writes to a page that is in its own dirty list.
WritePage(w, p) ==
    LET t == Txn(w)
    IN  PutTxn(w, [t EXCEPT !.dirty[p].val = Flip(@), !.val[p] = Flip(@)])

-----------------------------------------------------------------------------
(* mdb_page_spill                                                          *)

\* Mutant: the pages below the roots are not looked at.
WatchedRoots(w, all) ==
    {<<Txn(w).cur[c].rbuf, Txn(w).root>> : c \in Cursors} \cup {<<Top(w), w.fdb.leaf>>}

\* The buffers the cursors of the transaction point to, and with all those
\* of the root pages, as <<level, page>>.
Watched(w, all) ==
    LET t == Txn(w)
        on == {c \in Cursors : t.cur[c].on}
        roots == {p \in {t.root, w.fdb.leaf} \ {0} :
                    PageGet(w, Top(w), p).buf = Top(w)}
    IN  {<<t.cur[c].rbuf, t.root>> : c \in on}
          \cup {<<t.cur[c].buf, t.cur[c].pg>> : c \in on}
          \cup IF all THEN {<<Top(w), p>> : p \in roots} ELSE {}

\* Mutant: the marks are not cleared after the spill.
PagesXkeepForever(w, set, all) ==
    LET seen(l) == {p \in DOMAIN w.ts[l].dirty \ Range(w.ts[l].loose) :
                        <<l, p>> \in Watched(w, all)}
    IN  [w EXCEPT !.ts = [l \in DOMAIN @ |-> [@[l] EXCEPT !.keep = @ \cup seen(l)]]]

\* mdb_pages_xkeep: set (or clear) P_KEEP on the watched dirty pages.
PagesXkeep(w, set, all) ==
    LET seen(l) == {p \in DOMAIN w.ts[l].dirty \ Range(w.ts[l].loose) :
                        <<l, p>> \in Watched(w, all)}
    IN  [w EXCEPT !.ts = [l \in DOMAIN @ |-> [@[l] EXCEPT
            !.keep = IF set THEN @ \cup seen(l) ELSE @ \ seen(l)]]]

\* mdb_page_flush of the dirty pages behind the first keep entries of the
\* list, those marked loose or P_KEEP excepted, which lose P_KEEP; the
\* pages of set fail are not written.
PageFlush(w, keep, fail) ==
    LET t == Txn(w)
        dl == DirtyOrder(t)
        tail == {dl[i] : i \in keep + 1 .. Len(dl)}
        out == tail \ (Range(t.loose) \cup t.keep)
        written == out \ fail
        covers(p, q) == q \in p .. p + t.dirty[p].n - 1
    IN  [PutTxn(w, [t EXCEPT !.dirty = Restrict(@, DOMAIN @ \ out),
                             !.keep = @ \ tail,
                             !.room = @ + Cardinality(out)])
         EXCEPT !.file = [q \in DOMAIN @ |->
            IF \E p \in written : covers(p, q)
            THEN t.dirty[CHOOSE p \in written : covers(p, q)].val
            ELSE @[q]]]

\* A page an ancestor has spilled must not be written over: the ancestor
\* could not be restored.
InAncestorSpill(w, p) == \E k \in 1 .. Top(w) - 1 : Found(w.ts[k].spill, SpillId(p))

\* Mutant: a child spills over a page its parent has spilled.
SpillChoiceAny(w) ==
    LET cand == SelectSeq(Reverse(DirtyOrder(Txn(w))),
                          LAMBDA p : p \notin Range(Txn(w).loose) \cup Txn(w).keep)
    IN  SubSeq(cand, 1, Min({SpillBatch, Len(cand)}))

\* What one spill writes: from the tail of the dirty list, SpillBatch pages
\* at most.
SpillChoice(w) ==
    LET t == Txn(w)
        may(p) == /\ p \notin Range(t.loose) \cup t.keep
                  /\ ~InAncestorSpill(w, p)
        cand == SelectSeq(Reverse(DirtyOrder(t)), may)
    IN  SubSeq(cand, 1, Min({SpillBatch, Len(cand)}))

\* The first half: deleted slots are purged, watched pages marked, the pages
\* to write listed.  The loop over the dirty list stopped at entry i; what it
\* passed because an ancestor has spilled it is marked P_KEEP as well.
SpillList(w) ==
    LET purged == PutTxn(w, [Txn(w) EXCEPT
                    !.spill = SelectSeq(@, LAMBDA pn : ~IsDeleted(pn))])
        passed(v, i) ==
            LET t == Txn(v)
            IN  {p \in DOMAIN t.dirty : /\ Cardinality({q \in DOMAIN t.dirty : q <= p}) > i
                                        /\ p \notin Range(t.loose)
                                        /\ InAncestorSpill(v, p)}
        stop(v, batch) == IF Len(batch) < SpillBatch THEN 0
                          ELSE Cardinality({p \in DOMAIN Txn(v).dirty : p < Last(batch)})
        listed(v, batch, i) ==
            [i |-> i, batch |-> Range(batch),
             w |-> PutTxn(v, [Txn(v) EXCEPT
                        !.spill = Sorted(@ \o [k \in DOMAIN batch |-> SpillId(batch[k])]),
                        !.keep = @ \cup passed(v, i)])]
        chosen(v, batch) == listed(v, batch, stop(v, batch))
        kept(v) == chosen(v, SpillChoice(v))
    IN  kept(PagesXkeep(purged, TRUE, TRUE))

\* mdb_page_spill
PageSpill(w) ==
    LET flushed(list) == PagesXkeep(PageFlush(list.w, list.i, {}), FALSE, list.i > 0)
        done(v) == PutTxn(v, [Txn(v) EXCEPT !.spills = TRUE])
    IN  IF Txn(w).room > Need THEN w ELSE done(flushed(SpillList(w)))

\* The same, when writing page first fails: those before it have been
\* written, the marks stay, the transaction is in error.
FailedSpill(w, first) ==
    LET rest(v) == {p \in DOMAIN Txn(v).dirty : p >= first}
        stopped(list) == Fail([list.w EXCEPT
                            !.file = PageFlush(list.w, list.i, rest(list.w)).file])
    IN  stopped(SpillList(w))

-----------------------------------------------------------------------------
(* The operations of the B+tree code on the pages of one database.  Every  *)
(* one starts with mdb_page_spill and touches the path of its cursor.      *)

\* mdb_cursor_touch: root, then leaf.
CursorTouch(w, c) ==
    LET t == Txn(w)
        rooted == PageTouch(w, t.root, t.cur[c].rbuf)
        cur(v) == Txn(v).cur[c]
    IN  AndThen(rooted, LAMBDA v : PageTouch(v, cur(v).pg, cur(v).buf))

\* The leaf of the cursor changed, and the root that points to it.
WritePath(w, c) == WritePage(WritePage(w, Txn(w).root), Txn(w).cur[c].pg)

\* What a put or a delete through cursor c does first.
Prepared(w, c) == AndThen(PageSpill(w), LAMBDA v : CursorTouch(v, c))

\* Overwrite or insert a small item that fits.
Put(w, c) == AndThen(Prepared(w, c), LAMBDA v : WritePath(v, c))

\* Insert an item that splits the leaf.
PutSplit(w, c) ==
    LET linked(a) == IF ~a.w.ok THEN a.w
                     ELSE [a.w EXCEPT !.ts[Top(w)].leaves = @ \cup {a.pgno}]
    IN  AndThen(Put(w, c), LAMBDA v : linked(PageNew(v, 1)))

\* Insert an item that needs an overflow run of two pages.
PutOverflow(w, c) ==
    LET linked(a) == IF ~a.w.ok THEN a.w
                     ELSE [a.w EXCEPT !.ts[Top(w)].ov = @ \cup {a.pgno}]
    IN  AndThen(Put(w, c), LAMBDA v : linked(PageNew(v, 2)))

\* mdb_page_loose of page p in buffer b.
PageLoose(w, p, b) ==
    LET t == Txn(w)
        gone == [t EXCEPT !.leaves = @ \ {p},
                          !.val = Restrict(@, DOMAIN @ \ {p})]
    IN  IF b # 0 /\ (Top(w) > 1 => p \in DOMAIN t.dirty)
        THEN IF b = Top(w) THEN PutTxn(w, [gone EXCEPT !.loose = <<p>> \o @])
             ELSE Fail(w)
        ELSE PutTxn(w, [gone EXCEPT !.free = Append(@, p)])

\* Cursors on a page that has been merged away move to page q.
MoveCursors(w, p, q) ==
    LET t == Txn(w)
        to(c) == [c EXCEPT !.pg = q, !.buf = PageGet(w, Top(w), q).buf]
    IN  PutTxn(w, [t EXCEPT !.cur = [c \in Cursors |->
                    IF @[c].on /\ @[c].pg = p THEN to(@[c]) ELSE @[c]]])

\* A delete that leaves the leaf of c too empty: it is merged into leaf q,
\* or leaf q into it (mdb_page_merge touches the page it keeps).
DelMergeAway(w, c, q) ==
    LET p(v) == Txn(v).cur[c].pg
        touched(v) == PageTouch(v, q, PageGet(v, Top(v), q).buf)
        kept(v, u) == CHOOSE k \in Txn(u).leaves : k \notin Txn(v).leaves \ {q}
        merged(u, k) == PageLoose(MoveCursors(WritePage(u, k), p(u), k), p(u), Top(u))
    IN  AndThen(Put(w, c), LAMBDA v :
            AndThen(touched(v), LAMBDA u : merged(u, kept(v, u))))

DelMergeInto(w, c, q) ==
    LET p(v) == Txn(v).cur[c].pg
        b(v) == PageGet(v, Top(v), q).buf
    IN  AndThen(Put(w, c),
                LAMBDA v : PageLoose(MoveCursors(v, q, p(v)), q, b(v)))

\* Mutant: a run of the last version is reused like one of this transaction.
OvpageFreeClean(w, p, n) ==
    IF w.pg.null THEN PutTxn(w, [Txn(w) EXCEPT !.free = AppendRange(@, p, n)])
    ELSE [w EXCEPT !.pg.head = XMerge(@, AppendRange(<<>>, p, n))]

\* mdb_ovpage_free: a run of this transaction goes back to me_pghead, any
\* other to the list of freed pages.
OvpageFree(w, p, n) ==
    LET t == Txn(w)
        b == PageGet(w, Top(w), p).buf
        x == Search(t.spill, SpillId(p))
        spilled == Found(t.spill, SpillId(p))
        unlisted == IF b # 0
            THEN [t EXCEPT !.dirty = Restrict(@, DOMAIN @ \ {p}), !.room = @ + 1]
            ELSE IF x = Len(t.spill) THEN [t EXCEPT !.spill = Front(@)]
            ELSE [t EXCEPT !.spill[x] = SpillId(p) + 1]
        run == AppendRange(<<>>, p, n)
    IN  IF ~w.pg.null /\ Top(w) = 1 /\ (b # 0 \/ spilled)
        THEN [PutTxn(w, unlisted) EXCEPT !.pg.head = XMerge(@, run)]
        ELSE PutTxn(w, [t EXCEPT !.free = AppendRange(@, p, n)])

DelOverflow(w, c, p) ==
    LET unlinked(v) == PutTxn(v, [Txn(v) EXCEPT !.ov = @ \ {p},
                                    !.val = Restrict(@, DOMAIN @ \ {p})])
    IN  AndThen(Put(w, c), LAMBDA v : unlinked(OvpageFree(v, p, 2)))

\* A value of the same number of pages replaces the one at p: written in
\* place when the run is dirty or can be unspilled, copied when it is dirty
\* in an ancestor only, else freed and allocated anew.
OverwriteRun(w, p) ==
    LET t == Txn(w)
        at == PageGet(w, Top(w), p)
        unspill == at.buf = 0 /\ at.level > 0
        copied == [t EXCEPT !.dirty =
                    (p :> [val |-> Contents(w, at.buf, p), n |-> 2]) @@ @]
        anew(a) == IF ~a.w.ok THEN a.w
                   ELSE PutTxn(a.w, [Txn(a.w) EXCEPT
                            !.ov = (@ \ {p}) \cup {a.pgno},
                            !.val = Restrict(@, DOMAIN @ \ ({p} \ {a.pgno}))])
    IN  IF unspill THEN AndThen(PageUnspill(w, p, 2), LAMBDA u : WritePage(u, p))
        ELSE IF at.buf = 0 THEN anew(PageNew(OvpageFree(w, p, 2), 2))
        ELSE IF at.level > 1 THEN WritePage(PutTxn(w, copied), p)
        ELSE WritePage(w, p)

PutOverwrite(w, c, p) == AndThen(Put(w, c), LAMBDA v : OverwriteRun(v, p))

\* mdb_cursor_get: cursor c is put on leaf p.
Seek(w, c, p) ==
    LET t == Txn(w)
        buf(q) == PageGet(w, Top(w), q).buf
        at == [on |-> TRUE, rbuf |-> buf(t.root), pg |-> p, buf |-> buf(p)]
    IN  PutTxn(w, [t EXCEPT !.cur[c] = at])

-----------------------------------------------------------------------------
(* Transactions inside the transaction                                     *)

\* mdb_txn_begin with a parent: own lists, a copy of me_pghead, and the
\* parent's cursors, which are backed up (mdb_cursor_shadow).
NestedTxn(parent) ==
    [parent EXCEPT !.dirty = <<>>, !.spill = <<>>, !.free = <<>>,
                   !.loose = <<>>, !.keep = {}, !.saved = pgstate]

\* mdb_txn_end of a nested transaction: the parent's cursors and me_pgstate
\* as they were.
EndNested(ts) == /\ txns' = Front(ts)
                 /\ pgstate' = Last(ts).saved

\* Mutant: the parent's copy of a page the child has spilled stays listed.
MergedDirtyStale(parent, child) == child.dirty @@ parent.dirty

\* The merged dirty list: the child's pages in place of the parent's.  Its
\* length comes from the room left when the parent is outermost.
MergedDirty(parent, child) ==
    LET spilled == SpilledPages(child.spill)
    IN  child.dirty @@ Restrict(parent.dirty, DOMAIN parent.dirty \ spilled)

\* Mutant: the child's spilled pages are appended to the sorted list.
MergedSpillUnsorted(parent, child) == parent.spill \o child.spill

\* The parent's spill list without what the child has dirtied since, and
\* with what the child has spilled.
MergedSpill(parent, child) ==
    LET still == SelectSeq(parent.spill, LAMBDA pn :
                    ~IsDeleted(pn) /\ pn \div 2 \notin DOMAIN child.dirty)
    IN  Sorted(still \o child.spill)

\* A cursor of the child as one of the parent: it keeps its buffers.
Adopt(c, l) ==
    LET up(b) == IF b = l THEN l - 1 ELSE b
    IN  [c EXCEPT !.rbuf = up(@), !.buf = up(@)]

CommitNested(parent, child) ==
    [child EXCEPT !.dirty = MergedDirty(parent, child),
                  !.spill = MergedSpill(parent, child),
                  !.free = parent.free \o @,
                  !.loose = parent.loose \o @,
                  !.keep = @ \cup (parent.keep \cap
                                     (DOMAIN parent.dirty \ DOMAIN child.dirty)),
                  !.saved = parent.saved,
                  !.cur = [c \in Cursors |-> Adopt(@[c], Len(txns))]]
=============================================================================
