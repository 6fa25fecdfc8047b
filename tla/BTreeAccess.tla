---------------------------- MODULE BTreeAccess -----------------------------
(***************************************************************************)
(* What a program calls: placing and moving a cursor, mdb_cursor_put,      *)
(* mdb_cursor_del, mdb_put, mdb_del, and the ranks of a MDB_COUNTED        *)
(* database, over the operations of BTreeOps.  A call that only reads      *)
(* returns the cursor c it leaves and the key it found; Absent is          *)
(* MDB_NOTFOUND, Garbage a read past the nodes of a page.                  *)
(***************************************************************************)
EXTENDS BTreeOps

Absent  == 0
Garbage == -1
Lowest  == 0                 \* MDB_PS_FIRST
Highest == Len(Bytes) + 1    \* MDB_PS_LAST

HereKey(w, c) == IF TopKi(c) < NumKeys(w, TopPage(c)) THEN KeyAt(w, TopPage(c), TopKi(c)) ELSE Garbage

-----------------------------------------------------------------------------
(* Placing a cursor.                                                       *)

\* mdb_page_search_root
RECURSIVE Descend(_, _, _)
Descend(w, c, k) ==
  LET p == TopPage(c)
      down(i) == Descend(w, Pushed([c EXCEPT !.ki[Top(c)] = i], Node(w, p, i).child), k)
  IN IF IsLeaf(w, p) THEN [c EXCEPT !.on = TRUE, !.eof = FALSE]
     ELSE down(IF k = Lowest THEN 0 ELSE IF k = Highest THEN NumKeys(w, p) - 1 ELSE ChildIndex(w, p, k))

\* mdb_page_search of a tree that is not empty
AtRoot(w, c) == [c EXCEPT !.snum = 1, !.pg[0] = w.root]
Search(w, c, k) == Descend(w, AtRoot(w, c), k)

\* mdb_page_search_reuse: from the deepest page of the path that must hold k
SearchReuse(w, c, k, up) ==
  LET beyond(p, i) == IF up THEN i + 1 < NumKeys(w, p) /\ k >= KeyAt(w, p, i + 1)
                      ELSE i > 0 /\ k < KeyAt(w, p, i)
      barred == {l \in 0 .. Top(c) - 2 : beyond(c.pg[l], c.ki[l])}
      stale  == {l \in 0 .. Top(c) - 2 : c.ki[l] >= NumKeys(w, c.pg[l])}
      first(S) == CHOOSE l \in S \cup {Top(c) - 1} : \A x \in S : l <= x
      from(level) == IF Top(c) < 2 \/ c.pg[0] # w.root \/ \E l \in stale : l < level
                     THEN AtRoot(w, c) ELSE [c EXCEPT !.snum = level + 1]
  IN Descend(w, from(first(barred)), k)

\* From label set2 of mdb_cursor_set on: the leaf that holds k, if any does.
\* range is MDB_SET_RANGE.
SetOnLeaf(w, c, k, range) ==
  LET p == TopPage(c)
      hit(x) == [c |-> [x EXCEPT !.on = TRUE, !.eof = FALSE], key |-> HereKey(w, x)]
      beyond(at, next) == IF next.found THEN hit(next.c) ELSE [c |-> [at EXCEPT !.eof = TRUE], key |-> Absent]
      found(at, i) == IF KeyIsAt(w, p, i, k) \/ (range /\ i < NumKeys(w, p)) THEN hit(at)
                      ELSE IF range THEN beyond(at, Sibling(w, at, TRUE)) ELSE [c |-> at, key |-> Absent]
      at(i) == found([c EXCEPT !.ki[Top(c)] = i], i)
  IN at(NodeSearch(w, p, k))

\* mdb_cursor_set for MDB_SET and MDB_SET_RANGE
CursorSet(w, c, k, range) ==
  LET p   == TopPage(c)
      n   == NumKeys(w, p)
      low == KeyAt(w, p, 0)
      high == KeyAt(w, p, n - 1)
      ki(i) == [c EXCEPT !.ki[Top(c)] = i]
      hit(i) == [c |-> [ki(i) EXCEPT !.eof = FALSE], key |-> KeyAt(w, p, i)]
      miss(i) == [c |-> ki(i), key |-> Absent]
      rightmost == \A l \in 0 .. Top(c) - 1 : c.ki[l] >= NumKeys(w, c.pg[l]) - 1
  IN CASE ~c.on -> IF w.root = 0 THEN [c |-> c, key |-> Absent] ELSE SetOnLeaf(w, Search(w, c, k), k, range)
       [] c.on /\ n = 0 -> miss(0)
       [] c.on /\ n > 0 /\ k = low -> hit(0)
       [] c.on /\ n > 0 /\ k > low /\ k = high -> hit(n - 1)
       [] c.on /\ n > 0 /\ k > low /\ k < high -> SetOnLeaf(w, [c EXCEPT !.eof = FALSE], k, range)
       [] c.on /\ n > 0 /\ k > low /\ k > high /\ rightmost -> miss(n)
       [] OTHER -> IF Top(c) = 0 THEN IF range THEN hit(0) ELSE miss(0)
                   ELSE SetOnLeaf(w, SearchReuse(w, c, k, k > low), k, range)

-----------------------------------------------------------------------------
(* Moving a cursor.  mdb_cursor_get clears C_DEL at its end.               *)

Got(c, key) == [c |-> [c EXCEPT !.del = FALSE], key |-> key]
GotHere(w, c) == Got(c, HereKey(w, c))

\* mdb_cursor_first, mdb_cursor_last
CursorFirst(w, c) ==
  LET leftmost(x) == GotHere(w, [x EXCEPT !.eof = FALSE, !.ki[Top(x)] = 0])
  IN IF w.root = 0 THEN Got(c, Absent)
     ELSE leftmost(IF c.on /\ Top(c) = 0 THEN c ELSE Search(w, c, Lowest))
CursorLast(w, c) ==
  LET rightmost(x) == GotHere(w, [x EXCEPT !.eof = TRUE, !.ki[Top(x)] = NumKeys(w, TopPage(x)) - 1])
  IN IF w.root = 0 THEN Got(c, Absent)
     ELSE rightmost(IF c.on /\ Top(c) = 0 THEN c ELSE Search(w, c, Highest))

\* Mutant: MDB_NEXT after a deletion skips the key the cursor was put on.
CursorNextPast(w, c) ==
  LET i  == TopKi(c)
      n  == NumKeys(w, TopPage(c))
      c1 == [c EXCEPT !.eof = FALSE]
      sideways(next) == IF next.found THEN GotHere(w, next.c) ELSE Got([c1 EXCEPT !.eof = TRUE], Absent)
  IN IF ~c.on THEN CursorFirst(w, c)
     ELSE IF c.eof /\ i >= n - 1 THEN Got(c, Absent)
     ELSE IF i + 1 < n THEN GotHere(w, [c1 EXCEPT !.ki[Top(c)] = i + 1])
     ELSE sideways(Sibling(w, c1, TRUE))

\* mdb_cursor_next
CursorNext(w, c) ==
  LET i  == TopKi(c)
      n  == NumKeys(w, TopPage(c))
      c1 == [c EXCEPT !.eof = FALSE]
      sideways(next) == IF next.found THEN GotHere(w, next.c) ELSE Got([c1 EXCEPT !.eof = TRUE], Absent)
  IN IF ~c.on THEN CursorFirst(w, c)
     ELSE IF c.eof /\ i >= n - 1 THEN Got(c, Absent)
     ELSE IF c.del THEN GotHere(w, c1)
     ELSE IF i + 1 < n THEN GotHere(w, [c1 EXCEPT !.ki[Top(c)] = i + 1])
     ELSE sideways(Sibling(w, c1, TRUE))

\* mdb_cursor_prev; a cursor that is nowhere starts past the last entry
CursorPrev(w, c) ==
  LET sideways(c1, prev) == IF prev.found THEN GotHere(w, prev.c) ELSE Got(c1, Absent)
      back(c1) == IF TopKi(c1) > 0 THEN GotHere(w, [c1 EXCEPT !.ki[Top(c1)] = @ - 1])
                  ELSE sideways(c1, Sibling(w, c1, FALSE))
      past(x)  == [x EXCEPT !.ki[Top(x)] = @ + 1, !.eof = FALSE]
  IN IF c.on THEN back([c EXCEPT !.eof = FALSE])
     ELSE IF w.root = 0 THEN Got(c, Absent) ELSE back(past(CursorLast(w, c).c))

-----------------------------------------------------------------------------
(* Deleting.                                                               *)

\* mdb_prefix_split_before_trunk_delete
SplitBeforeTrunkDelete(w, m) ==
  LET c == w.cur[m]
      p == TopPage(c)
      index == NumKeys(w, p) \div 2
      at == Cur(w, TrunkCur, [c EXCEPT !.ki[Top(c)] = index])
  IN IF index = 0 THEN Failed(w)
     ELSE Untrack(Split(Track(DelNode(at, p, index), TrunkCur), TrunkCur,
                        KeyAt(w, p, index), Node(w, p, index).v, 0, {"replace"}), TrunkCur)

\* The subtree counts above the leaf m is on, from prior to prior - 1 entries.
CountDeletion(w, m, prior) ==
  LET c  == w.cur[m]
      t  == Top(c)
      p  == c.pg[t]
      up == c.pg[t - 1]
      i  == c.ki[t - 1]
      direct == i < NumKeys(w, up) /\ Node(w, up, i).child = p
      found  == ParentDelta(w, up, p, prior - 1)
  IN IF t = 0 THEN w
     ELSE IF direct THEN Propagate(SetCount(w, up, i, prior - 1), c.pg, c.ki, t - 2, prior - 1 - Node(w, up, i).count)
     ELSE Propagate(found.w, c.pg, c.ki, t - 2, IF found.delta = 0 THEN -1 ELSE found.delta)

\* The cursors on the page m is on after the rebalance, from m's position on.
SettleDeleted(w, m) ==
  LET c == w.cur[m]
      t == Top(c)
      next(x) == LET s == Sibling(w, x, TRUE) IN IF s.found THEN s.c ELSE [x EXCEPT !.eof = TRUE]
  IN ForTracked(w, LAMBDA x, cx :
       IF cx.snum >= c.snum /\ cx.pg[t] = c.pg[t] /\ cx.ki[t] >= c.ki[t] /\ cx.ki[t] >= NumKeys(w, c.pg[t])
       THEN next(cx) ELSE cx)

\* mdb_cursor_del0
RECURSIVE CursorDel0(_, _)
CursorDel0(w, m) ==
  LET c == w.cur[m]
      t == Top(c)
      p == c.pg[t]
      i == c.ki[t]
      overflow == w.prefix /\ i = 0 /\ BytesOf(TRUE, WithoutTrunk(w, p)) > Room /\ NumKeys(w, p) > 1
      shifted(x) == ForTracked(x, LAMBDA y, cy :
                      IF y = m \/ cy.snum < c.snum \/ cy.pg[t] # p THEN cy
                      ELSE IF cy.ki[t] = i THEN [cy EXCEPT !.del = TRUE]
                      ELSE IF cy.ki[t] > i THEN [cy EXCEPT !.ki[t] = @ - 1] ELSE cy)
      marked(x) == Cur(x, m, [x.cur[m] EXCEPT !.del = TRUE])
      settled(x) == IF x.cur[m].snum = 0 THEN Cur(x, m, [x.cur[m] EXCEPT !.eof = TRUE])
                    ELSE marked(SettleDeleted(x, m))
  IN IF overflow THEN Then(SplitBeforeTrunkDelete(w, m), LAMBDA x : CursorDel0(x, m))
     ELSE Then(Then(CountDeletion([DelNode(w, p, i) EXCEPT !.entries = @ - 1], m, NumKeys(w, p)),
                    LAMBDA x : Rebalance(shifted(x), m)), settled)

\* mdb_cursor_del of a cursor that is on an entry
CursorDel(w, m) == CursorDel0(CursorTouch(w, m), m)

-----------------------------------------------------------------------------
(* Putting.                                                                *)

\* mdb_adjust_counted_parents
AdjustCountedParents(w, m, split, added) ==
  LET c  == w.cur[m]
      t  == Top(c)
      p  == c.pg[t]
      up == c.pg[t - 1]
      i  == c.ki[t - 1]
      matched == i < NumKeys(w, up) /\ Node(w, up, i).child = p
      was == Node(w, up, i).count
      new == IF split THEN SubtreeCount(w, p) ELSE was + added
      found == ParentDelta(w, up, p, SubtreeCount(w, p))
  IN IF t = 0 \/ (added = 0 /\ ~split) THEN w
     ELSE IF matched THEN Propagate(SetCount(w, up, i, new), c.pg, c.ki, t - 2, new - was)
     ELSE Propagate(found.w, c.pg, c.ki, t - 2, IF found.delta = 0 THEN added ELSE found.delta)

\* The node goes to the position of m, split or not; fl is "append" or empty.
Store(w, m, k, v, isNew, fl) ==
  LET c == w.cur[m]
      t == Top(c)
      p == c.pg[t]
      i == c.ki[t]
      n == w.pg[p].n
      size  == NodeHdr + v + EncodedSize(k, IF w.prefix /\ i # 0 /\ n # <<>> THEN SharedPrefix[n[1].k, k] ELSE Plain)
      full  == size > SizeLeft(w, p) \/ ~Fits(w, p, i, k, v)
      added == ForTracked(AddLeaf(w, p, i, k, v), LAMBDA x, cx :
                 IF x # m /\ cx.snum >= c.snum /\ cx.pg[t] = p /\ cx.ki[t] >= i /\ isNew
                 THEN [cx EXCEPT !.ki[t] = @ + 1] ELSE cx)
      entered(x) == IF isNew THEN Cur([x EXCEPT !.entries = @ + 1], m, [x.cur[m] EXCEPT !.on = TRUE]) ELSE x
  IN Then(IF full THEN Split(w, m, k, v, 0, fl \cup (IF isNew THEN {} ELSE {"replace"})) ELSE added,
          LAMBDA x : AdjustCountedParents(entered(x), m, full, IF isNew THEN 1 ELSE 0))

\* The leaf the put goes to is dirty and m on its place there.
PutNode(w, m, k, v, isNew, fl) ==
  LET p == TopPage(w.cur[m])
      i == TopKi(w.cur[m])
  IN IF ~isNew /\ Node(w, p, i).v = v THEN w
     ELSE Then(IF isNew THEN w ELSE DelNode(w, p, i), LAMBDA x : Store(x, m, k, v, isNew, fl \cap {"append"}))

\* Where the put goes and whether the key is new there.  MDB_APPEND asks only
\* for the last key.
PutPlace(w, c, k, fl) ==
  LET found(set) == [c |-> set.c, isNew |-> set.key = Absent]
      end(last)  == [last.c EXCEPT !.del = c.del]
      past(x)    == [x EXCEPT !.ki[Top(x)] = @ + 1]
      behind(last) == [c |-> IF k > last.key THEN past(end(last)) ELSE end(last), isNew |-> k > last.key]
  IN IF w.root = 0 THEN [c |-> c, isNew |-> TRUE]
     ELSE IF "append" \in fl THEN behind(CursorLast(w, c)) ELSE found(CursorSet(w, c, k, FALSE))

\* _mdb_cursor_put without MDB_DUPSORT: r.w is the new world, r.exists says
\* that MDB_KEYEXIST was returned.
CursorPut(w, m, k, v, fl) ==
  LET refused(place) == ~place.isNew /\ fl \cap {"append", "nooverwrite"} # {}
      rooted(root)   == Cur([WithPage(w, root, TRUE) EXCEPT !.root = root, !.depth = @ + 1], m,
                            [Pushed([w.cur[m] EXCEPT !.snum = 0, !.del = FALSE], root) EXCEPT !.on = TRUE])
      touched(place) == IF w.root = 0 THEN rooted(NewPage(w))
                        ELSE CursorTouch(Cur(w, m, [place.c EXCEPT !.del = FALSE]), m)
      put(place) == [exists |-> refused(place),
                     w |-> IF refused(place) THEN Cur(w, m, place.c)
                           ELSE PutNode(touched(place), m, k, v, place.isNew, fl)]
  IN put(PutPlace(w, w.cur[m], k, fl))

-----------------------------------------------------------------------------
(* mdb_put and mdb_del use a cursor of their own.                          *)

OwnCur == 0
Own(w)  == Track(Cur(w, OwnCur, NoCursor), OwnCur)
LeftTracked(w) == Cur(w, OwnCur, NoCursor)   \* mutant: it stays on mt_cursors
Left(w) == Cur(Untrack(w, OwnCur), OwnCur, NoCursor)

Put(w, k, v, fl) ==
  LET closed(r) == [exists |-> r.exists, w |-> Left(r.w)] IN closed(CursorPut(Own(w), OwnCur, k, v, fl))

\* key is Absent when there is nothing to delete
Del(w, k) ==
  LET del(set) == [key |-> set.key,
                   w |-> IF set.key = Absent THEN w ELSE Left(CursorDel(Cur(Own(w), OwnCur, set.c), OwnCur))]
  IN del(CursorSet(w, NoCursor, k, FALSE))

-----------------------------------------------------------------------------
(* Ranks.                                                                  *)

CountsBefore(w, p, i) == NodeSum(w.pg[p].leaf, SubSeq(w.pg[p].n, 1, i))

\* Mutant: an inclusive bound counts the key it was placed on, equal or not.
PrefixCountLoose(w, k, inclusive) ==
  LET before(c) == LET upTo[l \in -1 .. Top(c)] ==
                         IF l < 0 THEN 0 ELSE upTo[l - 1] + CountsBefore(w, c.pg[l], c.ki[l])
                   IN upTo[Top(c)]
      counted(set) == IF set.key = Absent THEN w.entries ELSE before(set.c) + (IF inclusive THEN 1 ELSE 0)
  IN counted(CursorSet(w, NoCursor, k, TRUE))

\* mdb_prefix_count: the entries with a key below k, k included if it is there
PrefixCount(w, k, inclusive) ==
  LET before(c) == LET upTo[l \in -1 .. Top(c)] ==
                         IF l < 0 THEN 0 ELSE upTo[l - 1] + CountsBefore(w, c.pg[l], c.ki[l])
                   IN upTo[Top(c)]
      counted(set) == IF set.key = Absent THEN w.entries
                      ELSE before(set.c) + (IF inclusive /\ set.key = k THEN 1 ELSE 0)
  IN counted(CursorSet(w, NoCursor, k, TRUE))

\* mdb_count_range with both bounds; before[k, inclusive] is mdb_prefix_count
CountRange(w, before, low, high, lowIncl, highIncl) ==
  LET upper == before[high, highIncl]
      lower == before[low, ~lowIncl]
  IN IF w.entries = 0 \/ low > high \/ (low = high /\ ~(lowIncl /\ highIncl)) THEN 0
     ELSE IF upper >= lower THEN upper - lower ELSE 0

\* mdb_cursor_rank_descend from page p, rank counted from its first entry
RECURSIVE RankDescend(_, _, _)
RankDescend(w, p, rank) ==
  LET n  == NumKeys(w, p)
      at == {i \in 0 .. n - 1 : rank < CountsBefore(w, p, i + 1)}
      i  == CHOOSE x \in at : \A y \in at : x <= y
  IN IF at = {} THEN Absent
     ELSE IF IsLeaf(w, p) THEN KeyAt(w, p, i)
     ELSE RankDescend(w, Node(w, p, i).child, rank - CountsBefore(w, p, i))

\* mdb_cursor_rank_search
KeyOfRank(w, rank) == IF w.entries <= rank THEN Absent ELSE RankDescend(w, w.root, rank)
=============================================================================
