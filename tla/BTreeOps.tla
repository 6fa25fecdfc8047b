------------------------------ MODULE BTreeOps ------------------------------
(***************************************************************************)
(* The operations of mdb.c that change the shape of a B+tree, as functions *)
(* from one world (see BTreePages) to the next: mdb_page_split,            *)
(* mdb_update_key, mdb_node_move, mdb_page_merge, mdb_rebalance and the    *)
(* insertion and deletion built from them, each with its loop over the     *)
(* other cursors and its adjustment of the subtree counts.                 *)
(*                                                                         *)
(* m names the cursor an operation works on (mc, csrc or cdst in the code).*)
(* Local cursors have numbers of their own: a split and a rebalance one    *)
(* for each height they may be active at, mdb_node_move and the split      *)
(* before a trunk is deleted one each.                                     *)
(***************************************************************************)
EXTENDS BTreePages

SplitCur(h)     == 100 + h   \* mn of mdb_page_split for a page of height h
RebalanceCur(h) == 200 + h   \* mn of mdb_rebalance with mc_top = h
MoveCur         == 300       \* mn of mdb_node_move
TrunkCur        == 301       \* mn of mdb_prefix_split_before_trunk_delete
LocalCurs == {SplitCur(h + 1) : h \in Levels} \cup {RebalanceCur(h) : h \in Levels} \cup {MoveCur, TrunkCur}

-----------------------------------------------------------------------------
(* mdb_page_split.                                                         *)

\* mdb_prefix_leaf_split_side_used: the size of one half as a page of its own
SideUsed(kv) == BytesOf(TRUE, Encoded(TRUE, kv))

\* Mutant: the split point by stored sizes is taken as it is.
AdjustSplitNever(kv, split, attempts) == split

\* mdb_prefix_leaf_adjust_split_index; 0 when it gives up
RECURSIVE AdjustSplit(_, _, _)
AdjustSplit(kv, split, attempts) ==
  LET left  == SideUsed(SubSeq(kv, 1, split))
      right == SideUsed(SubSeq(kv, split + 1, Len(kv)))
      last  == split >= Len(kv) - 1
  IN IF attempts > Len(kv) THEN 0
     ELSE IF left <= Room /\ right <= Room THEN split
     ELSE IF right > Room /\ ~last THEN AdjustSplit(kv, split + 1, attempts + 1)
     ELSE IF left > Room /\ split > 1 THEN AdjustSplit(kv, split - 1, attempts + 1)
     ELSE 0

\* The search for the split point by node sizes.  sizes are those of the old
\* nodes with the new one among them, from node i on in direction j up to k.
\* A page of one node is searched past its end when only the new encoding of
\* its trunk does not fit; what is read there does not change the result.
RECURSIVE SizeSplit(_, _, _, _, _)
SizeSplit(sizes, i, j, k, psize) ==
  IF i = k - j \/ psize + sizes[i + 1] > Room THEN i + (IF j < 0 THEN 1 ELSE 0)
  ELSE SizeSplit(sizes, i + j, j, k, psize + sizes[i + 1])

\* All pages hold fewer nodes than keythresh, the size search always runs.
SplitIndex(w, p, newindx, k, v) ==
  LET leaf  == IsLeaf(w, p)
      n     == w.pg[p].n
      half  == (Len(n) + 1) \div 2
      trunk == IF w.prefix /\ newindx # 0 /\ n # <<>> THEN SharedPrefix[n[1].k, k] ELSE Plain
      nsize == NodeHdr + (IF leaf THEN EncodedSize(k, trunk) + v ELSE KeyLen(k))
      bySize(sizes) == IF newindx >= Len(n) THEN SizeSplit(sizes, 0, 1, Len(n), 0)
                       ELSE IF newindx <= half THEN SizeSplit(sizes, 0, 1, half + 1 + (IF leaf THEN 1 ELSE 0), 0)
                       ELSE SizeSplit(sizes, Len(n), -1, half - 1, 0)
      clamped(i)  == IF i < 1 THEN 1 ELSE IF i > Len(n) THEN Len(n) ELSE i
      adjusted(i) == IF leaf /\ w.prefix /\ Len(n) > 0
                     THEN AdjustSplit(Inserted(Decoded(w, p), newindx, [k |-> k, v |-> v]), clamped(i), 0) ELSE i
  IN adjusted(bySize(Inserted([i \in 1 .. Len(n) |-> NodeBytes(leaf, n[i])], newindx, nsize)))

\* A new root above p for the cursor that splits it.
NewRoot(w, m, p) ==
  LET root == NewPage(w)
      c    == w.cur[m]
      w1   == WithPage([w EXCEPT !.root = root, !.depth = @ + 1], root, FALSE)
      w2   == AddBranch(w1, root, 0, 0, p, SubtreeCount(w, p))
  IN Cur(w2, m, [c EXCEPT !.snum = @ + 1,
       !.pg = Eager([l \in Levels |-> IF l = 0 THEN root ELSE IF l <= c.snum THEN c.pg[l - 1] ELSE c.pg[l]]),
       !.ki = Eager([l \in Levels |-> IF l = 0 THEN 0 ELSE IF l <= c.snum THEN c.ki[l - 1] ELSE c.ki[l]])])

\* Levels 0 .. h of cursor c taken from cursor from.
PathFrom(c, from, h) ==
  [c EXCEPT !.pg = Eager([l \in Levels |-> IF l <= h THEN from.pg[l] ELSE c.pg[l]]),
            !.ki = Eager([l \in Levels |-> IF l <= h THEN from.ki[l] ELSE c.ki[l]])]

\* After the parent was split, the left page may have moved with the right one.
LeftAfterParentSplit(w, m, mn, ptop) ==
  LET c == w.cur[m]
      r == w.cur[mn]
      moved == [PathFrom(c, r, ptop - 1) EXCEPT !.pg[ptop] = r.pg[ptop]]
      onto(s) == IF s.found THEN Cur(w, m, s.c) ELSE Failed(w)
  IN IF r.pg[ptop] = c.pg[ptop] \/ c.ki[ptop] < NumKeys(w, c.pg[ptop]) THEN w
     ELSE IF r.ki[ptop] # 0 THEN Cur(w, m, [moved EXCEPT !.ki[ptop] = r.ki[ptop] - 1])
     ELSE onto(Sibling(w, [moved EXCEPT !.ki[ptop] = 0], FALSE))

\* The nodes of both halves; the first key of a branch page is dropped.
Half(w, leaf, nodes) ==
  IF leaf THEN Encoded(w.prefix, [i \in 1 .. Len(nodes) |-> [k |-> nodes[i].k, v |-> nodes[i].v]])
  ELSE <<[Head(nodes) EXCEPT !.k = 0]>> \o Tail(nodes)

\* Mutant: the right half's count goes up the path of the left one.
SplitCountsOnePath(w, left, right, ptop, mp, rp) ==
  LET up(l, r) == Propagate(r.w, left.pg, left.ki, ptop - 1, l.delta + r.delta)
      onLeft(l) == up(l, ParentDelta(l.w, right.pg[ptop], rp, SubtreeCount(w, rp)))
  IN onLeft(ParentDelta(w, left.pg[ptop], mp, SubtreeCount(w, mp)))

\* Both parents' counts, then the difference up each path.
SplitCounts(w, left, right, ptop, mp, rp) ==
  LET same == left.pg[ptop] = right.pg[ptop]
      upLeft(l, r) == Propagate(r.w, left.pg, left.ki, ptop - 1, l.delta + (IF same THEN r.delta ELSE 0))
      up(l, r) == Propagate(upLeft(l, r), right.pg, right.ki, ptop - 1, IF same THEN 0 ELSE r.delta)
      onLeft(l) == up(l, ParentDelta(l.w, right.pg[ptop], rp, SubtreeCount(w, rp)))
  IN onLeft(ParentDelta(w, left.pg[ptop], mp, SubtreeCount(w, mp)))

\* One cursor among those that are not mc.  oldDepth is 0 unless the root was split.
SplitFix(w, m, mn, c, didSplit, s) ==
  LET mc   == w.cur[m]
      top  == Top(mc)
      ptop == top - 1
      nk   == NumKeys(w, s.mp)
      deeper(l) == l > 0 /\ l <= s.oldDepth + 1
      lift == [c EXCEPT !.snum = @ + 1,
                 !.pg = Eager([l \in Levels |-> IF l = 0 THEN mc.pg[0] ELSE IF deeper(l) THEN @[l - 1] ELSE @[l]]),
                 !.ki = Eager([l \in Levels |-> IF l = 0 THEN (IF @[0] >= nk THEN 1 ELSE 0)
                                                 ELSE IF deeper(l) THEN @[l - 1] ELSE @[l]])]
      shifted(x) == IF x.ki[top] >= s.newindx /\ ~s.replace THEN [x EXCEPT !.ki[top] = @ + 1] ELSE x
      divided(x) == IF x.ki[top] < nk THEN x
                    ELSE PathFrom([x EXCEPT !.pg[top] = s.rp, !.ki[top] = @ - nk], w.cur[mn], top - 1)
      parentGrew(x) == ~didSplit /\ Top(x) >= ptop /\ x.pg[ptop] = mc.pg[ptop] /\ x.ki[ptop] >= mc.ki[ptop]
      fixed(x) == IF Top(x) >= top /\ x.pg[top] = s.mp THEN divided(shifted(x))
                  ELSE IF parentGrew(x) THEN [x EXCEPT !.ki[ptop] = @ + 1] ELSE x
  IN IF s.oldDepth = 0 THEN fixed(c) ELSE IF c.pg[0] = s.mp THEN fixed(lift) ELSE c

RECURSIVE Split(_, _, _, _, _, _)

\* The separator of rp goes to a parent that has no room for it.
SplitParent(w, m, mn, sep, rp) ==
  LET c    == w.cur[m]
      up   == [w.cur[mn] EXCEPT !.snum = @ - 1]
      grew(x) == IF x.cur[m].snum > c.snum THEN 1 ELSE 0
  IN Then(Untrack(Split(Track(Cur(w, mn, up), mn), mn, sep, 0, rp, {}), mn),
          LAMBDA x : LeftAfterParentSplit(x, m, mn, Top(c) - 1 + grew(x)))

\* The nodes are divided, the new one among them, and the cursors follow them.
SplitNodes(w, m, mn, didSplit, s) ==
  LET left   == w.cur[m]
      right  == w.cur[mn]
      t      == Top(left)
      leaf   == IsLeaf(w, s.mp)
      halfL  == IF s.append THEN w.pg[s.mp].n ELSE Half(w, leaf, SubSeq(s.all, 1, s.split))
      halfR  == Half(w, leaf, IF s.append THEN <<s.fresh>> ELSE SubSeq(s.all, s.split + 1, Len(s.all)))
      across == [left EXCEPT !.pg[t] = s.rp, !.ki[t] = s.newindx - s.split, !.ki[t - 1] = @ + 1]
      parentPassed == right.pg[t - 1] # left.pg[t - 1] /\ left.ki[t - 1] + 1 >= NumKeys(w, left.pg[t - 1])
      moved  == IF s.append
                THEN [left EXCEPT !.pg[t] = s.rp,
                                  !.ki = Eager([l \in Levels |-> IF l < t THEN right.ki[l] ELSE IF l = t THEN 0 ELSE @[l]])]
                ELSE IF s.newindx < s.split THEN [left EXCEPT !.pg[t] = s.mp, !.ki[t] = s.newindx]
                ELSE IF parentPassed THEN PathFrom(across, right, t - 1) ELSE across
      divided == Cur([w EXCEPT !.pg[s.mp].n = halfL, !.pg[s.rp].n = halfR], m, moved)
      fixed(x) == ForTracked(x, LAMBDA y, c : IF y = m THEN c ELSE SplitFix(x, m, mn, c, didSplit, s))
  IN IF BytesOf(leaf, halfL) > Room \/ BytesOf(leaf, halfR) > Room THEN Failed(w)
     ELSE fixed(SplitCounts(divided, left, right, t - 1, s.mp, s.rp))

\* The separator in the parent, then the nodes.
SplitAt(w, m, s) ==
  LET c   == w.cur[m]
      top == Top(c)
      parent == c.pg[top - 1]
      sep == IF s.append THEN s.fresh.k ELSE s.all[s.split + 1].k
      mn  == SplitCur(w.depth - top)
      right == [c EXCEPT !.pg[top] = s.rp, !.ki[top - 1] = @ + 1, !.ki[top] = IF s.append THEN 0 ELSE @]
      begun == Cur(WithPage(w, s.rp, IsLeaf(w, s.mp)), mn, right)
      didSplit == SizeLeft(w, parent) < NodeHdr + KeyLen(sep)
  IN IF s.split = 0 THEN Failed(w)
     ELSE Then(IF didSplit THEN SplitParent(begun, m, mn, sep, s.rp)
               ELSE AddBranch(begun, parent, right.ki[top - 1], sep, s.rp, CountNone),
               LAMBDA x : SplitNodes(x, m, mn, didSplit, s))

\* The split of a page that has a parent, old or new.  mp is the page being
\* split, rp its new right sibling, all the nodes with the new one among them.
SplitBelow(w, m, k, v, child, fl, oldDepth) ==
  LET p     == TopPage(w.cur[m])
      i     == TopKi(w.cur[m])
      leaf  == IsLeaf(w, p)
      append == "append" \in fl
      fresh == IF leaf THEN [k |-> k, v |-> v] ELSE [k |-> k, child |-> child, count |-> SubtreeCount(w, child)]
  IN SplitAt(w, m, [mp |-> p, rp |-> NewPage(w), newindx |-> i, fresh |-> fresh,
                    all |-> Inserted(IF leaf THEN Decoded(w, p) ELSE w.pg[p].n, i, fresh),
                    split |-> IF append THEN i ELSE SplitIndex(w, p, i, k, v),
                    append |-> append, replace |-> "replace" \in fl, oldDepth |-> oldDepth])

Split(w, m, k, v, child, fl) ==
  LET atRoot == Top(w.cur[m]) < 1
  IN SplitBelow(IF atRoot THEN NewRoot(w, m, TopPage(w.cur[m])) ELSE w, m, k, v, child, fl,
                IF atRoot THEN w.depth ELSE 0)

-----------------------------------------------------------------------------
(* mdb_update_key: the separator the cursor points to becomes k.           *)

UpdateKey(w, m, k) ==
  LET p  == TopPage(w.cur[m])
      i  == TopKi(w.cur[m])
      nd == Node(w, p, i)
      more == KeyLen(k) - KeyLen(nd.k)
  IN IF more > 0 /\ SizeLeft(w, p) < more
     THEN Split([DelNode(w, p, i) EXCEPT !.keySplit = TRUE], m, k, 0, nd.child, {"replace"})
     ELSE [w EXCEPT !.pg[p].n[i + 1].k = k]
-----------------------------------------------------------------------------
(* mdb_node_move: the node under s goes to the position of d on the        *)
(* neighbouring page.                                                      *)

\* Mutant: a cursor that moves along keeps its index in the parent.
MoveFixBelow(w, s, d, sp, si, fromleft) ==
  LET cd == w.cur[d]
      t  == Top(cd)
      landed(c) == [c EXCEPT !.pg[t] = cd.pg[t], !.ki[t] = cd.ki[t]]
      left(x, c)  == IF x # d /\ c.pg[t] = cd.pg[t] /\ c.ki[t] >= cd.ki[t] THEN [c EXCEPT !.ki[t] = @ + 1]
                     ELSE IF x # s /\ c.pg[t] = sp /\ c.ki[t] = si THEN landed(c) ELSE c
      right(x, c) == IF x = s \/ c.pg[t] # sp THEN c
                     ELSE IF c.ki[t] = 0 THEN landed(c) ELSE [c EXCEPT !.ki[t] = @ - 1]
  IN ForTracked(w, LAMBDA x, c : IF Top(c) < t THEN c ELSE IF fromleft THEN left(x, c) ELSE right(x, c))

\* The cursors after the move; si and sp are where the node was.
MoveFix(w, s, d, sp, si, fromleft) ==
  LET cd == w.cur[d]
      t  == Top(cd)
      dp == cd.pg[t]
      di == cd.ki[t]
      landed(c, up) == [c EXCEPT !.pg[t] = dp, !.ki[t] = di, !.ki[t - 1] = @ + up]
      left(x, c)  == IF x # d /\ c.pg[t] = dp /\ c.ki[t] >= di THEN [c EXCEPT !.ki[t] = @ + 1]
                     ELSE IF x # s /\ c.pg[t] = sp /\ c.ki[t] = si THEN landed(c, 1)
                     ELSE c
      right(x, c) == IF x = s \/ c.pg[t] # sp THEN c
                     ELSE IF c.ki[t] = 0 THEN landed(c, -1) ELSE [c EXCEPT !.ki[t] = @ - 1]
  IN ForTracked(w, LAMBDA x, c : IF Top(c) < t THEN c ELSE IF fromleft THEN left(x, c) ELSE right(x, c))

\* Mutant: the separator stays as it was.
ReseparateNever(w, x) ==
  LET p == TopPage(w.cur[x])
  IN IF TopKi(w.cur[x]) # 0 \/ IsLeaf(w, p) THEN w ELSE [w EXCEPT !.pg[p].n[1].k = 0]

\* The separator of the page x points to, when its first node has changed.
Reseparate(w, x) ==
  LET c  == w.cur[x]
      up == Popped(c)
      implicit(y) == IF IsLeaf(y, TopPage(y.cur[x])) THEN y ELSE [y EXCEPT !.pg[TopPage(y.cur[x])].n[1].k = 0]
      named == Untrack(UpdateKey(Track(Cur(w, MoveCur, up), MoveCur), MoveCur, KeyAt(w, TopPage(c), 0)), MoveCur)
  IN IF TopKi(c) # 0 THEN w ELSE Then(IF TopKi(up) = 0 THEN w ELSE named, implicit)

\* The count beside the parent's reference to the page x points to, then the
\* difference up the path.  A stale index past the page's nodes is a wild write.
AddToCount(w, x, delta) ==
  LET c  == w.cur[x]
      t  == Top(c)
      pp == c.pg[t - 1]
      i  == c.ki[t - 1]
      was == Node(w, pp, i).count
      new == IF was + delta < 0 THEN 0 ELSE was + delta
  IN IF i >= NumKeys(w, pp) THEN [w EXCEPT !.wild = TRUE]
     ELSE Propagate(SetCount(w, pp, i, new), c.pg, c.ki, t - 2, new - was)

\* Both pages are dirty.  The first node of a branch page gets its key before
\* another goes in front of it.
MoveNode(w, s, d, fromleft) ==
  LET sp == TopPage(w.cur[s])
      si == TopKi(w.cur[s])
      leaf == IsLeaf(w, sp)
      nd   == Node(w, sp, si)
      key  == IF ~leaf /\ si = 0 THEN LowestKey(w, sp) ELSE KeyAt(w, sp, si)
      moved == IF leaf THEN 1 ELSE nd.count
      named == IF leaf \/ TopKi(w.cur[d]) # 0 THEN w
               ELSE UpdateKey(Cur(w, MoveCur, w.cur[d]), MoveCur, LowestKey(w, TopPage(w.cur[d])))
      placed(x, c) == IF leaf THEN AddLeaf(x, TopPage(c), TopKi(c), key, nd.v)
                      ELSE AddBranch(x, TopPage(c), TopKi(c), key, nd.child, moved)
      removed(x) == MoveFix(DelNode(x, sp, si), s, d, sp, si, fromleft)
      counted(x) == AddToCount(AddToCount(x, s, -moved), d, moved)
  IN Then(Then(Then(Then(named, LAMBDA x : placed(x, x.cur[d])), LAMBDA x : Reseparate(removed(x), s)),
               LAMBDA x : Reseparate(x, d)), counted)

NodeMove(w, s, d, fromleft) ==
  MoveNode(PageTouch(PageTouch(w, s, Top(w.cur[s])), d, Top(w.cur[d])), s, d, fromleft)

-----------------------------------------------------------------------------
(* mdb_page_merge and mdb_rebalance.                                       *)

RECURSIVE Rebalance(_, _)

\* The nodes of src's page behind those of dst's.
MergedNodes(w, sp, dp) ==
  LET src == w.pg[sp].n
      dst == w.pg[dp].n
      coded == [i \in 1 .. Len(src) |->
                  [k |-> KeyAt(w, sp, i - 1), v |-> src[i].v,
                   shared |-> IF w.prefix THEN SharedPrefix[dst[1].k, KeyAt(w, sp, i - 1)] ELSE Plain]]
  IN IF IsLeaf(w, sp) THEN IF dst = <<>> THEN Encoded(w.prefix, Decoded(w, sp)) ELSE dst \o coded
     ELSE dst \o [src EXCEPT ![1].k = LowestKey(w, sp)]

MergeFix(w, s, d, nkeys) ==
  LET cs == w.cur[s]
      cd == w.cur[d]
      t  == Top(cs)
  IN ForTracked(w, LAMBDA x, c :
       IF x = s \/ c.snum < cs.snum THEN c
       ELSE IF c.pg[t] = cs.pg[t]
            THEN [c EXCEPT !.pg[t] = cd.pg[t], !.ki[t] = @ + nkeys, !.ki[t - 1] = cd.ki[t - 1]]
       ELSE IF c.pg[t - 1] = cs.pg[t - 1] /\ c.ki[t - 1] > cs.ki[t - 1] THEN [c EXCEPT !.ki[t - 1] = @ - 1]
       ELSE c)

MergePages(w, s, d) ==
  LET cs == w.cur[s]
      t  == Top(cs)
      sp == cs.pg[t]
      dp == TopPage(w.cur[d])
      pp == cs.pg[t - 1]
      moved == SubtreeCount(w, sp)
      nodes == MergedNodes(w, sp, dp)
      counted == Propagate(AddToCount([w EXCEPT !.pg[dp].n = nodes], d, moved), cs.pg, cs.ki, t - 2, -moved)
      implicit(x) == IF cs.ki[t - 1] = 0 THEN [x EXCEPT !.pg[pp].n[1].k = 0] ELSE x
      joined == Freed(implicit(DelNode(counted, pp, cs.ki[t - 1])), sp)
      up(x) == Rebalance(Cur(x, d, Popped(x.cur[d])), d)
      back(x) == Cur(x, d, [x.cur[d] EXCEPT !.snum = w.cur[d].snum + x.depth - w.depth])
  IN IF BytesOf(IsLeaf(w, sp), nodes) > Room THEN Failed(w)
     ELSE back(up(MergeFix(joined, s, d, NumKeys(w, dp))))

Merge(w, s, d) == MergePages(PageTouch(w, d, Top(w.cur[d])), s, d)

\* Levels one further down become levels from on, up to the new depth.
Lowered(c, from, depth) ==
  LET at(f) == Eager([l \in Levels |-> IF l >= from /\ l < depth THEN f[l + 1] ELSE f[l]])
  IN [c EXCEPT !.pg = at(@), !.ki = at(@)]

RebalanceRoot(w, m) ==
  LET p == w.cur[m].pg[0]
      child == Node(w, p, 0).child
      depth == w.depth - 1
      off(c) == [c EXCEPT !.snum = 0, !.on = FALSE]
      empty  == ForTracked(Freed([w EXCEPT !.root = 0, !.depth = 0], p),
                           LAMBDA x, c : IF c.pg[0] = p THEN off(c) ELSE c)
      collapsed == ForTracked(Freed([w EXCEPT !.root = child, !.depth = depth], p),
                     LAMBDA x, c : IF x # m /\ c.pg[0] = p
                                   THEN [Lowered(c, 0, depth) EXCEPT !.snum = @ - 1] ELSE c)
      own == Lowered(w.cur[m], 1, depth)
  IN IF NumKeys(w, p) = 0 THEN Cur(empty, m, off(w.cur[m]))
     ELSE IF ~IsLeaf(w, p) /\ NumKeys(w, p) = 1
          THEN Cur(collapsed, m, [own EXCEPT !.pg[0] = child, !.ki[0] = w.cur[m].ki[1]])
     ELSE w

\* mdb_prefix_leaf_move_check, mdb_prefix_leaf_right_move_check
MoveFits(w, s, d, fromleft) ==
  LET sp == TopPage(w.cur[s])
      dp == TopPage(w.cur[d])
      last == w.pg[sp].n[NumKeys(w, sp)]
      front == <<[k |-> KeyAt(w, sp, NumKeys(w, sp) - 1), v |-> last.v]>>
  IN IF fromleft THEN w.pg[dp].n = <<>> \/ SideUsed(front \o Decoded(w, dp)) <= Room
     ELSE SideUsed(Tail(Decoded(w, sp))) <= Room

\* m's page is joined with the one on its left; m takes over that cursor.
MergeLeft(w, m, mn) ==
  LET t == Top(w.cur[m])
      joined(x) == Cur(x, m, PathFrom([x.cur[mn] EXCEPT !.pg = x.cur[m].pg, !.ki = x.cur[m].ki], x.cur[mn], Top(x.cur[mn])))
      merged == Merge(Track(SetKi(w, mn, t, w.cur[mn].ki[t] + w.cur[m].ki[t] + 1), mn), m, mn)
  IN Then(Untrack(merged, mn), joined)

Rebalance(w, m) ==
  LET c  == w.cur[m]
      t  == Top(c)
      p  == c.pg[t]
      leaf == IsLeaf(w, p)
      minkeys == IF leaf THEN 1 ELSE 2
      enough(q) == ~leaf \/ FilledEnough(w, q)
      short == NumKeys(w, p) < minkeys
      fromleft == c.ki[t - 1] # 0
      mn    == RebalanceCur(t)
      pi    == IF fromleft THEN c.ki[t - 1] - 1 ELSE c.ki[t - 1] + 1
      np    == Node(w, c.pg[t - 1], pi).child
      coded == leaf /\ w.prefix
      \* both cursors at the ends that face each other
      faced == Cur(Cur(w, mn, [c EXCEPT !.pg[t] = np, !.ki[t - 1] = pi,
                                        !.ki[t] = IF fromleft THEN NumKeys(w, np) - 1 ELSE 0]),
                   m, [c EXCEPT !.ki[t] = IF fromleft THEN 0 ELSE NumKeys(w, p)])
      lends == enough(np) /\ NumKeys(w, np) > minkeys
      moveFits  == ~coded \/ MoveFits(faced, mn, m, fromleft)
      mergeFits == ~coded \/ BytesOf(TRUE, IF fromleft THEN MergedNodes(w, p, np) ELSE MergedNodes(w, np, p)) <= Room
      back(x, cx, ki) == Cur(x, m, [cx EXCEPT !.ki[Top(cx)] = ki])
      merged(x, cx, ki) == back(x, [cx EXCEPT !.eof = FALSE], ki)
  IN IF enough(p) /\ ~short THEN w
     ELSE IF c.snum < 2 THEN RebalanceRoot(w, m)
     ELSE IF lends /\ moveFits
          THEN Then(NodeMove(faced, mn, m, fromleft),
                    LAMBDA x : back(x, x.cur[m], IF fromleft THEN c.ki[t] + 1 ELSE c.ki[t]))
     ELSE IF ~short /\ (lends \/ ~mergeFits) THEN w
     ELSE IF ~mergeFits THEN Failed(w)
     ELSE IF fromleft THEN Then(MergeLeft(faced, m, mn), LAMBDA x : merged(x, x.cur[m], c.ki[t] + NumKeys(w, np)))
     ELSE Then(Merge(faced, mn, m), LAMBDA x : merged(x, x.cur[m], c.ki[t]))
=============================================================================
