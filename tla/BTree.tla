------------------------------- MODULE BTree --------------------------------
(***************************************************************************)
(* A write transaction at work on one MDB_COUNTED database, with or        *)
(* without MDB_PREFIX_COMPRESSION: calls of mdb_put, mdb_del and of the    *)
(* cursor functions in any order, on a tree another transaction committed. *)
(* One cursor per key was opened and placed on its key before, so that     *)
(* every call meets another cursor at every place of the tree.             *)
(***************************************************************************)
EXTENDS BTreeAccess

CONSTANTS Values,    \* sizes of the values
          Users,     \* the cursors of the program: numbers, u placed on key u
          Movers,    \* those that are also moved and written through
          Committed, \* the trees the transaction may begin with
          MaxOps     \* calls in one behaviour

ASSUME BTreeAssumption == Movers \subseteq Users /\ Users \subseteq Keys /\ MaxOps \in Nat

VARIABLES w,      \* the tree and the cursors
          last,   \* the last call: its name, cursor, key and answer
          ops,    \* calls made so far
          seen    \* what a program can see of w, see Seen

vars == <<w, last, ops, seen>>

Exists == -2    \* MDB_KEYEXIST
Stored == -3    \* MDB_SUCCESS of a call that returns no key

-----------------------------------------------------------------------------
\* Between calls only the cursors of the program exist; what a cursor leaves
\* above its top is never read.
Clean(c) == [c EXCEPT !.pg = Eager([l \in Levels |-> IF l < c.snum THEN c.pg[l] ELSE 0]),
                      !.ki = Eager([l \in Levels |-> IF l < c.snum THEN c.ki[l] ELSE 0]),
                      !.del = c.on /\ c.del]
Rest(x)  == [x EXCEPT !.cur = Eager([u \in Users |-> Clean(x.cur[u])])]
Busy     == [w EXCEPT !.cur = @ @@ [x \in LocalCurs \cup {OwnCur} |-> NoCursor]]

\* The entries below p in order.
RECURSIVE EntriesBelow(_)
EntriesBelow(p) ==
  LET n == NumKeys(w, p)
      upTo[i \in 0 .. n] == IF i = 0 THEN <<>> ELSE upTo[i - 1] \o EntriesBelow(Node(w, p, i - 1).child)
  IN IF IsLeaf(w, p) THEN [i \in 1 .. n |-> [k |-> KeyAt(w, p, i - 1), v |-> Node(w, p, i - 1).v]] ELSE upTo[n]

Entries == IF w.root = 0 THEN <<>> ELSE EntriesBelow(w.root)

\* Where a cursor is: on a key, past the last one, or nowhere.
Position(c) ==
  IF ~c.on THEN 0
  ELSE IF TopKi(c) < NumKeys(w, TopPage(c)) THEN KeyAt(w, TopPage(c), TopKi(c))
  ELSE IF Sibling(w, c, TRUE).found THEN Garbage ELSE Highest

\* The entries as a map.
MapOf(es) ==
  LET upTo[i \in 0 .. Len(es)] == IF i = 0 THEN <<>> ELSE upTo[i - 1] @@ (es[i].k :> es[i].v)
  IN upTo[Len(es)]

\* The database as a map and the place of every cursor in it.
Seen == [kv  |-> MapOf(Entries),
         at  |-> Eager([u \in Users |-> Position(w.cur[u])]),
         del |-> Eager([u \in Users |-> w.cur[u].del]),
         ended |-> {u \in Users : w.cur[u].eof}]

\* The tree as a transaction finds it, its cursors placed one after the other.
Begun(x) ==
  LET fresh == [x EXCEPT !.old = DOMAIN x.pg, !.tracked = Users]
  IN [fresh EXCEPT !.cur = Eager([u \in Users |-> CursorSet(fresh, NoCursor, u, FALSE).c]),
                   !.cur = Eager([u \in Users |-> IF CursorSet(fresh, NoCursor, u, FALSE).key = u THEN Clean(@[u]) ELSE NoCursor])]

Init == /\ w \in {Begun(x) : x \in Committed}
        /\ last = [op |-> "begin", by |-> 0, key |-> 0, reply |-> Absent]
        /\ ops = 0
        /\ seen = Seen

\* After a failure (MDB_TXN_ERROR) the tree is not used any more.
Ready == ops < MaxOps /\ ~w.failed /\ ~w.wild

Call(op, u, k, x, r) ==
  /\ ops' = ops + 1
  /\ w' = IF x.failed THEN Failed(w) ELSE Rest(x)
  /\ last' = [op |-> op, by |-> u, key |-> k, reply |-> r]
  /\ seen' = Seen'

PutReply(r) == IF r.exists THEN Exists ELSE Stored

TxnPut(k, v, flag) == Ready /\ \E r \in {Put(Busy, k, v, {flag})} : Call(flag, 0, k, r.w, PutReply(r))

TxnDel(k) == Ready /\ \E r \in {Del(Busy, k)} : Call("del", 0, k, r.w, IF r.key = Absent THEN Absent ELSE Stored)

PutAt(u, k, v) == Ready /\ \E r \in {CursorPut(Busy, u, k, v, {})} : Call("put", u, k, r.w, PutReply(r))

DelAt(u) == /\ Ready /\ w.cur[u].on /\ TopKi(w.cur[u]) < NumKeys(w, TopPage(w.cur[u]))
            /\ \E x \in {CursorDel(Busy, u)} : Call("del", u, 0, x, Stored)

Move(op, u, k, r) == Ready /\ Call(op, u, k, Cur(w, u, r.c), r.key)

First(u)   == Move("first", u, 0, CursorFirst(w, w.cur[u]))
Last(u)    == Move("last", u, 0, CursorLast(w, w.cur[u]))
Next(u)    == Move("next", u, 0, CursorNext(w, w.cur[u]))
Prev(u)    == Move("prev", u, 0, CursorPrev(w, w.cur[u]))
Seek(u, k) == Ready /\ \E r \in {CursorSet(w, w.cur[u], k, TRUE)} : Move("seek", u, k, Got(r.c, r.key))

Step == \/ \E k \in Keys, v \in Values, flag \in {"upsert", "append", "nooverwrite"} : TxnPut(k, v, flag)
        \/ \E k \in Keys : TxnDel(k)
        \/ \E u \in Movers, k \in Keys, v \in Values : PutAt(u, k, v)
        \/ \E u \in Movers : DelAt(u)
        \/ \E u \in Movers : First(u) \/ Last(u) \/ Next(u) \/ Prev(u)
        \/ \E u \in Movers, k \in Keys : Seek(u, k)

Spec == Init /\ [][Step]_vars
-----------------------------------------------------------------------------
(* What is true between calls.                                             *)

\* The pages below p with their height, leaf pages at height 1; a page that is
\* reached twice is listed twice.
RECURSIVE PagesBelow(_)
PagesBelow(p) ==
  LET n == NumKeys(w, p)
      upTo[i \in 0 .. n] == IF i = 0 THEN <<p>> ELSE upTo[i - 1] \o PagesBelow(Node(w, p, i - 1).child)
  IN IF IsLeaf(w, p) THEN <<p>> ELSE upTo[n]

RECURSIVE Height(_)
Height(p) == IF IsLeaf(w, p) THEN 1 ELSE 1 + Height(Node(w, p, 0).child)

Branches == {p \in DOMAIN w.pg : ~IsLeaf(w, p)}

TypeOK ==
  /\ DOMAIN w.pg \subseteq Pgs /\ w.old \subseteq Pgs /\ w.root \in DOMAIN w.pg \cup {0}
  /\ \A p \in DOMAIN w.pg : \A i \in 1 .. Len(w.pg[p].n) :
       LET nd == w.pg[p].n[i]
       IN IF IsLeaf(w, p) THEN nd.k \in Keys /\ nd.v \in Values /\ nd.shared \in {Plain} \cup Nat
          ELSE nd.k \in Keys \cup {0} /\ nd.child \in Pgs /\ nd.count \in Nat
  /\ DOMAIN w.cur = Users /\ w.tracked = Users
  /\ last.reply \in Keys \cup {Absent, Exists, Stored} /\ ops \in 0 .. MaxOps

\* The tree is balanced, every page is in it once, no branch page has fewer
\* than two nodes and no leaf is empty, and each separator divides the keys
\* on its left from those on its right (mdb_page_split, mdb_node_move,
\* mdb_page_merge and mdb_rebalance, which collapses the root).
TreeShape ==
  LET reached == PagesBelow(w.root)
  IN IF w.root = 0 THEN w.pg = <<>> /\ w.depth = 0 /\ w.entries = 0
     ELSE /\ Len(reached) = Cardinality(DOMAIN w.pg)
          /\ {reached[i] : i \in 1 .. Len(reached)} = DOMAIN w.pg
          /\ Height(w.root) = w.depth /\ w.entries = Len(Entries)
          /\ \A i \in 1 .. Len(Entries) - 1 : Entries[i].k < Entries[i + 1].k
          /\ \A p \in DOMAIN w.pg : NumKeys(w, p) >= (IF IsLeaf(w, p) THEN 1 ELSE 2)
          /\ \A p \in Branches : \A i \in 1 .. NumKeys(w, p) - 1 :
               LET left == EntriesBelow(Node(w, p, i - 1).child)
                   right == EntriesBelow(Node(w, p, i).child)
               IN /\ Height(Node(w, p, i).child) = Height(p) - 1
                  /\ left[Len(left)].k < Node(w, p, i).k /\ Node(w, p, i).k <= right[1].k

\* No page holds more bytes than it has room for and every stored key decodes
\* to the key that was put: the trunk of a compressed leaf is stored plainly
\* and the other nodes share with it no more than they really do.
PagesFit ==
  \A p \in DOMAIN w.pg : /\ SizeLeft(w, p) >= 0
                         /\ \A i \in 0 .. NumKeys(w, p) - 1 : IsLeaf(w, p) => KeyAt(w, p, i) # 0

\* A legal call always finds room: a split point, a page to merge with, a
\* parent that takes the separator.  MDB_PAGE_FULL would poison the transaction.
NoCallFails == ~w.failed

\* The path of every cursor is a path of the tree: after pages are copied,
\* split, merged, emptied or the root collapses (the loops over mt_cursors).
CursorPathsHold ==
  \A u \in Users :
    LET c == w.cur[u]
    IN c.on => /\ c.snum = w.depth /\ c.pg[0] = w.root
               /\ \A l \in 0 .. Top(c) - 1 : /\ c.ki[l] < NumKeys(w, c.pg[l])
                                             /\ Node(w, c.pg[l], c.ki[l]).child = c.pg[l + 1]

\* The count beside every child is the number of entries below it, whatever
\* splits, moves and merges came between, as long as no separator that grew
\* has split its parent in the course of a move (mdb_node_move counts the
\* move again then).
CountsExact ==
  ~w.keySplit => \A p \in Branches : \A i \in 0 .. NumKeys(w, p) - 1 :
                   Node(w, p, i).count = Len(EntriesBelow(Node(w, p, i).child))

\* Ranks are ordinals: the key of rank r is the one with r keys before it, and
\* a range count is the number of keys in the range (mdb_cursor_get_rank,
\* mdb_count_range).
RanksAreOrdinals ==
  LET count == Eager([k \in Keys, incl \in BOOLEAN |-> PrefixCount(w, k, incl)])
      stored == DOMAIN seen.kv
  IN w.keySplit \/
       /\ \A k \in stored : KeyOfRank(w, Cardinality({x \in stored : x < k})) = k
       /\ \A low \in Keys, high \in Keys, li \in BOOLEAN, hi \in BOOLEAN :
            CountRange(w, count, low, high, li, hi) =
              Cardinality({k \in stored : /\ low < k \/ (li /\ low = k)
                                          /\ k < high \/ (hi /\ high = k)})

-----------------------------------------------------------------------------
(* The transaction implements an ordered map with cursors.                 *)

Map == INSTANCE OrderedMap WITH kv <- seen.kv, at <- seen.at, del <- seen.del, ended <- seen.ended

\* Whatever the shape of the tree, a program sees an ordered map: every call
\* returns what the map says and every other cursor stays on its key, or goes
\* to the next one when its key is deleted.
ImplementsOrderedMap == Map!Spec
=============================================================================
