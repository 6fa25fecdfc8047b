----------------------------- MODULE BTreePages -----------------------------
(***************************************************************************)
(* The pages of a dlmdb B+tree and what is read from them and written to   *)
(* them one node at a time (mdb_node_add, mdb_node_del, the searches and   *)
(* the subtree counts of a MDB_COUNTED database).                          *)
(*                                                                         *)
(* Keys are numbered in the order of md_cmp, Bytes gives the bytes of      *)
(* each; key 0 is the empty key of the first node of a branch page, and    *)
(* also what a reader gets from a node whose stored bytes no longer decode *)
(* to a key.  A value is its size.  With MDB_PREFIX_COMPRESSION the first  *)
(* node of a leaf page, the trunk, holds its key plainly; any other holds  *)
(* the length of the prefix it shares with the trunk and the rest.         *)
(*                                                                         *)
(* Everything a write transaction reaches of one database is the record w: *)
(* pages, root, depth, entries, the cursors by number and which of them    *)
(* are on mt_cursors.  A page is [leaf, n], n the sequence of its nodes.   *)
(***************************************************************************)
EXTENDS Integers, Sequences, FiniteSets, TLC

CONSTANTS Bytes,     \* the bytes of every key, a sequence in key order
          Room,      \* bytes for nodes in an empty page
          MaxPages,  \* page numbers 1 .. MaxPages
          MaxHeight  \* CURSOR_STACK

NodeHdr == 1         \* NODESIZE and the slot in mp_ptrs
Keys    == 1 .. Len(Bytes)
Pgs     == 1 .. MaxPages
Levels  == 0 .. MaxHeight - 1
Plain   == -1        \* "shared" of a node that holds its key plainly

ASSUME SizesAssumption == /\ Room \in Nat /\ MaxPages \in Nat \ {0} /\ MaxHeight \in Nat \ {0}
                          /\ \A k \in Keys : Bytes[k] \in Seq(Nat) /\ Bytes[k] # <<>>

-----------------------------------------------------------------------------
(* Keys and their encoding.                                                *)

\* f itself; TLC evaluates it entry by entry once instead of at every use.
Eager(f) == f @@ <<>>

KeyLen(k) == IF k = 0 THEN 0 ELSE Len(Bytes[k])

\* mdb_leaf_shared_prefix
SharedPrefix == Eager([a \in Keys \cup {0}, b \in Keys \cup {0} |->
  CHOOSE n \in 0 .. KeyLen(a) :
    /\ n <= KeyLen(b) /\ \A i \in 1 .. n : Bytes[a][i] = Bytes[b][i]
    /\ n = KeyLen(a) \/ n = KeyLen(b) \/ Bytes[a][n + 1] # Bytes[b][n + 1]])

\* mdb_leaf_encoded_size
EncodedSize(k, shared) == IF shared = Plain THEN KeyLen(k) ELSE 1 + KeyLen(k) - shared

\* The stored bytes of a compressed key are those of the trunk itself.
LooksLikeTrunk(trunk, nd) ==
  /\ nd.shared # Plain /\ nd.k # 0 /\ trunk # 0
  /\ <<nd.shared>> \o SubSeq(Bytes[nd.k], nd.shared + 1, KeyLen(nd.k)) = Bytes[trunk]

-----------------------------------------------------------------------------
(* Reading pages.                                                          *)

NumKeys(w, p) == Len(w.pg[p].n)
Node(w, p, i) == w.pg[p].n[i + 1]
IsLeaf(w, p)  == w.pg[p].leaf

NodeBytes(leaf, nd) ==
  NodeHdr + (IF leaf THEN EncodedSize(nd.k, nd.shared) + nd.v ELSE KeyLen(nd.k))

BytesOf(leaf, n) ==
  LET upTo[i \in 0 .. Len(n)] == IF i = 0 THEN 0 ELSE upTo[i - 1] + NodeBytes(leaf, n[i])
  IN upTo[Len(n)]

SizeLeft(w, p) == Room - BytesOf(w.pg[p].leaf, w.pg[p].n)

\* PAGEFILL against FILL_THRESHOLD, 250 of 1000
FilledEnough(w, p) == 4 * (Room - SizeLeft(w, p)) >= Room

\* mdb_cursor_read_key_at, mdb_leaf_decode_key
KeyAt(w, p, i) ==
  LET nd == Node(w, p, i)
      trunk == Node(w, p, 0)
  IN CASE ~IsLeaf(w, p) \/ ~w.prefix -> nd.k
       [] i = 0 -> IF nd.shared = Plain THEN nd.k ELSE 0
       [] OTHER -> IF /\ nd.shared # Plain /\ trunk.shared = Plain
                      /\ SharedPrefix[trunk.k, nd.k] >= nd.shared
                   THEN nd.k ELSE 0

\* mdb_node_search: the smallest index with a key not below k, NumKeys if none;
\* the first key of a branch page is not looked at
RECURSIVE Bisect(_, _, _, _, _)
Bisect(w, p, k, low, high) ==
  IF low > high THEN low
  ELSE LET i == (low + high) \div 2
           here == KeyAt(w, p, i)
       IN IF k = here THEN i
          ELSE IF k > here THEN Bisect(w, p, k, i + 1, high) ELSE Bisect(w, p, k, low, i - 1)

NodeSearch(w, p, k) == Bisect(w, p, k, IF IsLeaf(w, p) THEN 0 ELSE 1, NumKeys(w, p) - 1)

KeyIsAt(w, p, i, k) == i < NumKeys(w, p) /\ KeyAt(w, p, i) = k

\* The child mdb_page_search_root follows from branch page p.
ChildIndex(w, p, k) ==
  LET below(i) == IF i >= NumKeys(w, p) THEN NumKeys(w, p) - 1 ELSE IF KeyAt(w, p, i) = k THEN i ELSE i - 1
  IN below(NodeSearch(w, p, k))

\* mdb_page_search_lowest and the read of its first key
RECURSIVE LowestKey(_, _)
LowestKey(w, p) == IF IsLeaf(w, p) THEN KeyAt(w, p, 0) ELSE LowestKey(w, Node(w, p, 0).child)

-----------------------------------------------------------------------------
(* Cursors.  Levels count from 0 as mc_pg and mc_ki do; entries from snum  *)
(* up are left over from earlier.                                          *)

NoCursor == [on |-> FALSE, eof |-> FALSE, del |-> FALSE, snum |-> 0,
             pg |-> Eager([l \in Levels |-> 0]), ki |-> Eager([l \in Levels |-> 0])]

Top(c)     == c.snum - 1
TopPage(c) == c.pg[c.snum - 1]
TopKi(c)   == c.ki[c.snum - 1]

\* mdb_cursor_push, mdb_cursor_pop
Pushed(c, p) == [c EXCEPT !.snum = @ + 1, !.pg[c.snum] = p, !.ki[c.snum] = 0]
Popped(c)    == [c EXCEPT !.snum = @ - 1, !.on = c.on /\ c.snum > 1]

Cur(w, m, c)  == [w EXCEPT !.cur[m] = c]
SetKi(w, m, l, i) == [w EXCEPT !.cur[m].ki[l] = i]

\* The loop over mt_cursors: Upd(m, c) for every initialised cursor on it.
ForTracked(w, Upd(_, _)) ==
  [w EXCEPT !.cur = Eager([m \in DOMAIN w.cur |->
     IF m \in w.tracked /\ w.cur[m].on THEN Upd(m, w.cur[m]) ELSE w.cur[m]])]

\* WITH_CURSOR_TRACKING
Track(w, m)   == [w EXCEPT !.tracked = @ \cup {m}]
Untrack(w, m) == [w EXCEPT !.tracked = @ \ {m}]

\* mdb_cursor_sibling.  found = FALSE leaves the cursor as it was.
RECURSIVE Sibling(_, _, _)
Sibling(w, c, right) ==
  LET i      == c.ki[Top(c) - 1]
      atEnd  == IF right THEN i + 1 >= NumKeys(w, c.pg[Top(c) - 1]) ELSE i = 0
      beside == [found |-> TRUE, c |-> [Popped(c) EXCEPT !.ki[Top(c) - 1] = IF right THEN i + 1 ELSE i - 1]]
      onLast(x)  == [x EXCEPT !.ki[Top(x)] = NumKeys(w, TopPage(x)) - 1]
      entered(x) == IF right THEN x ELSE onLast(x)
      below(r)   == IF ~r.found THEN [found |-> FALSE, c |-> c]
                    ELSE [found |-> TRUE, c |-> entered(Pushed([r.c EXCEPT !.on = c.on],
                                                               Node(w, TopPage(r.c), TopKi(r.c)).child))]
  IN IF c.snum < 2 THEN [found |-> FALSE, c |-> c]
     ELSE below(IF atEnd THEN Sibling(w, Popped(c), right) ELSE beside)

-----------------------------------------------------------------------------
(* Subtree counts (MDB_COUNTED).                                           *)

\* mdb_page_subtree_count, mdb_leaf_contribution, mdb_branch_sum
NodeSum(leaf, n) ==
  LET upTo[i \in 0 .. Len(n)] == IF i = 0 THEN 0 ELSE upTo[i - 1] + (IF leaf THEN 1 ELSE n[i].count)
  IN upTo[Len(n)]
SubtreeCount(w, p) == NodeSum(w.pg[p].leaf, w.pg[p].n)

SetCount(w, p, i, x) == [w EXCEPT !.pg[p].n[i + 1].count = x]

\* mdb_propagate_count_delta_path over levels level, level - 1, .., 0
RECURSIVE Propagate(_, _, _, _, _)
Propagate(w, pg, ki, level, delta) ==
  IF delta = 0 \/ level < 0 THEN w
  ELSE LET p == pg[level]
           i == ki[level]
           was == Node(w, p, i).count
           new == IF was + delta < 0 THEN 0 ELSE was + delta
       IN Propagate(IF i < NumKeys(w, p) THEN SetCount(w, p, i, new) ELSE w, pg, ki, level - 1, delta)

\* mdb_update_parent_count: the count of the node that refers to child, by search
ParentDelta(w, parent, child, total) ==
  LET at == {i \in 0 .. NumKeys(w, parent) - 1 : Node(w, parent, i).child = child}
  IN IF at = {} THEN [w |-> w, delta |-> 0]
     ELSE LET i == CHOOSE x \in at : \A y \in at : x <= y
          IN [w |-> SetCount(w, parent, i, total), delta |-> total - Node(w, parent, i).count]

-----------------------------------------------------------------------------
(* Writing nodes.                                                          *)

Inserted(s, i, x) == SubSeq(s, 1, i) \o <<x>> \o SubSeq(s, i + 1, Len(s))
Removed(s, i)     == SubSeq(s, 1, i) \o SubSeq(s, i + 2, Len(s))

\* mdb_leaf_rebuild_apply: kv is a sequence of keys with their values
Encoded(prefix, kv) ==
  Eager([i \in 1 .. Len(kv) |->
     [k |-> kv[i].k, v |-> kv[i].v,
      shared |-> IF prefix /\ i > 1 THEN SharedPrefix[kv[1].k, kv[i].k] ELSE Plain]])

Decoded(w, p) == Eager([i \in 1 .. NumKeys(w, p) |-> [k |-> KeyAt(w, p, i - 1), v |-> w.pg[p].n[i].v]])

\* How mdb_leaf_rebuild_after_trunk_insert reads the nodes it encodes again:
\* bytes equal to those of the old trunk are taken for the old trunk.
DecodedForInsert(w, p) ==
  LET trunk == Node(w, p, 0).k
  IN Eager([i \in 1 .. NumKeys(w, p) |->
        IF i > 1 /\ LooksLikeTrunk(trunk, w.pg[p].n[i])
        THEN [Decoded(w, p)[i] EXCEPT !.k = trunk] ELSE Decoded(w, p)[i]])

\* The leaf nodes after k is added at index i (mdb_node_add).
LeafWith(w, p, i, k, v) ==
  LET n == w.pg[p].n
      trunk == n[1].k
  IN IF w.prefix /\ i = 0 /\ n # <<>> /\ trunk # k
     THEN Encoded(TRUE, <<[k |-> k, v |-> v]>> \o DecodedForInsert(w, p))
     ELSE Inserted(n, i, [k |-> k, v |-> v,
            shared |-> IF w.prefix /\ i # 0 /\ n # <<>> THEN SharedPrefix[trunk, k] ELSE Plain])

\* Mutant: only the new node is measured, not the old ones with a new trunk.
FitsAlone(w, p, i, k, v) == NodeBytes(TRUE, LeafWith(w, p, i, k, v)[i + 1]) <= SizeLeft(w, p)

Fits(w, p, i, k, v) == BytesOf(TRUE, LeafWith(w, p, i, k, v)) <= Room

Failed(w) == [w EXCEPT !.failed = TRUE]

\* The next call of an operation, unless the one before it failed.
Then(w, Call(_)) == IF w.failed THEN w ELSE Call(w)

AddLeaf(w, p, i, k, v) ==
  IF Fits(w, p, i, k, v) THEN [w EXCEPT !.pg[p].n = LeafWith(w, p, i, k, v)] ELSE Failed(w)

CountNone == -1   \* MDB_COUNT_HINT_NONE
AddBranch(w, p, i, k, child, hint) ==
  LET nd == [k |-> k, child |-> child, count |-> IF hint = CountNone THEN SubtreeCount(w, child) ELSE hint]
  IN IF NodeHdr + KeyLen(k) > SizeLeft(w, p) THEN Failed(w) ELSE [w EXCEPT !.pg[p].n = Inserted(@, i, nd)]

\* mdb_leaf_rebuild_after_trunk_delete
WithoutTrunk(w, p) == Encoded(TRUE, Tail(Decoded(w, p)))

\* mdb_node_del
DelNode(w, p, i) ==
  IF w.prefix /\ IsLeaf(w, p) /\ i = 0
  THEN IF BytesOf(TRUE, WithoutTrunk(w, p)) <= Room THEN [w EXCEPT !.pg[p].n = WithoutTrunk(w, p)] ELSE Failed(w)
  ELSE [w EXCEPT !.pg[p].n = Removed(@, i)]

\* mdb_page_alloc: pages of the committed version (old) are never taken.
NewPage(w) ==
  LET free == Pgs \ (DOMAIN w.pg \cup w.old) IN CHOOSE p \in free : \A q \in free : p <= q

\* mdb_page_new, mdb_page_loose or mdb_midl_append to the freed pages
WithPage(w, p, leaf) == [w EXCEPT !.pg = (p :> [leaf |-> leaf, n |-> <<>>]) @@ @]
Freed(w, p)       == [w EXCEPT !.pg = Eager([q \in DOMAIN w.pg \ {p} |-> w.pg[q]])]

\* mdb_page_touch at level l of cursor m: a page of the committed version is
\* replaced by a copy, in the tree and in every cursor that points to it.
PageTouch(w, m, l) ==
  LET c  == w.cur[m]
      p  == c.pg[l]
      np == NewPage(w)
      linked == IF l = 0 THEN [w EXCEPT !.root = np]
                ELSE [w EXCEPT !.pg[c.pg[l - 1]].n[c.ki[l - 1] + 1].child = np]
      copied == Freed([linked EXCEPT !.pg = (np :> w.pg[p]) @@ @], p)
  IN IF p \notin w.old THEN w
     ELSE [copied EXCEPT !.cur = Eager([x \in DOMAIN w.cur |->
             IF x = m \/ (x \in w.tracked /\ w.cur[x].snum > l /\ w.cur[x].pg[l] = p)
             THEN [w.cur[x] EXCEPT !.pg[l] = np] ELSE w.cur[x]])]

\* mdb_cursor_touch: levels l .. top from the root down
RECURSIVE TouchFrom(_, _, _)
TouchFrom(w, m, l) == IF l >= w.cur[m].snum THEN w ELSE TouchFrom(PageTouch(w, m, l), m, l + 1)
CursorTouch(w, m) == TouchFrom(w, m, 0)
=============================================================================
